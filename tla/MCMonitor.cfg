SPECIFICATION Spec
CONSTANTS
  t1 = t1
  t2 = t2
  t3 = t3
  Threads = {t1, t2, t3}
  Nobody = Nobody
  MaxDepth = 2
  MaxEntries = 3
CHECK_DEADLOCK FALSE
SYMMETRY ThreadSymmetry
INVARIANTS MonitorIsSound NoForgottenWaiter
PROPERTIES SignalsWake
