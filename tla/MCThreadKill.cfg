SPECIFICATION FairSpec
CONSTANTS
  m = m
  w = w
  x = x
  errA1 = errA1
  errA2 = errA2
  errB = errB
  err = err
  None = None
  Nobody = Nobody
  Main = m
  ThreadError = err
  Threads <- Three
  Exceptions = {err}
  Ancestors <- MCAncestors
  Frames <- NeverA
  Calls <- KillCalls
  AbortOnException = {x}
  MaxMasks = 1
  MaxHandlers = 1
  MaxCauses = 0
CHECK_DEADLOCK FALSE
PROPERTIES KilledSleeperDies
