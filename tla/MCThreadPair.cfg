SPECIFICATION Spec
CONSTANTS
  m = m
  w = w
  x = x
  errA1 = errA1
  errA2 = errA2
  errB = errB
  err = err
  None = None
  Nobody = Nobody
  Main = m
  ThreadError = err
  Threads <- Two
  Exceptions = {errA1, errB, err}
  Ancestors <- MCAncestors
  Frames <- NeverAndMixed
  Calls <- PairCalls
  AbortOnException = {}
  MaxMasks = 2
  MaxHandlers = 1
  MaxCauses = 0
CHECK_DEADLOCK FALSE
INVARIANTS JoinSeesOutcome JoinRaisesWhatEnded
PROPERTIES NeverIsHonoured KillIsNotRescued
