SPECIFICATION FairSpec
CONSTANTS
  m = m
  w = w
  x = x
  errA1 = errA1
  errA2 = errA2
  errB = errB
  err = err
  None = None
  Nobody = Nobody
  Main = m
  ThreadError = err
  Threads <- Three
  Exceptions = {errA1, errA2, err}
  Ancestors <- MCAncestors
  Frames <- NeverA
  Calls <- InterruptCalls
  AbortOnException = {}
  MaxMasks = 1
  MaxHandlers = 1
  MaxCauses = 0
CHECK_DEADLOCK FALSE
INVARIANTS NoLostInterrupt
PROPERTIES InterruptEndsSleep ImplementsMailbox
