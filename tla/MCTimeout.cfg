SPECIFICATION FairSpec
CONSTANTS
  t1 = t1
  t2 = t2
  r1 = r1
  r2 = r2
  Threads = {t1, t2}
  Requests = {r1, r2}
  None = None
  Error = Error
  MaxNesting = 2
INVARIANTS ExpiriesHitTheirCall OneWatcher
PROPERTIES ExpiryIsRaised
