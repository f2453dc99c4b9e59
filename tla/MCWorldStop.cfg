SPECIFICATION FairSpec
CONSTANTS
  t1 = t1
  t2 = t2
  t3 = t3
  Main = Main
  Nobody = Nobody
  Threads = {t1, t2, t3}
  MaxCollections = 2
CHECK_DEADLOCK FALSE
INVARIANTS WorldIsStopped SignalsReachTheLiving StacksAreCovered
PROPERTIES CollectionEnds
