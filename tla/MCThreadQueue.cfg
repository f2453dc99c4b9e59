SPECIFICATION Spec
CONSTANTS
  t1 = t1
  t2 = t2
  t3 = t3
  Threads = {t1, t2, t3}
  Nobody = Nobody
  Items = {a, b}
  None = None
  Sizes = {1, 2}
  MaxLength = 2
  Program <- Calling
  Payload <- Pushing
  a = a
  b = b
CHECK_DEADLOCK FALSE
INVARIANTS ListsAreTrue EveryItemHasATaker RoomIsOffered CloseReachesTheListed WakersMeetSleepers
PROPERTIES ImplementsChannel
