SPECIFICATION Spec
CONSTANTS
  t1 = t1
  t2 = t2
  f1 = f1
  f2 = f2
  f3 = f3
  v1 = v1
  v2 = v2
  e = e
  None = None
  Main = t1
  Threads = {t1, t2}
  Fibers = {f1, f2, f3}
  Values = {v1, v2}
  Errors = {e}
CHECK_DEADLOCK FALSE
INVARIANTS OneActivation SleepingStacksAreWalked CurrentStackIsWalked
PROPERTIES ImplementsCoroutines
