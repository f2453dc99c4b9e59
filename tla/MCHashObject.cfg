SPECIFICATION HashSpec
CONSTANTS
  k1 = k1
  k2 = k2
  k3 = k3
  n1 = n1
  n2 = n2
  n3 = n3
  n4 = n4
  n5 = n5
  Keys = {k1, k2, k3}
  Nodes = {n1, n2, n3, n4}
  Null = Null
  MaxLoops = 2
SYMMETRY KeySymmetry
INVARIANTS TableIsTheRing FlagMeansEach
PROPERTIES VisitsThePresent VisitsAllOnce
