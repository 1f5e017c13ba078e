SPECIFICATION Spec
CONSTANTS
  Ips = {a, b}
  MaxRequests = 2
  WindowDur = 2
  BanDur = 2
  MaxTime = 5
  a = a
  b = b
SYMMETRY IpSymmetry
INVARIANTS
  SlidingWindow
  DroppingIsInvisible
PROPERTIES
  BansLast
  BansAreJust
