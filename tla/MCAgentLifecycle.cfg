SPECIFICATION FairSpec
CONSTANTS
  h1 = h1
  Homes = {h1, h2}
  DefaultHome = h1
  Windows = {w1}
  Callers = {k1, k2}
  Processes = {p1, p2}
  w1 = w1
  WindowOf <- MCWindowOf
  MaxSlow = 1
  None = None
INVARIANT LifecycleInv
PROPERTIES OrphansEnd StopsOnlyOwn ImplementsCollector
CHECK_DEADLOCK FALSE
