SPECIFICATION Spec
CONSTANTS
  t1 = t1
  t2 = t2
  t3 = t3
  a = a
  b = b
  NoId = NoId
  Tests <- ThreeTests
  Names = {a}
  Uses <- UsesA
  Strict <- NoneStrict
  Networks <- OwnNetworks
  NetworkOf <- AllIsolated
  Isolated <- ThreeTests
  CounterMax = 3
  OverflowChecks = TRUE
  Faults = {"remove", "inspect", "ignite"}
INVARIANT ReachableFromBody
INVARIANT IsolatedNetworkDeleted
PROPERTY StartedOnce
