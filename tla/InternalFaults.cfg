SPECIFICATION FairSpec
CONSTANTS
  t1 = t1
  t2 = t2
  t3 = t3
  a = a
  b = b
  NoId = NoId
  Tests <- ThreeTests
  Names = {a}
  Uses <- UsesA
  Strict <- StrictA
  Networks <- MixedNetworks
  NetworkOf <- MixedOf
  Isolated <- JustT1
  CounterMax = 2
  OverflowChecks = TRUE
  Faults = {"create", "connect", "start", "wait", "panic", "disconnect", "keep", "ignite", "strict", "inspect"}
INVARIANT TypeOK
INVARIANT IInv
INVARIANT BodyContainerAlive
INVARIANT BodiesShareContainer
INVARIANT CounterExact
INVARIANT NothingLeaked
PROPERTY EventuallyEnded
PROPERTY ImplementsShared
