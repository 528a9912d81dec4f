SPECIFICATION FairSpec
CONSTANTS
  t1 = t1
  t2 = t2
  t3 = t3
  d = d
  e = e
  Prior = Prior
  NoId = NoId
  Tests = {t1, t2, t3}
  Names = {d, e}
  Dynamic = {d}
  Uses <- ChainUses
  Strict <- StrictD
  Shared <- SharedNetworks
  Settings <- MixedSettings
  Faults = {"connect", "start", "wait", "panic", "remove", "strict", "keep", "exit", "pause", "user"}
INVARIANT IInv
INVARIANT BodyContainerKept
INVARIANT StartAgreed
INVARIANT ReachableFromBody
INVARIANT OnlyDynamicHoldNetwork
PROPERTY RemovesWhatItInspected
PROPERTY EventuallyEnded
