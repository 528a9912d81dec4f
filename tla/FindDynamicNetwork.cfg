SPECIFICATION Spec
CONSTANTS
  t1 = t1
  t2 = t2
  t3 = t3
  d = d
  e = e
  Prior = Prior
  NoId = NoId
  Tests = {t1, t2}
  Names = {d}
  Dynamic = {d}
  Uses <- OnlyD
  Strict <- NoneStrict
  Shared <- SharedNetworks
  Settings <- JustIsolated
  Faults = {}
INVARIANT IsolatedNetworkDeleted
