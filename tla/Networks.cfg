SPECIFICATION FairSpec
CONSTANTS
  b1 = b1
  b2 = b2
  b3 = b3
  t1 = t1
  t2 = t2
  t3 = t3
  t4 = t4
  t5 = t5
  s1 = s1
  s2 = s2
  c1 = c1
  NoSelf = NoSelf
  Binaries = {b1, b2, b3}
  Tests = {t1, t2, t3, t4, t5}
  BinaryOf <- ThreeBinaries
  Namespaces = {s1, s2}
  NsOf <- OneApart
  Containers = {c1}
  SelfOf <- TwoInside
  Stamp <- OneOrder
  Faults = {"list", "create", "connect", "prune"}
INVARIANT SharedInBinary
INVARIANT SharedByName
INVARIANT RaceHarmless
PROPERTY EventuallyAnswered
