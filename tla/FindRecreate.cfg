SPECIFICATION Spec
CONSTANTS
  t1 = t1
  t2 = t2
  t3 = t3
  a = a
  b = b
  NoId = NoId
  Tests <- TwoTests
  Names = {a}
  Uses <- UsesA
  Strict <- NoneStrict
  Networks <- OneNetwork
  NetworkOf <- AllSingular
  Isolated <- NoIsolated
  CounterMax = 3
  OverflowChecks = TRUE
  Faults = {}
PROPERTY CleanedIsCreatedAgain
