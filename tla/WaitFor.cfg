SPECIFICATION FairSpec
CONSTANTS
  Waits <- SomeWaits
  Horizon = 4
  MaxLog = 2
  Faults = {"inspect", "stream"}
INVARIANT OkMeansReady
INVARIANT PollVerdict
INVARIANT MessageVerdict
PROPERTY EventuallyReturns
