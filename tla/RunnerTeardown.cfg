SPECIFICATION FairSpec
CONSTANTS
  N = 4
  Kind <- MixedKind
  Policy <- MixedPolicy
  Handle <- MixedHandle
  Inject <- MixedInject
  VolumesOf <- MixedVolumes
  LogPolicy <- MixedLogs
  ImageOf <- MixedImages
  Source <- MixedSource
  PullPolicy <- MixedPull
  Local = {"app", "nginx"}
  Isolated = TRUE
  SelfContainer = TRUE
  Strategies = {"StopOnFailure", "RemoveRegardless"}
  Faults = {"pull", "network", "create", "connect", "start", "wait", "panic", "inspect", "shared", "prior", "exit"}
INVARIANT TypeOK
INVARIANT TeardownInv
INVARIANT NothingLeft
INVARIANT StaticHandedBack
PROPERTY EventuallyEnded
