SPECIFICATION Spec
CONSTANTS
  N = 6
  Kind <- TwiceKind
  Policy <- TwicePolicy
  Handle <- TwiceHandle
  Inject <- TwiceInject
  VolumesOf <- TwiceVolumes
  LogPolicy <- TwiceLogs
  ImageOf <- TwiceImages
  Source <- TwiceSource
  PullPolicy <- TwicePull
  Local = {"nginx", "postgres"}
  Isolated = TRUE
  SelfContainer = TRUE
  Strategies = {"RunningRegardless", "RunningOnFailure", "StopOnFailure", "RemoveRegardless"}
  Faults = {"network", "wait", "panic", "remove", "auth", "inspect", "exit", "operate", "prior"}
INVARIANT KeptOnFailure
INVARIANT HandleResolves
INVARIANT LogsAsPolicy
INVARIANT ImagesResolved
