SPECIFICATION Spec
CONSTANTS
  N = 3
  Kind <- OwnKind
  Policy <- OwnPolicy
  Handle <- OwnHandle
  Inject <- OwnInject
  VolumesOf <- OwnVolumes
  LogPolicy <- OwnLogs
  ImageOf <- OwnImages
  Source <- OwnSource
  PullPolicy <- OwnPull
  Local = {"postgres", "app", "rabbit"}
  Isolated = FALSE
  SelfContainer = FALSE
  Strategies = {"RemoveRegardless"}
  Faults = {"panic"}
INVARIANT TornDownAlways
