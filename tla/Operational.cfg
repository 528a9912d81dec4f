SPECIFICATION Spec
CONSTANTS
  Clones = {c1, c2, c3}
  Expected = {"Running", "Exited"}
  MaxCalls = 2
  Faults = {"exit", "daemon", "cancel", "unwaited"}
  Ports = {80, 90}
  PortKeys <- SomeKeys
  PortMaps <- SomePortMaps
  Unpublished = Unpublished
INVARIANT IInv
INVARIANT AgreesAtRest
INVARIANT SomeCallAccepted
INVARIANT HostPortFaithful
PROPERTY KillIsFinal
