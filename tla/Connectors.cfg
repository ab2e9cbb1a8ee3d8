SPECIFICATION Spec
CONSTANTS
  None = None
  Services = {s1}
  Pids = {p1, p2}
  Ports = {a}
  Hosts = {h}
  RouterFaults = FALSE
  MaxGeneration = 1
  Modes = {"quick", "tunnel"}
  GatewayModes = {"none"}
  MaxBoots = 2
INVARIANT EveryConnectorManaged
INVARIANT UrlIsOfRegisteredProcess
PROPERTY StoppedStaysOff
PROPERTY KeepsConnectorContract
SYMMETRY Symmetry
