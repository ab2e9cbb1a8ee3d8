SPECIFICATION Spec
CONSTANTS
  None = None
  Services = {s1}
  Pids = {p1}
  Ports = {a}
  Hosts = {h}
  RouterFaults = TRUE
  MaxGeneration = 2
  Modes = {"dns"}
  GatewayModes = {"none", "natpmp"}
  MaxBoots = 1
INVARIANT EveryEntryWatched
INVARIANT RecordKeptAlive
SYMMETRY Symmetry
