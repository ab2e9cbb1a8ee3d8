SPECIFICATION Spec
CONSTANTS
  None = None
  Services = {s1}
  Pids = {p1, p2}
  Ports = {a, b}
  Hosts = {h}
  RouterFaults = FALSE
  MaxGeneration = 2
  Modes = {"direct"}
  GatewayModes = {"upnp"}
  MaxBoots = 1
INVARIANT GatewayEntriesAnsweredFor
PROPERTY RecordFrozenAfterRemoval
SYMMETRY Symmetry
