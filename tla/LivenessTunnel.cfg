SPECIFICATION FairSpec
CONSTANTS
  None = None
  Services = {s1}
  Pids = {p1}
  Ports = {a}
  Hosts = {h}
  RouterFaults = FALSE
  MaxGeneration = 1
  Modes = {"tunnel"}
  GatewayModes = {"none"}
  MaxBoots = 2
PROPERTY CallsFinish
PROPERTY EnabledServicesRestored
PROPERTY ExitsNoticed
