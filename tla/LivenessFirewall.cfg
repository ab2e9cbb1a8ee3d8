SPECIFICATION FairSpec
CONSTANTS
  None = None
  Services = {s1}
  Pids = {p1}
  Ports = {a}
  Hosts = {h}
  RouterFaults = FALSE
  MaxGeneration = 1
  Modes = {"direct"}
  GatewayModes = {"fw4"}
  MaxBoots = 1
PROPERTY AnnouncementsHandled
PROPERTY RulesReasserted
