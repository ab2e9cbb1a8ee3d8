SPECIFICATION FairSpec
CONSTANTS
  Kinds = {"open_internet", "endpoint_independent", "address_dependent", "address_port_dependent"}
  Noise = TRUE
INVARIANT TypeIsReal
INVARIANT ReportAgrees
PROPERTY ReportEventually
CHECK_DEADLOCK FALSE
