SPECIFICATION Spec
CONSTANTS
  Conns = {c1, c2}
  Zones = {z1, z2}
  Services = {s1}
  Requests = {r1, r2}
  None = None
  MaxBoots = 2
INVARIANT TypeOK
INVARIANT HostInItsZone
INVARIANT OwnedHasConnection
SYMMETRY Symmetry
CHECK_DEADLOCK FALSE
