SPECIFICATION Spec
CONSTANTS
  Requests = {r1, r2}
  None = None
  Names <- MCNames
  Lists <- MCLists
  MaxHosts = 2
  MaxUpdates = 1
INVARIANT AdmittedInForce
INVARIANT RefusedByRules
INVARIANT FounderIsLocal
SYMMETRY Symmetry
