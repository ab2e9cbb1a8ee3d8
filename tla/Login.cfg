SPECIFICATION Spec
CONSTANTS
  Requests = {r1, r2}
  Keys = {k1}
  Passwords = {p1, p2}
  Secrets = {s1, s2}
  Tokens = {t1, t2}
  None = None
  Threshold = 2
  MaxBoots = 2
INVARIANT SetupIsWhole
INVARIANT GrantedWhileInForce
INVARIANT GuessesBounded
SYMMETRY Symmetry
