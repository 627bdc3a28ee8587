SPECIFICATION Spec
CONSTANTS
  l1 = l1
  l2 = l2
  u1 = u1
  u2 = u2
  k1 = k1
  default = default
  NoHeader = NoHeader
  Malformed = Malformed
  None = None
  Logins <- MCLogins
  Users <- MCUsers
  Keys <- MCKeys
  Default <- default
  MaxLogins = 3
SYMMETRY Symmetry
INVARIANTS
  TypeOK
  NoResidue
  KeyOpensToken
CHECK_DEADLOCK FALSE
