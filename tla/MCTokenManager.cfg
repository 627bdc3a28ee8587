SPECIFICATION Spec
CONSTANTS
  k1 = k1
  k2 = k2
  t1 = t1
  t2 = t2
  c1 = c1
  c2 = c2
  c3 = c3
  None = None
  Keys <- MCKeys
  Callers <- MCCallers
  Tokens <- MCTokens
  Owner <- MCOwner
  MaxCalls = 5
SYMMETRY CallerSymmetry
INVARIANTS
  TypeOK
  SingleFlight
  NoLostWaiter
  NoMixUp
  InvalidateForgets
PROPERTY NoWastedRefresh
