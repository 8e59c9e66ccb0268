SPECIFICATION Spec
CONSTANTS
  c1 = c1
  c2 = c2
  k0 = k0
  k1 = k1
  Plane = Plane
  Conns = {c1, c2}
  CRs = {cr1}
  CAs = {k0, k1}
  Trusts <- AllOrNone
  Tasks = {t1, t2}
  MaxChanges = 2
SYMMETRY Symmetric
INVARIANTS
  TypeOK
  CursorsBacked
  TurnsAreFair
