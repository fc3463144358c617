SPECIFICATION Spec
CONSTANTS
  d1 = d1
  d2 = d2
  r1 = r1
  r2 = r2
  p = p
  Device = {d1, d2}
  Requester = {r1, r2}
  Panel = {p}
  MaxWindow = 2
  WriteOutcomes = {TRUE, FALSE}
SYMMETRY PairingSymmetry
INVARIANTS
  TypeOK
  StoredSurvives
  SpentStaysClosed
