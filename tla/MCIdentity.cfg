SPECIFICATION Spec
CONSTANTS
  p1 = p1
  p2 = p2
  d1 = d1
  Procs = {p1, p2}
  Decks = {d1}
  Missing = Missing
  Torn = Torn
  MaxGen = 2
  MaxResets = 1
SYMMETRY ProcSymmetry
INVARIANTS
  TypeOK
  CertificateCommits
  OneIdentity
  PairedStaysPaired
