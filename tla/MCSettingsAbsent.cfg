SPECIFICATION Spec
CONSTANTS
  h1 = h1
  h2 = h2
  n0 = n0
  n1 = n1
  Cli = Cli
  Main = Main
  None = None
  d1 = d1
  Handlers = {h1, h2}
  Names = {n0, n1}
  FirstName = n0
  Patches <- MCPatches
  Decks = {d1}
  MaxSets = 3
  MaxAds = 3
SYMMETRY HandlerSymmetry
INVARIANT AbsentKeyLeftAlone
