SPECIFICATION Spec
CONSTANTS
  Profile = {1, 2, 3}
  Default = 2
  Layout <- MCLayouts
  DefaultLayout <- DefaultProfile
  WriteOutcomes = {TRUE, FALSE}
INVARIANTS
  TypeOK
  ActiveIsReal
  StoredIsSound
