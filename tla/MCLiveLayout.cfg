SPECIFICATION LiveSpec
CONSTANTS
  h1 = h1
  h2 = h2
  v = v
  NoLayout = NoLayout
  Viewer = v
  Socket = {v}
  Profile = {1, 2}
  Default = 1
  Layout <- MCLayouts
  DefaultLayout <- a
  Role = "deck"
  Handler = {h1, h2}
  Extra = {2}
  Edited = {1, 2}
  Activated = {1, 2}
  Deleted = {2}
  MaxLoads = 2
  Capacity = 1
  MaxEvents = 2
INVARIANTS
  LiveTypeOK
  
PROPERTIES
  DeckCatchesUp
