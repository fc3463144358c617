SPECIFICATION LiveSpec
CONSTANTS
  h1 = h1
  v = v
  NoLayout = NoLayout
  Viewer = v
  Socket = {v}
  Profile = {1, 2}
  Default = 1
  Layout <- MCLayouts
  DefaultLayout <- a
  Role = "deck"
  Handler = {h1}
  Extra = {2}
  Edited = {}
  Activated = {1, 2}
  Deleted = {}
  MaxLoads = 2
  Capacity = 2
  MaxEvents = 2
INVARIANTS
  DeckShowsActive
