SPECIFICATION Spec
CONSTANTS
  Accounts = {a1, a2}
  None = None
  Sends = {1}
  MaxLoads = 3
  MaxSwitches = 1
  MaxXlmFaults = 1
  MaxViews = 3
  Reward = 2
  OtherCredits = {0, 3}
  Pedals = {"throttle"}
  KeyFor <- MCKeyFor
  Things = {i1, i2}
  Nothing = Nothing
  MaxTier = 2
  Credits = 4
  Most <- MCMost
  Quads = 3
  FadeFrames = 4
  Puffs = 4
  SpawnFrames = 2
  Lives = {2, 3}
  MaxFrames = 6
SYMMETRY Symmetry
CHECK_DEADLOCK FALSE
INVARIANTS
  XlmPanelInv
  RaceViewInv
  InputInv
  PagesInv
  EffectsInv
