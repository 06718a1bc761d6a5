SPECIFICATION Spec
CONSTANTS
  L = 6
  Gates = 3
  Laps = 2
  Grid = {4}
  MaxDs = 2
  MaxJumps = 2
  Bottles = 2
  PerBottle = 2
  BoostTicks = 2
  GraceTicks = 2
  MaxSlide = 1
  MaxTicks = 6
  CarStates <- MCStates
  Drive <- MCDrive
  Pose <- MCPose
  Bank <- MCBank
  Origin <- MCOrigin
  Start <- MCStart
  Inputs = {0, 1}
  Neutral = 0
  MaxHistory = 2
  MaxQueue = 2
  MaxAhead = 3
  MaxFrames = 4
  MaxSimTicks = 4
  MaxInFlight = 2
  KeepFor = 4
  Delay = 2
  MaxPushes = 5
  MaxGap = 4
  seller = seller
  buyer = buyer
  Wallets = {seller, buyer}
  Panels = {buyer}
  Treasury = Treasury
  Contract = Contract
  Purse <- MCPurse
  Holding <- MCHolding
  Fees = {500}
  Offers <- MCOffers
  MaxListings = 2
  MaxSequence = 1
  MaxClicks = 2
  Bootstraps = {b1, b2}
  Deploys = {d1, d2}
  NoOne = NoOne
  Circle = Circle
  MaxRuns = 3
  MaxEdits = 1
CHECK_DEADLOCK FALSE
INVARIANTS
  DrivingInv
  NetcodeInv
  FundsFlow
  PanelInv
  SetupInv
