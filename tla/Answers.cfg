SPECIFICATION SpecAnswers
CONSTANTS
  ann = ann
  bob = bob
  cid = cid
  Racers = {ann, bob, cid}
  Position <- MCPosition
  Races <- MCRaces
  MaxReports = 3
  Overlap = {"none"}
  Faults = {"read", "end", "upsert", "reward", "rep", "settle"}
  api1 = api1
  api2 = api2
  Players = {ann, bob}
  Processes = {api1, api2}
  Requests = {1, 2, 3}
  Amounts = {1, 2}
  Funds <- MCFunds
  Asked <- MCAsked
  MaxDailyWithdrawals = 2
  MaxDailyUsdc = 3
  MaxRejected = 1
CHECK_DEADLOCK FALSE
INVARIANTS
  ResultsInv
  WithdrawalInv
  DailySum
PROPERTIES
  EveryoneRewarded
  Answered
