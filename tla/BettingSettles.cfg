SPECIFICATION FairBettingSpec
CONSTANTS
  ann = ann
  bob = bob
  cid = cid
  dan = dan
  onAnn = onAnn
  onBob = onBob
  onCid = onCid
  onDan = onDan
  win = win
  podium = podium
  NoPool = NoPool
  Racers = {ann, bob, cid, dan}
  Position <- MCPosition
  Races <- MCRaces
  MaxReports = 1
  Overlap = {}
  Faults = {"create", "payout", "reward"}
  Pools = {podium}
  Kind <- MCKind
  RakeBps = 500
  Bets = {onAnn, onCid}
  Pool <- MCPool
  Selection <- MCSelection
  Stake <- MCStake
  Sweeps = {s1}
  Unacked = {}
  Crashes = {}
  LateBets = {onAnn}
  PartialReads = TRUE
INVARIANTS
  PaidRightly
  StakesReturn
PROPERTIES
  EveryBetSettles
