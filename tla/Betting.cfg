SPECIFICATION BettingSpec
CONSTANTS
  ann = ann
  bob = bob
  cid = cid
  dan = dan
  onAnn = onAnn
  onBob = onBob
  onCid = onCid
  onDan = onDan
  win = win
  podium = podium
  NoPool = NoPool
  Racers = {ann, bob}
  Position <- MCPosition
  Races <- MCOnlyAnn
  MaxReports = 1
  Overlap = {}
  Faults = {"stake", "create", "return", "collect", "claim", "mark", "refund", "payout", "reopen"}
  Pools = {win}
  Kind <- MCKind
  RakeBps = 500
  Bets = {onAnn, onBob}
  Pool <- MCPool
  Selection <- MCSelection
  Stake <- MCStake
  Sweeps = {s1, s2}
  Unacked = {"stake", "return", "claim", "mark", "refund", "reopen"}
  Crashes = {"stake", "create", "return", "settle", "settling", "finish", "mark", "refund", "refund-rows", "payout", "payout-rows", "reopen", "stale", "voiding", "void-refund", "void-rows"}
  LateBets = {onAnn, onBob}
  PartialReads = TRUE
SYMMETRY Symmetry
INVARIANTS
  FairInv
  BooksAgree
