SPECIFICATION Spec
CONSTANTS
  Nobody = Nobody
  ann = ann
  bob = bob
  neon = neon
  void = void
  Players = {ann, bob, cid}
  Threads = {t1, t2}
  Faults = {"lost", "crash"}
  Entrants = {ann, bob, cid}
  EntryFee = 3
  BracketSize = 2
  Rankings <- MCRankings
  People = {ann, bob, cid}
  Founders = {ann, bob}
  Factions = {neon, void}
  Names = {neon}
  Homes <- MCHomes
  MaxMembers = 1
  MaxInfluence = 1
  Attempts = 2
  Wallets = {w1}
  Issuer = Issuer
  Servers = {s1, s2}
  Jobs = {1, 2, 3}
  MaxCustodyFaults = 1
  Users = {u1, u2}
  WalletKeys = {k1}
  NoUser = NoUser
  Links = {l1, l2}
  MaxChallenges = 3
  Identities = {google, discord}
  Guest = Guest
  Tabs = {b1, b2}
  MaxAccounts = 3
  MaxLogins = 2
  MaxFailures = 1
SYMMETRY Symmetry
CHECK_DEADLOCK FALSE
INVARIANTS
  TournamentInv
  CommunityInv
  CustodyInv
  LinkingInv
  AccountInv
