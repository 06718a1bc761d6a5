SPECIFICATION SpecMarket
CONSTANTS
  Nobody = Nobody
  ann = ann
  bolt = bolt
  dart = dart
  Players = {ann, bob, cid}
  Threads = {t1, t2}
  Faults = {"lost", "crash"}
  Traders = {ann, bob, cid}
  Cars = {bolt, dart}
  Owners <- MCOwners
  Listings = {1, 2}
  MaxTier = 2
  Upgradable = {bolt}
SYMMETRY Symmetry
CHECK_DEADLOCK FALSE
INVARIANTS
  MarketInv
PROPERTIES
  CarIsPaidFor
