SPECIFICATION FairSpec
CONSTANTS
  p1 = p1
  p2 = p2
  House = House
  reward = reward
  spend = spend
  bet = bet
  transfer = transfer
  broken = broken
  Players = {p1, p2}
  Journals = {reward, spend, bet, transfer, broken}
  Debit <- MCDebit
  Credit <- MCCredit
  Calls = {c1, c2, c3}
  MaxAttempts = 1
CHECK_DEADLOCK FALSE
INVARIANTS
  NonNegative
PROPERTIES
  ImplementsLedger
  PostEnds
