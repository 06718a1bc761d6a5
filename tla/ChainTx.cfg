SPECIFICATION Spec
CONSTANTS
  Keys = {k1}
  Requests = {r1, r2}
  Sweepers = {s1}
  Envelopes = {e1, e2}
  NoEnv = NoEnv
  Timeout = 1
  Grace = 1
  Buffer = 1
  Lag = 1
  Retries = "quiet"
  Redelivery = FALSE
  MaxClock = 6
SYMMETRY Symmetry
INVARIANTS
  IInv
  PaidAtMostOnce
  JournalIsTrue
PROPERTIES
  ImplementsPayment
