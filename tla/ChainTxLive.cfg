SPECIFICATION FairSpec
CONSTANTS
  Keys = {k1}
  Requests = {r1}
  Sweepers = {s1, s2}
  Envelopes = {e1, e2}
  NoEnv = NoEnv
  Timeout = 1
  Grace = 1
  Buffer = 1
  Lag = 1
  Retries = "quiet"
  Redelivery = FALSE
  MaxClock = 4
PROPERTIES
  Settles
