SPECIFICATION Spec
CONSTANTS
  Queuers = {ann, bob}
  Workers = {w1, w2}
  LobbySize = 2
  MaxEnqueues = 2
  MaxFailures = 1
  Drivers = {ann, bob, cid}
  Bots <- MCBots
  Rooms = {1, 2}
  MaxRacers = 3
  MaxPlaces = 3
  MinRace = 2
  Ceiling = 1
  Late = 1
  WinnerLate = 1
  Straggler = 1
  MaxRaceTime = 3
  Scores <- MCScores
CHECK_DEADLOCK FALSE
INVARIANTS SameRoom
