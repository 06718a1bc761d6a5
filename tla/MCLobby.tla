------------------------------- MODULE MCLobby ------------------------------
(***************************************************************************)
(* From the queue to a ticket, or from the tickets of a match to its end:  *)
(* the two halves share the tickets only, so a behaviour follows one.      *)
(***************************************************************************)
EXTENDS Matchmaking, RaceRoom

VARIABLE part

MCBots == <<"BOT VEC-7", "BOT NULLDRIVE">>

MCScores == [d \in Drivers |-> IF d = CHOOSE e \in Drivers : TRUE THEN {0, 3} ELSE {0}]

Init ==
  /\ part \in {"queue", "room"} /\ InitMatchmaking /\ InitRaceRoom
  /\ \A w \in Workers : worker[w] = Stopped <=> part = "room"

Next ==
  /\ UNCHANGED part
  /\ \/ part = "queue" /\ NextMatchmaking /\ UNCHANGED roomVars
     \/ part = "room" /\ NextRaceRoom /\ UNCHANGED matchVars

\* Neither half has a step to take while the other one is followed.
Spec == Init /\ [][Next]_<<part, matchVars, roomVars>> /\ FairMatchmaking /\ FairRaceRoom
=============================================================================
