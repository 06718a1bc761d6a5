------------------------------ MODULE MCClient ------------------------------
(***************************************************************************)
(* What a player's browser does, by halves that share nothing: a behaviour *)
(* follows one of them.  How far a car gets and how it slips bear on each  *)
(* other at the line only, so of these one is followed closely and the     *)
(* other coarsely.  Beside the escrow panel, the scripts that set up the   *)
(* contract it talks to.                                                   *)
(***************************************************************************)
EXTENDS Driving, Netcode, Escrow, Setup, TLC

CONSTANTS seller, buyer

VARIABLE part

\* A car on a line that ends at a wall; its speed does not show, it is the input.
MCStart == [x |-> 1, v |-> 0]
MCOrigin == [x |-> 0, v |-> 0]
MCStates == [x : 0..3, v : 0..2]
MCDrive(s, input) == [x |-> IF s.x + s.v > 3 THEN 3 ELSE s.x + s.v, v |-> input]
MCPose(s) == s.x
MCBank(s) == [s EXCEPT !.v = 2]

MCPurse == (seller :> 39) @@ (buyer :> 40)
MCHolding == (seller :> 2) @@ (buyer :> 1)
MCOffers == (seller :> {[amount |-> 1, price |-> 20, ttl |-> 1]}) @@
            (buyer :> {[amount |-> 1, price |-> 39, ttl |-> 1]})

Init ==
  /\ part \in {"track", "drift", "online", "remote", "escrow", "setup"}
  /\ InitDriving /\ InitNetcode /\ InitEscrow /\ InitSetup

Next ==
  /\ UNCHANGED part
  /\ \/ part = "track" /\ DriveAndSlide(-MaxDs..MaxDs, [kind : {"grip"}, points : {0}])
        /\ UNCHANGED <<netcodeVars, escrowVars, setupVars>>
     \/ part = "drift" /\ DriveAndSlide({MaxDs}, Slips) /\ jumps' = jumps
        /\ UNCHANGED <<netcodeVars, escrowVars, setupVars>>
     \/ part = "online" /\ NextOnline /\ UNCHANGED <<drivingVars, escrowVars, setupVars>>
     \/ part = "remote" /\ NextRemote /\ UNCHANGED <<drivingVars, escrowVars, setupVars>>
     \/ part = "escrow" /\ NextEscrow /\ UNCHANGED <<drivingVars, netcodeVars, setupVars>>
     \/ part = "setup" /\ NextSetup /\ UNCHANGED <<drivingVars, netcodeVars, escrowVars>>

Spec == Init /\ [][Next]_<<part, drivingVars, netcodeVars, escrowVars, setupVars>>
=============================================================================
