----------------------------- MODULE MCBetting -----------------------------
(* Races of ann (first), bob, cid and dan, and the bets on them. *)
EXTENDS BettingInv, TLC

CONSTANTS ann, bob, cid, dan, onAnn, onBob, onCid, onDan, win, podium

MCPosition == [r \in Racers |-> CASE r = ann -> 1 [] r = bob -> 2 [] r = cid -> 3 [] r = dan -> 4]
MCKind == [p \in Pools |-> IF p = podium THEN "PODIUM" ELSE "WIN"]
MCPool == [b \in Bets |-> CHOOSE p \in Pools : TRUE]
MCSelection == [b \in Bets |-> CASE b = onAnn -> ann [] b = onBob -> bob [] b = onCid -> cid [] b = onDan -> dan]
MCRaces == {[entries |-> Racers, mode |-> "SPRINT", difficulty |-> "none", prior |-> "open",
             plausible |-> TRUE]}
\* A race whose other racers are not classified.
MCOnlyAnn == {[entries |-> {ann}, mode |-> "SPRINT", difficulty |-> "none", prior |-> "open",
               plausible |-> TRUE]}
MCStake == [b \in Bets |-> IF b = onCid THEN 73 ELSE 50]

Symmetry == Permutations(Sweeps)
=============================================================================
