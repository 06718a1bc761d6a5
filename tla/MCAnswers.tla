------------------------------ MODULE MCAnswers -----------------------------
(***************************************************************************)
(* Two calls of the API whose caller may not learn how they ended: a room  *)
(* that reports its race, and players who withdraw.  They share nothing, so *)
(* a behaviour follows one of them.                                        *)
(***************************************************************************)
EXTENDS RaceIngest, Withdrawal, TLC

CONSTANTS ann, bob, cid, api1, api2

VARIABLE part

\* Races of up to three humans; a bot took the second place.
MCPosition == [r \in Racers |-> CASE r = ann -> 1 [] r = bob -> 3 [] r = cid -> 4]

Race(entries, mode, difficulty, prior) ==
  [entries |-> entries, mode |-> mode, difficulty |-> difficulty, prior |-> prior,
   plausible |-> TRUE]

\* Three humans, or two, or one among bots; made by matchmaking, or not; and a
\* report that is refused.
MCRaces ==
  {Race(entries, "SPRINT", "none", prior) :
     entries \in {{ann}, {ann, cid}, {ann, bob, cid}}, prior \in {"open", "none"}} \cup
  {Race({bob}, "BOT_RACE", difficulty, "none") : difficulty \in {"easy", "medium", "hard"}} \cup
  {[Race({ann, bob}, "SPRINT", "none", "open") EXCEPT !.plausible = FALSE]}

MCFunds == [p \in Players |-> IF p = ann THEN 4 ELSE 1]

Wish(p, q, n) == [who |-> p, proc |-> q, amount |-> n]

\* Three withdrawals of ann, in one process or in two; or two of ann and one of
\* bob in one process.
MCAsked ==
  {<<Wish(ann, api1, n), Wish(ann, api1, n), Wish(ann, q, 1)>> : n \in {1, 2}, q \in {api1, api2}} \cup
  {<<Wish(ann, api1, 2), Wish(ann, api1, 1), Wish(bob, api1, n)>> : n \in {1, 2}}

InitAnswers ==
  /\ part \in {"race", "withdrawal"}
  /\ InitIngest /\ InitWithdrawal
  /\ part # "race" => report = CHOOSE r \in Races : TRUE
  /\ part # "withdrawal" => request = CHOOSE asked \in Asked : TRUE

NextAnswers ==
  /\ UNCHANGED part
  /\ \/ part = "race" /\ Next /\ UNCHANGED withdrawalVars
     \/ part = "withdrawal" /\ NextWithdrawal /\ UNCHANGED ingestVars

\* Neither part has a step to take while the other one is followed.
SpecAnswers ==
  /\ InitAnswers /\ [][NextAnswers]_<<part, ingestVars, withdrawalVars>>
  /\ Fairness /\ FairWithdrawal
=============================================================================
