------------------------------ MODULE MCPlayer ------------------------------
(***************************************************************************)
(* One player at a browser: the wallet that is their own, the pages they   *)
(* look at, the races they watch themselves drive, the controls they drive *)
(* with, and what a race looks and sounds like.  The parts share the       *)
(* player only, so a behaviour follows one of them.                        *)
(***************************************************************************)
EXTENDS XlmPanel, RaceView, RaceInput, Pages, Effects, TLC

VARIABLE part

\* The garage's one busy flag takes three clicks to pass on.
MCMost == [p \in WebPages |->
  [acts |-> IF p = "garage" THEN 3 ELSE 2, reads |-> 3, fetches |-> 2, tabs |-> 1,
   changes |-> IF p = "market" THEN 0 ELSE 1, misses |-> 1]]
MCKeyFor == [p \in Pedals |-> {"KeyW", "ArrowUp"}]

\* Bound: if credits move otherwise than by a race, one view less.
FewTrades == view'.traded # 0 => view'.last < MaxViews

Init ==
  /\ part \in {"own wallet", "view", "input", "pages", "effects"}
  /\ InitXlm /\ InitRaceView /\ InitInput
  /\ InitPages /\ InitEffects
  /\ part # "own wallet" => active = CHOOSE a \in Accounts : TRUE
  /\ part # "pages" => page = "board" /\ world.open = Things

Next ==
  /\ UNCHANGED part
  /\ \/ part = "own wallet" /\ NextXlm /\ UNCHANGED <<raceViewVars, inputVars, pageVars, effectVars>>
     \/ part = "view" /\ NextRaceView /\ FewTrades /\ UNCHANGED <<xlmVars, inputVars, pageVars, effectVars>>
     \/ part = "input" /\ NextInput /\ UNCHANGED <<xlmVars, raceViewVars, pageVars, effectVars>>
     \/ part = "pages" /\ NextPages /\ UNCHANGED <<xlmVars, raceViewVars, inputVars, effectVars>>
     \/ part = "effects" /\ NextEffects /\ UNCHANGED <<xlmVars, raceViewVars, inputVars, pageVars>>

Spec == Init /\ [][Next]_<<part, xlmVars, raceViewVars, inputVars, pageVars, effectVars>>

Symmetry == Permutations(Things)
=============================================================================
