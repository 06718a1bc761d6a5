------------------------------ MODULE Verifier ------------------------------
(***************************************************************************)
(* ReplayVerifierService.verify (apps/api/src/races): what the API takes   *)
(* for a plausible report.  Times are in steps of the race clock; a car    *)
(* that did not finish has finish = 0.  The shortest lap is left out: the  *)
(* room sends no lap.                                                      *)
(***************************************************************************)
EXTENDS Naturals

CONSTANTS
  MinRace,      \* MIN_RACE_DURATION_MS
  Ceiling,      \* MAX_DRIFT_SCORE_PER_MS: drift points a step
  MaxPlaces,    \* 8: the places an entry may have
  Late,         \* 10 s: how long after the race's end a car may finish
  WinnerLate    \* 5 s: the same, for the winner

ASSUME VerifierAssumption == {MinRace, Ceiling, MaxPlaces, Late, WinnerLate} \subseteq Nat

VerifyEntry(entry, duration) ==
  /\ entry.drift <= Ceiling * duration
  /\ entry.finish # 0 => entry.finish \in MinRace .. duration + Late
  /\ entry.position \in 1..MaxPlaces

Verify(entries, duration) ==
  /\ duration >= MinRace
  /\ \A i \in DOMAIN entries :
       /\ VerifyEntry(entries[i], duration)
       /\ \A j \in DOMAIN entries : entries[i].position = entries[j].position => i = j
       /\ entries[i].position = 1 => entries[i].finish <= duration + WinnerLate
=============================================================================
