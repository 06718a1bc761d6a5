----------------------------- MODULE RaceIngest -----------------------------
(***************************************************************************)
(* The result of one race on its way into the tables: the report loop of   *)
(* RaceRoom.finishRace (apps/realtime/src/rooms/RaceRoom.ts) and           *)
(* RacesService.ingestResult (apps/api/src/races/races.service.ts), which  *)
(* closes the race, stores the finish order, pays the rewards and hands    *)
(* over to the betting pools.  Every await of the handler ends an action.  *)
(***************************************************************************)
EXTENDS Integers, FiniteSets

CONSTANTS
  Racers,       \* the humans who may race
  Position,     \* their overall finish positions
  Races,        \* the reports there may be (see ReportAssumption)
  MaxReports,   \* the room reports this often: attempt < 3
  Overlap,      \* races, by prior, in which the room may give up on an attempt
                \*   whose handler runs
  Faults        \* awaits at which a handler or a call may fail, by pc, its effect or
                \*   not: an effect that is not learnt of is one of the next await

ASSUME ReportAssumption ==
  /\ Position \in [Racers -> 1..8]
  /\ \A r, s \in Racers : Position[r] = Position[s] => r = s
  /\ Races \subseteq
       [entries    : (SUBSET Racers) \ {{}},        \* the humans who are reported
        mode       : {"SPRINT", "BOT_RACE"},
        difficulty : {"easy", "medium", "hard", "none"},
        prior      : {"open", "none"},   \* the row: made by matchmaking, or none
        plausible  : BOOLEAN]            \* passes ReplayVerifierService.verify
  /\ Overlap \subseteq {"open", "none"}
  /\ MaxReports \in Nat

VARIABLES
  report,       \* the room's report
  row,          \* the race row: "none", "open", or "ended" (endedAt is set)
  position,     \* finishPosition of the participant rows; 0 is null
  credits,      \* what the journal race:<id>:reward:<racer> gives; 0: not posted
  rep,          \* how often the racer got rep, xp and influence for the race
  sent,         \* reports sent by the room
  acked,        \* the room got its 2xx
  pc,           \* per handler
  found,        \* the row it read
  left          \* entries that its present loop still has to visit

race == <<row, position, credits, rep>>
room == <<report, sent, acked>>
handlers == <<pc, found, left>>
ingestVars == <<race, room, handlers>>

Reports == 1..MaxReports
Running(i) == pc[i] \notin {"idle", "done", "failed", "broken"}

InitIngest ==
  /\ report \in Races
  /\ row = report.prior
  /\ position = [r \in Racers |-> 0]
  /\ credits = [r \in Racers |-> 0]
  /\ rep = [r \in Racers |-> 0]
  /\ sent = 0
  /\ acked = FALSE
  /\ pc = [i \in Reports |-> "idle"]
  /\ found = [i \in Reports |-> "none"]
  /\ left = [i \in Reports |-> {}]

-----------------------------------------------------------------------------
(* The reward table.                                                       *)
CreditRewards == <<1200, 750, 500, 320, 200, 130, 70, 50>>

Multiplier == [FULL |-> 100, BOT_HARD |-> 50, BOT_MEDIUM |-> 35,
               BOT_EASY |-> 20, REDUCED |-> 25, NONE |-> 0]

\* Anti-farming: a race of two or more humans pays in full; beating bots alone
\* pays a share, and practice pays nothing.
Policy(prior) ==
  IF Cardinality(report.entries) >= 2 THEN "FULL"
  ELSE IF report.mode = "BOT_RACE"
       THEN CASE report.difficulty = "hard"   -> "BOT_HARD"
              [] report.difficulty = "medium" -> "BOT_MEDIUM"
              [] OTHER                        -> "BOT_EASY"
       ELSE IF prior = "open" THEN "REDUCED" ELSE "NONE"

Credits(r, policy) ==
  ((IF Position[r] \in DOMAIN CreditRewards THEN CreditRewards[Position[r]] ELSE 50)
     * Multiplier[policy]) \div 100

-----------------------------------------------------------------------------
(* The room.  It repeats the report until it reads a 2xx: a handler that   *)
(* threw answers an error, and an answer may be lost.                      *)
SendReport ==
  /\ ~acked
  /\ sent < MaxReports
  /\ sent > 0 /\ Running(sent) => report.prior \in Overlap
  /\ sent' = sent + 1
  /\ pc' = [pc EXCEPT ![sent + 1] = "read"]
  /\ UNCHANGED <<report, race, acked, found, left>>

ReadAck ==
  /\ ~acked
  /\ sent > 0
  /\ pc[sent] = "done"
  /\ acked' = TRUE
  /\ UNCHANGED <<report, race, sent, handlers>>

-----------------------------------------------------------------------------
(* ingestResult.                                                           *)
Goto(i, label) == pc' = [pc EXCEPT ![i] = label]

\* The finish order the report gives; 0 for those who are not in it.
Reported == [r \in Racers |-> IF r \in report.entries THEN Position[r] ELSE 0]

\* The entry a loop visits next: the report lists them by finish position.
NextEntry(i, r) == r \in left[i] /\ \A s \in left[i] : Position[r] <= Position[s]

\* An implausible report is refused; a race that has ended is acknowledged.
ReadRace(i) ==
  /\ pc[i] = "read"
  /\ Goto(i, IF ~report.plausible THEN "failed" ELSE IF row = "ended" THEN "done" ELSE "end")
  /\ found' = [found EXCEPT ![i] = row]
  /\ UNCHANGED <<race, room, left>>

\* Where the handler goes once the participants are stored.
AfterResults(i) == IF Policy(found[i]) = "NONE" THEN "done" ELSE "reward"

\* endedAt is written to a row that was created before the race.
EndRace(i) ==
  /\ pc[i] = "end"
  /\ found[i] = "open"
  /\ row' = "ended"
  /\ Goto(i, "upsert")
  /\ left' = [left EXCEPT ![i] = report.entries]
  /\ UNCHANGED <<position, credits, rep, room, found>>

\* One participant row at a time.
UpsertParticipant(i, r) ==
  /\ pc[i] = "upsert"
  /\ NextEntry(i, r)
  /\ position' = [position EXCEPT ![r] = Position[r]]
  /\ IF left[i] = {r}
     THEN /\ Goto(i, AfterResults(i))
          /\ left' = [left EXCEPT ![i] = report.entries]
     ELSE /\ left' = [left EXCEPT ![i] = @ \ {r}]
          /\ UNCHANGED pc
  /\ UNCHANGED <<row, credits, rep, room, found>>

\* Mutant of CreateRace: the creation is an upsert.
CreateRaceUpserts(i) ==
  /\ pc[i] = "end"
  /\ found[i] = "none"
  /\ row' = "ended"
  /\ position' = Reported
  /\ Goto(i, AfterResults(i))
  /\ left' = [left EXCEPT ![i] = report.entries]
  /\ UNCHANGED <<credits, rep, room, found>>

\* A race nobody created before: row and participants are created together; the
\* primary key refuses a second creation.
CreateRace(i) ==
  /\ pc[i] = "end"
  /\ found[i] = "none"
  /\ IF row = "none"
     THEN /\ row' = "ended"
          /\ position' = Reported
          /\ Goto(i, AfterResults(i))
          /\ left' = [left EXCEPT ![i] = report.entries]
     ELSE /\ Goto(i, "failed")
          /\ UNCHANGED <<row, position, left>>
  /\ UNCHANGED <<credits, rep, room, found>>

\* Mutant of NextReward: the loop ends after the winner.
NextRewardWinnerOnly(i, r) == UNCHANGED left /\ Goto(i, "settle")

\* The loop over the rewards goes on with the next entry, or ends.
NextReward(i, r) ==
  /\ left' = [left EXCEPT ![i] = @ \ {r}]
  /\ Goto(i, IF left[i] = {r} THEN "settle" ELSE "reward")

\* The reward's journal: its idempotency key names race and racer.
PostReward(i, r) ==
  /\ pc[i] = "reward"
  /\ NextEntry(i, r)
  /\ credits' = [credits EXCEPT ![r] = IF @ = 0 THEN Credits(r, Policy(found[i])) ELSE @]
  /\ IF Policy(found[i]) = "FULL"
     THEN Goto(i, "rep") /\ UNCHANGED left
     ELSE NextReward(i, r)
  /\ UNCHANGED <<row, position, rep, room, found>>

\* awardRaceRep, and the faction and district side effects, which cannot fail
\* the handler.
AwardRep(i, r) ==
  /\ pc[i] = "rep"
  /\ NextEntry(i, r)
  /\ rep' = [rep EXCEPT ![r] = @ + 1]
  /\ NextReward(i, r)
  /\ UNCHANGED <<row, position, credits, room, found>>

\* Where the handler is that has ended the race.
Past == {"upsert", "reward", "rep", "settle"}

\* The awaited call fails or the process dies: the handler throws.  Once it has ended
\* the race it leaves it broken: another report finds the race ended.
Fail(i) ==
  /\ Running(i)
  /\ pc[i] \in Faults
  /\ Goto(i, IF pc[i] \in Past THEN "broken" ELSE "failed")
  /\ UNCHANGED <<race, room, found, left>>

\* The pools are settled (module Betting) and the rewards are returned.
Finish(i) ==
  /\ pc[i] = "settle"
  /\ Goto(i, "done")
  /\ UNCHANGED <<race, room, found, left>>

HandlerStep(i) ==
  \/ ReadRace(i) \/ EndRace(i) \/ CreateRace(i)
  \/ \E r \in Racers : UpsertParticipant(i, r) \/ PostReward(i, r) \/ AwardRep(i, r)

IngestStep == SendReport \/ ReadAck \/ \E i \in Reports : HandlerStep(i) \/ Fail(i)

Init == InitIngest

Next == IngestStep \/ \E i \in Reports : Finish(i)

Spec == Init /\ [][Next]_ingestVars

\* A handler that runs goes on.
Fairness == \A i \in Reports : WF_ingestVars(HandlerStep(i) \/ Finish(i))

FairSpec == Spec /\ Fairness

-----------------------------------------------------------------------------
(* Properties.                                                             *)

\* Every variable has its type.
TypeOK ==
  /\ report \in Races
  /\ row \in {"none", "open", "ended"}
  /\ position \in [Racers -> 0..8]
  /\ credits \in [Racers -> Nat]
  /\ rep \in [Racers -> 0..MaxReports]
  /\ sent \in 0..MaxReports
  /\ acked \in BOOLEAN
  /\ pc \in [Reports -> {"idle", "read", "end", "upsert", "reward", "rep", "settle",
                         "done", "failed", "broken"}]
  /\ found \in [Reports -> {"none", "open", "ended"}]
  /\ left \in [Reports -> SUBSET Racers]

Entitled == Policy(report.prior) # "NONE"

\* However often the report is repeated, nobody is given rep twice: the API
\* "dedupes on raceId, so a retry after a slow success cannot double-pay".
RepOnce == \A r \in Racers : rep[r] <= 1

\* Whom a handler that broke off had not served: those its loop had still to visit,
\* or everybody when the participants were not stored yet.
Unserved(i) == IF position = Reported THEN left[i] ELSE report.entries

Lost(r) == \E i \in Reports : pc[i] = "broken" /\ r \in Unserved(i)

FullyRewarded(r) == credits[r] > 0 /\ (Policy(report.prior) = "FULL" => rep[r] > 0)

\* When the room has stopped repeating the report and no handler of it runs,
\* everybody has been rewarded: a race that has endedAt set "was fully processed".
\* That is not so of those, and those only, whom a handler had not come to when it
\* failed past the end of the race: nobody visits them again.
AckMeansRewarded ==
  acked /\ Entitled /\ (\A i \in Reports : ~Running(i)) =>
    \A r \in report.entries : FullyRewarded(r) \/ Lost(r)

\* The finish order is complete before anybody is paid by it.
OrderBeforeRewards ==
  (\E r \in Racers : credits[r] > 0) => position = Reported

\* Whoever is paid comes after all who finished before and were paid, with the rep of
\* a full race: what breaks off costs the last of the race, nobody in between.
RewardsInOrder == \A r, s \in report.entries :
  credits[s] > 0 /\ Position[r] < Position[s] => FullyRewarded(r)

\* A result is ingested once, in order, and wholly before the room forgets it, but for
\* those whom a handler that broke off had not come to.
ResultsInv == TypeOK /\ RepOnce /\ OrderBeforeRewards /\ RewardsInOrder /\ AckMeansRewarded

\* Once the race has ended, every entrant gets the reward, and with it the rep of a
\* full race, unless the handler breaks off before.
EveryoneRewarded ==
  row = "ended" /\ Entitled ~> \A r \in report.entries : FullyRewarded(r) \/ Lost(r)
=============================================================================
