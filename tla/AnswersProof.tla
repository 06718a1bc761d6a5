---------------------------- MODULE AnswersProof ----------------------------
(* The theorems about RaceIngest, for any race and any number of reports,   *)
(* about Withdrawal, for every number of players, processes and requests    *)
(* and whatever the limits and the funds, about Driving, for any track and  *)
(* however a car is driven on it, and about Netcode, for any physics and    *)
(* however late the inputs and the snapshots come.                          *)
EXTENDS RaceIngest, Withdrawal, Driving, Netcode, SumsProof, FiniteSetTheorems, NaturalsInduction,
        WellFoundedInduction, TLAPS

-----------------------------------------------------------------------------
(* The report of a race: the inductive invariant.                          *)

\* Handlers that have ended the race, and not come to the end.
Cut == Past \cup {"broken"}

\* A race ends once: with its row, and by a handler that read what there was before.
RowOK ==
  /\ row \in {report.prior, "ended"}
  /\ \A i \in Reports :
       /\ i > sent => pc[i] = "idle"
       /\ pc[i] \in {"end"} \cup Past => found[i] = report.prior
       /\ pc[i] \in Cut \cup {"done"} => row = "ended"
       /\ pc[i] \in {"reward", "rep", "settle"} => Entitled
       /\ pc[i] = "rep" => Policy(report.prior) = "FULL"
  /\ acked => row = "ended"

LeftOK == \A i \in Reports : pc[i] \in {"upsert", "reward", "rep"} =>
  left[i] \subseteq report.entries /\ left[i] # {}

\* Who has been visited has a position, who has not been has none, and the rewards wait
\* for the last of them.
OrderOK ==
  /\ \A r \in Racers : position[r] \in {0, Reported[r]}
  /\ row # "ended" => \A r \in Racers : position[r] = 0
  /\ \A i \in Reports :
       /\ pc[i] = "upsert" => /\ \A r \in report.entries \ left[i] : position[r] = Position[r]
                              /\ \A r \in left[i] : position[r] = 0
       /\ pc[i] \in {"reward", "rep", "settle"} => position = Reported
  /\ OrderBeforeRewards

\* Who has been visited is rewarded, with rep, who is about to get rep was paid before,
\* and where a handler broke off, those it had not come to are the ones that miss it.
PaidOK ==
  /\ \A i \in Reports :
       /\ pc[i] \in {"reward", "rep"} => \A r \in report.entries \ left[i] : FullyRewarded(r)
       /\ pc[i] = "rep" => \A r \in Racers : NextEntry(i, r) => credits[r] > 0
       /\ pc[i] = "settle" => \A r \in report.entries : FullyRewarded(r)
       /\ pc[i] = "broken" => \A r \in report.entries : FullyRewarded(r) \/ r \in Unserved(i)
  /\ RewardsInOrder

\* Handlers of a race made by matchmaking run one at a time, and of no race do two
\* handlers get past its end, broken or not.
OneHandler ==
  /\ report.prior = "open" => \A i \in Reports : Running(i) =>
       i = sent /\ (pc[i] = "end" => row = "open")
  /\ \A i, j \in Reports : pc[i] \in Cut /\ pc[j] \in Cut => i = j

\* Who has not been visited has no rep yet.
RepOK ==
  /\ row # "ended" => \A r \in Racers : rep[r] = 0
  /\ \A r \in Racers : rep[r] \in {0, 1}
  /\ \A i \in Reports :
       /\ pc[i] = "upsert" => \A r \in Racers : rep[r] = 0
       /\ pc[i] \in {"reward", "rep"} => \A r \in left[i] : rep[r] = 0

RIInv == TypeOK /\ RowOK /\ LeftOK /\ OrderOK /\ PaidOK /\ OneHandler /\ RepOK

\* A race that has ended is being paid for, or has been, or the handler broke off.
GoesOn == row = "ended" /\ Entitled =>
  (\E i \in Reports : pc[i] \in Cut) \/ \A r \in report.entries : FullyRewarded(r)

\* What the report is made of.
LEMMA ReportTyped ==
  ASSUME TypeOK
  PROVE  /\ report.entries \subseteq Racers /\ report.entries # {}
         /\ report.prior \in {"open", "none"}
         /\ \A r \in Racers : Position[r] \in 1..8
         /\ Reported \in [Racers -> 0..8]
         /\ \A r \in Racers : Reported[r] = IF r \in report.entries THEN Position[r] ELSE 0
<1>1. report \in [entries    : (SUBSET Racers) \ {{}},
                  mode       : {"SPRINT", "BOT_RACE"},
                  difficulty : {"easy", "medium", "hard", "none"},
                  prior      : {"open", "none"},
                  plausible  : BOOLEAN]
  BY ReportAssumption DEF TypeOK
<1>2. \A r \in Racers : Position[r] \in 1..8
  BY ReportAssumption
<1>3. \A r \in Racers :
        (IF r \in report.entries THEN Position[r] ELSE 0) \in 0..8
  BY <1>2
<1>4. Reported \in [Racers -> 0..8]
  BY <1>3 DEF Reported
<1>5. report.entries \in (SUBSET Racers) \ {{}} /\ report.prior \in {"open", "none"}
  BY <1>1
<1>6. report.entries \subseteq Racers /\ report.entries # {}
  BY <1>5
<1>7. \A r \in Racers : Reported[r] = IF r \in report.entries THEN Position[r] ELSE 0
  BY DEF Reported
<1> QED
  BY <1>2, <1>4, <1>5, <1>6, <1>7

\* Whoever is entitled gets something, be it last of a race against easy bots.
LEMMA SomethingPaid ==
  ASSUME TypeOK, NEW r \in Racers, Entitled
  PROVE  Credits(r, Policy(report.prior)) \in Nat /\ Credits(r, Policy(report.prior)) > 0
<1> DEFINE p == Policy(report.prior)
<1>1. p \in {"FULL", "BOT_HARD", "BOT_MEDIUM", "BOT_EASY", "REDUCED"}
  BY DEF Policy, Entitled
<1>2. Multiplier[p] \in {100, 50, 35, 20, 25}
  BY <1>1 DEF Multiplier
<1>3. PICK k \in Nat : /\ k >= 50
                       /\ k = IF Position[r] \in DOMAIN CreditRewards
                              THEN CreditRewards[Position[r]] ELSE 50
  <2>1. Position[r] \in 1..8
    BY ReportTyped
  <2> QED
    BY <2>1 DEF CreditRewards
<1> HIDE DEF p
<1>4. Credits(r, p) = (k * Multiplier[p]) \div 100
  BY <1>3 DEF Credits
<1>5. \A n \in {100, 50, 35, 20, 25} : (k * n) \div 100 \in Nat /\ (k * n) \div 100 > 0
  BY <1>3
<1> QED
  BY <1>2, <1>4, <1>5 DEF p

LEMMA SendReportStep ==
  ASSUME RIInv, SendReport, "open" \notin Overlap
  PROVE  RIInv'
<1> USE DEF RIInv
<1>1. /\ sent \in Nat /\ MaxReports \in Nat /\ sent' = sent + 1 /\ sent' \in Reports
      /\ pc[sent + 1] = "idle"
      /\ UNCHANGED <<report, race, acked, found, left>>
  BY ReportAssumption DEF SendReport, RowOK, TypeOK, Reports
<1>2. \A i \in Reports : pc'[i] = IF i = sent' THEN "read" ELSE pc[i]
  BY <1>1 DEF SendReport, TypeOK
<1>3. TypeOK'
  BY <1>1 DEF SendReport, TypeOK, race, Reports
<1>4. RowOK' /\ LeftOK' /\ OrderOK' /\ PaidOK' /\ RepOK'
  BY <1>1, <1>2 DEF RowOK, LeftOK, OrderOK, PaidOK, FullyRewarded, RewardsInOrder, Unserved, RepOK, race, Past, Cut, Reported, Entitled, Policy,
     OrderBeforeRewards, Reports, NextEntry
<1>5. report.prior = "open" => \A i \in Reports : ~Running(i)
  <2>1. report.prior = "open" /\ sent > 0 => ~Running(sent)
    BY DEF SendReport
  <2> QED
    BY <1>1, <2>1 DEF OneHandler, Reports
<1>6. OneHandler'
  BY <1>1, <1>2, <1>5 DEF OneHandler, Running, race, Past, Cut
<1> QED
  BY <1>3, <1>4, <1>6

LEMMA ReadAckStep ==
  ASSUME RIInv, ReadAck
  PROVE  RIInv'
<1> USE DEF RIInv
<1>1. /\ sent \in Reports /\ pc[sent] = "done" /\ acked' = TRUE
      /\ UNCHANGED <<report, race, sent, handlers>>
  BY ReportAssumption DEF ReadAck, TypeOK, Reports
<1> QED
  BY <1>1 DEF TypeOK, RowOK, LeftOK, OrderOK, PaidOK, FullyRewarded, RewardsInOrder, Unserved, OneHandler, RepOK, race, handlers, Past, Cut,
     Running, Reported, Entitled, Policy, OrderBeforeRewards, NextEntry

LEMMA ReadRaceStep ==
  ASSUME RIInv, NEW i \in Reports, ReadRace(i)
  PROVE  RIInv'
<1> USE DEF RIInv
<1> DEFINE x == IF ~report.plausible THEN "failed" ELSE IF row = "ended" THEN "done" ELSE "end"
<1>1. /\ pc[i] = "read" /\ x \in {"failed", "done", "end"}
      /\ x = "done" => row = "ended"
      /\ x = "end" => row = report.prior
      /\ UNCHANGED <<report, race, sent, acked, left>>
  BY DEF ReadRace, RowOK, room
<1>2. /\ \A j \in Reports : pc'[j] = IF j = i THEN x ELSE pc[j]
      /\ \A j \in Reports : found'[j] = IF j = i THEN row ELSE found[j]
  BY DEF ReadRace, Goto, TypeOK
<1>3. TypeOK'
  BY <1>1 DEF ReadRace, Goto, TypeOK, race
<1> HIDE DEF x
<1>4. RowOK' /\ LeftOK' /\ OrderOK' /\ PaidOK' /\ RepOK'
  BY <1>1, <1>2 DEF RowOK, LeftOK, OrderOK, PaidOK, FullyRewarded, RewardsInOrder, Unserved, RepOK, race, Past, Cut, Reported, Entitled, Policy,
     OrderBeforeRewards, NextEntry
<1>5. OneHandler'
  BY <1>1, <1>2 DEF OneHandler, Running, race, Past, Cut
<1> QED
  BY <1>3, <1>4, <1>5

LEMMA EndRaceStep ==
  ASSUME RIInv, NEW i \in Reports, EndRace(i)
  PROVE  RIInv'
<1> USE DEF RIInv
<1>1. /\ pc[i] = "end" /\ report.prior = "open" /\ row = "open" /\ row' = "ended"
      /\ UNCHANGED <<report, position, credits, rep, sent, acked, found>>
      /\ \A j \in Reports : j = i \/ ~Running(j)
  BY DEF EndRace, RowOK, OneHandler, Running, room
<1>2. /\ \A j \in Reports : pc'[j] = IF j = i THEN "upsert" ELSE pc[j]
      /\ \A j \in Reports : left'[j] = IF j = i THEN report.entries ELSE left[j]
  BY DEF EndRace, Goto, TypeOK
<1>3. TypeOK'
  BY <1>1, ReportTyped DEF EndRace, Goto, TypeOK
<1>4. RowOK' /\ LeftOK'
  BY <1>1, <1>2, ReportTyped DEF RowOK, LeftOK, Past, Cut, Entitled, Policy
<1>5. OrderOK' /\ PaidOK' /\ RepOK'
  BY <1>1, <1>2, ReportTyped DEF OrderOK, PaidOK, FullyRewarded, RewardsInOrder, Unserved, RepOK, Reported, OrderBeforeRewards, NextEntry,
     RowOK
<1>6. OneHandler'
  BY <1>1, <1>2 DEF OneHandler, Running, Past, Cut, RowOK
<1> QED
  BY <1>3, <1>4, <1>5, <1>6

\* Once the last is visited, everybody has the position of the report.
LEMMA UpsertStep ==
  ASSUME RIInv, NEW i \in Reports, NEW r \in Racers, UpsertParticipant(i, r)
  PROVE  RIInv'
<1> USE DEF RIInv
<1> DEFINE x == IF left[i] = {r} THEN AfterResults(i) ELSE "upsert"
           y == IF left[i] = {r} THEN report.entries ELSE left[i] \ {r}
<1>1. /\ pc[i] = "upsert" /\ r \in left[i] /\ found[i] = report.prior /\ row = "ended"
      /\ left[i] \subseteq report.entries
      /\ UNCHANGED <<report, row, credits, rep, sent, acked, found>>
  BY DEF UpsertParticipant, NextEntry, RowOK, LeftOK, Past, Cut, room
<1>2. /\ \A j \in Reports : pc'[j] = IF j = i THEN x ELSE pc[j]
      /\ \A j \in Reports : left'[j] = IF j = i THEN y ELSE left[j]
  BY DEF UpsertParticipant, Goto, TypeOK
<1>3. \A s \in Racers : position'[s] = IF s = r THEN Position[r] ELSE position[s]
  BY DEF UpsertParticipant, TypeOK
<1>4. /\ x \in {"upsert", "done", "reward"}
      /\ x = "reward" => Entitled
      /\ y \subseteq report.entries /\ y # {}
      /\ x # "upsert" => left[i] = {r} /\ y = report.entries
      /\ x = "upsert" => y = left[i] \ {r}
  BY <1>1, ReportTyped DEF AfterResults, Entitled
<1>5. TypeOK'
  <2>1. position' \in [Racers -> 0..8]
    BY ReportTyped DEF UpsertParticipant, TypeOK
  <2>2. pc' \in [Reports -> {"idle", "read", "end", "upsert", "reward", "rep", "settle",
                             "done", "failed", "broken"}]
    BY <1>4 DEF UpsertParticipant, Goto, TypeOK
  <2>3. left' \in [Reports -> SUBSET Racers]
    BY <1>4, ReportTyped DEF UpsertParticipant, TypeOK
  <2> QED
    BY <1>1, <2>1, <2>2, <2>3 DEF TypeOK
<1> HIDE DEF x, y
<1>6. RowOK' /\ LeftOK'
  BY <1>1, <1>2, <1>4 DEF RowOK, LeftOK, Past, Cut, Entitled, Policy
<1>7. \A s \in Racers : position'[s] \in {0, Reported[s]}
  BY <1>1, <1>3, ReportTyped DEF OrderOK
<1>8. x # "upsert" => position' = Reported
  <2> SUFFICES ASSUME x # "upsert" PROVE \A s \in Racers : position'[s] = Reported[s]
    BY <1>5, ReportTyped DEF TypeOK
  <2>1. \A s \in report.entries : position'[s] = Position[s]
    BY <1>1, <1>3, <1>4, ReportTyped DEF OrderOK
  <2>2. \A s \in Racers \ report.entries : position'[s] = 0
    BY <1>7, ReportTyped
  <2> QED
    BY <2>1, <2>2, ReportTyped
<1>9. Reported' = Reported
  BY <1>1 DEF Reported
<1>10. position = Reported => position' = Reported
  <2>1. position[r] = Reported[r] => position' = position
    BY <1>1, <1>3, <1>5, ReportTyped DEF TypeOK
  <2> QED
    BY <2>1
<1>11. \A j \in Reports : j = i \/ pc[j] \notin {"upsert", "reward", "rep", "settle", "broken"}
  BY <1>1 DEF OneHandler, Past, Cut
<1>12. OrderOK'
  <2>1. ASSUME NEW j \in Reports, pc'[j] = "upsert"
        PROVE  \A s \in report.entries \ left'[j] : position'[s] = Position[s]
    BY <1>1, <1>2, <1>3, <1>4, <2>1, ReportTyped DEF OrderOK
  <2>2. ASSUME NEW j \in Reports, pc'[j] \in {"reward", "rep", "settle"}
        PROVE  position' = Reported
    BY <1>2, <1>8, <1>10, <1>4, <2>2 DEF OrderOK
  <2>3. OrderBeforeRewards'
    BY <1>1, <1>9, <1>10 DEF OrderOK, OrderBeforeRewards
  <2>4. ASSUME NEW j \in Reports, pc'[j] = "upsert"
        PROVE  \A s \in left'[j] : position'[s] = 0
    <3>1. j = i /\ x = "upsert"
      BY <1>2, <1>11, <2>4
    <3>2. \A s \in left[i] : position[s] = 0
      BY <1>1 DEF OrderOK
    <3>3. \A s \in left'[j] : s \in left[i] /\ s # r /\ s \in Racers
      BY <1>1, <1>2, <1>4, <3>1, ReportTyped
    <3> QED
      BY <1>3, <3>2, <3>3
  <2> QED
    BY <1>1, <1>7, <1>9, <2>1, <2>2, <2>3, <2>4 DEF OrderOK
<1>13. PaidOK'
  <2>1. \A s \in Racers : FullyRewarded(s)' <=> FullyRewarded(s)
    BY <1>1 DEF FullyRewarded, Policy
  <2>2. RewardsInOrder'
    BY <1>1, <2>1, ReportTyped DEF PaidOK, RewardsInOrder
  <2>3. \A j \in Reports : pc'[j] \notin {"rep", "settle", "broken"}
    BY <1>2, <1>4, <1>11
  <2>4. \A j \in Reports : pc'[j] = "reward" => left'[j] = report'.entries
    BY <1>1, <1>2, <1>4, <1>11
  <2> QED
    BY <2>2, <2>3, <2>4 DEF PaidOK
<1>14. RepOK'
  BY <1>1, <1>2, <1>4, ReportTyped DEF RepOK
<1>15. OneHandler'
  <2>1. \A j, k \in Reports : pc'[j] \in Cut /\ pc'[k] \in Cut => j = k
    BY <1>2, <1>11 DEF Past, Cut
  <2>2. \A j \in Reports : Running(j)' => Running(j) /\ (pc'[j] = "end" => pc[j] = "end")
    BY <1>1, <1>2, <1>4 DEF Running
  <2> QED
    BY <1>1, <2>1, <2>2 DEF OneHandler
<1> QED
  BY <1>5, <1>6, <1>12, <1>13, <1>14, <1>15

LEMMA CreateRaceStep ==
  ASSUME RIInv, NEW i \in Reports, CreateRace(i)
  PROVE  RIInv'
<1> USE DEF RIInv
<1>1. /\ pc[i] = "end" /\ found[i] = "none" /\ report.prior = "none"
      /\ UNCHANGED <<report, credits, rep, sent, acked, found>>
  BY DEF CreateRace, RowOK, room
<1>2. Reported' = Reported
  BY <1>1 DEF Reported
<1>3. CASE row = "none"
  <2> DEFINE x == AfterResults(i)
  <2>1. /\ \A j \in Reports : pc'[j] = IF j = i THEN x ELSE pc[j]
        /\ \A j \in Reports : left'[j] = IF j = i THEN report.entries ELSE left[j]
        /\ row' = "ended" /\ position' = Reported
    BY <1>3 DEF CreateRace, Goto, TypeOK
  <2>2. x \in {"done", "reward"} /\ (x = "reward" => Entitled)
    BY <1>1 DEF AfterResults, Entitled
  <2>3. TypeOK'
    BY <1>1, <1>3, <2>2, ReportTyped DEF CreateRace, Goto, TypeOK
  <2> HIDE DEF x
  <2>4. RowOK' /\ LeftOK'
    BY <1>1, <1>3, <2>1, <2>2, ReportTyped DEF RowOK, LeftOK, Past, Cut, Entitled, Policy
  <2>5. \A j \in Reports : pc[j] \notin Past
    BY <1>1, <1>3 DEF RowOK, Past, Cut
  <2>6. OrderOK'
    BY <1>2, <2>1, <2>2, <2>5, <1>1 DEF OrderOK, OrderBeforeRewards, Past, Cut
  <2>7. \A j \in Reports : pc'[j] \in Cut => j = i /\ pc'[j] = "reward" /\ left'[j] = report'.entries
    <3>1. \A j \in Reports : pc[j] # "broken"
      BY <1>1, <1>3 DEF RowOK, Cut
    <3> QED
      BY <1>1, <2>1, <2>2, <2>5, <3>1 DEF Past, Cut
  <2>8. PaidOK'
    <3>1. \A s \in Racers : FullyRewarded(s)' <=> FullyRewarded(s)
      BY <1>1 DEF FullyRewarded, Policy
    <3>2. RewardsInOrder'
      BY <1>1, <3>1, ReportTyped DEF PaidOK, RewardsInOrder
    <3> QED
      BY <2>7, <3>2 DEF PaidOK, Past, Cut
  <2>9. RepOK'
    BY <1>1, <1>3, <2>1, <2>2, <2>7, ReportTyped DEF RepOK, Past, Cut
  <2>10. OneHandler'
    BY <1>1, <2>7 DEF OneHandler
  <2> QED
    BY <2>3, <2>4, <2>6, <2>8, <2>9, <2>10
<1>4. CASE row # "none"
  <2>1. /\ \A j \in Reports : pc'[j] = IF j = i THEN "failed" ELSE pc[j]
        /\ UNCHANGED <<row, position, left>>
    BY <1>4 DEF CreateRace, Goto, TypeOK
  <2>2. TypeOK'
    BY <1>1, <1>4 DEF CreateRace, Goto, TypeOK
  <2>3. RowOK' /\ LeftOK' /\ OrderOK' /\ PaidOK' /\ RepOK' /\ OneHandler'
    BY <1>1, <1>2, <2>1 DEF RowOK, LeftOK, OrderOK, OrderBeforeRewards, PaidOK, FullyRewarded, RewardsInOrder, Unserved, RepOK, OneHandler,
       Past, Cut, Running, Entitled, Policy, NextEntry
  <2> QED
    BY <2>2, <2>3
<1> QED
  BY <1>3, <1>4

\* The loop over the rewards goes on with an entry left, or ends with all of them visited.
LEMMA NextRewardMoves ==
  ASSUME TypeOK, NEW i \in Reports, NEW r \in Racers, NextReward(i, r), r \in left[i],
         left[i] \subseteq report.entries
  PROVE  /\ pc' \in [Reports -> {"idle", "read", "end", "upsert", "reward", "rep", "settle",
                                 "done", "failed", "broken"}]
         /\ left' \in [Reports -> SUBSET Racers]
         /\ \A j \in Reports : left'[j] = IF j = i THEN left[j] \ {r} ELSE left[j]
         /\ \A j \in Reports : j # i => pc'[j] = pc[j]
         /\ \/ pc'[i] = "settle" /\ left[i] = {r}
            \/ pc'[i] = "reward" /\ left'[i] # {}
BY DEF NextReward, Goto, TypeOK

LEMMA PostRewardStep ==
  ASSUME RIInv, NEW i \in Reports, NEW r \in Racers, PostReward(i, r)
  PROVE  RIInv'
<1> USE DEF RIInv
<1>1. /\ pc[i] = "reward" /\ r \in left[i] /\ left[i] \subseteq report.entries
      /\ found[i] = report.prior /\ row = "ended" /\ Entitled /\ position = Reported
      /\ UNCHANGED <<report, row, position, rep, sent, acked, found>>
  BY DEF PostReward, NextEntry, RowOK, LeftOK, OrderOK, Past, Cut, room
<1>2. /\ credits' \in [Racers -> Nat] /\ credits'[r] > 0
      /\ \A s \in Racers : credits[s] > 0 => credits'[s] > 0
  <2>1. credits' = [credits EXCEPT ![r] = IF @ = 0 THEN Credits(r, Policy(report.prior)) ELSE @]
    BY <1>1 DEF PostReward
  <2>2. Credits(r, Policy(report.prior)) \in Nat /\ Credits(r, Policy(report.prior)) > 0
    BY <1>1, SomethingPaid
  <2>3. credits \in [Racers -> Nat]
    BY DEF TypeOK
  <2> HIDE DEF RIInv
  <2> QED
    BY <2>1, <2>2, <2>3
<1>3. Reported' = Reported
  BY <1>1 DEF Reported
<1>4. /\ pc' \in [Reports -> {"idle", "read", "end", "upsert", "reward", "rep", "settle",
                              "done", "failed", "broken"}]
      /\ left' \in [Reports -> SUBSET Racers]
      /\ \A j \in Reports : j # i => pc'[j] = pc[j] /\ left'[j] = left[j]
      /\ \/ pc'[i] = "rep" /\ left'[i] = left[i] /\ Policy(report.prior) = "FULL"
         \/ /\ Policy(report.prior) # "FULL"
            /\ \/ pc'[i] = "settle" /\ left[i] = {r}
               \/ pc'[i] = "reward" /\ left'[i] = left[i] \ {r} /\ left'[i] # {}
  <2>1. CASE Policy(report.prior) = "FULL"
    BY <1>1, <2>1 DEF PostReward, Goto, TypeOK
  <2>2. CASE Policy(report.prior) # "FULL"
    BY <1>1, <2>2, NextRewardMoves DEF PostReward
  <2> QED
    BY <2>1, <2>2
<1>5. TypeOK'
  BY <1>1, <1>2, <1>4 DEF TypeOK
<1>6. RowOK' /\ LeftOK'
  BY <1>1, <1>4 DEF RowOK, LeftOK, Past, Cut, Entitled, Policy
<1>7. OrderOK'
  BY <1>1, <1>3, <1>4 DEF OrderOK, OrderBeforeRewards
<1>8. OneHandler'
  BY <1>1, <1>4 DEF OneHandler, Past, Cut, Running
<1>9. RepOK'
  BY <1>1, <1>4 DEF RepOK
<1>10. /\ \A q \in Racers : FullyRewarded(q) => FullyRewarded(q)'
       /\ Policy(report.prior) # "FULL" => FullyRewarded(r)'
  BY <1>1, <1>2 DEF FullyRewarded, Policy
<1>11. \A q \in report.entries : Position[q] < Position[r] => FullyRewarded(q)
  <2>1. \A q \in left[i] : Position[r] <= Position[q]
    BY DEF PostReward, NextEntry
  <2>2. \A q \in report.entries \ left[i] : FullyRewarded(q)
    BY <1>1 DEF PaidOK
  <2> QED
    BY <2>1, <2>2, ReportTyped
<1>12. RewardsInOrder'
  <2> SUFFICES ASSUME NEW q \in report.entries, NEW s \in report.entries, credits'[s] > 0,
                      Position[q] < Position[s]
               PROVE  FullyRewarded(q)'
    BY <1>1 DEF RewardsInOrder
  <2>1. CASE s = r
    BY <1>10, <1>11, <2>1, ReportTyped
  <2>2. CASE s # r
    <3>1. credits[s] > 0
      BY <2>2 DEF PostReward, TypeOK
    <3>2. FullyRewarded(q)
      BY <3>1 DEF PaidOK, RewardsInOrder
    <3> QED
      BY <1>10, <3>2, ReportTyped
  <2> QED
    BY <2>1, <2>2
<1>13. \A s \in Racers : pc'[i] = "rep" /\ NextEntry(i, s)' => credits'[s] > 0
  <2> SUFFICES ASSUME NEW s \in Racers, NextEntry(i, s)', pc'[i] = "rep"
               PROVE  credits'[s] > 0
    OBVIOUS
  <2>1. s \in left[i] /\ Position[s] <= Position[r]
    BY <1>1, <1>4 DEF NextEntry
  <2>2. Position[r] <= Position[s]
    BY <2>1 DEF PostReward, NextEntry
  <2>3. Position[r] = Position[s]
    BY <2>1, <2>2, ReportTyped
  <2>4. r = s
    BY <2>3, ReportAssumption
  <2> QED
    BY <1>2, <2>4
<1>14. \A s \in report.entries : FullyRewarded(s) =>  FullyRewarded(s)'
  BY <1>10, ReportTyped
<1>15. \A s \in report.entries \ left[i] : FullyRewarded(s)'
  BY <1>1, <1>14 DEF PaidOK
<1>16. \A j \in Reports : j # i => pc'[j] \notin Cut
  BY <1>1, <1>4 DEF OneHandler, Cut, Past
<1>17. PaidOK'
  BY <1>1, <1>4, <1>10, <1>12, <1>13, <1>15, <1>16 DEF PaidOK, Cut, Past
<1> QED
  BY <1>5, <1>6, <1>7, <1>8, <1>9, <1>17

LEMMA AwardRepStep ==
  ASSUME RIInv, NEW i \in Reports, NEW r \in Racers, AwardRep(i, r)
  PROVE  RIInv'
<1> USE DEF RIInv
<1>1. /\ pc[i] = "rep" /\ r \in left[i] /\ left[i] \subseteq report.entries /\ NextReward(i, r)
      /\ found[i] = report.prior /\ row = "ended" /\ Entitled /\ position = Reported
      /\ UNCHANGED <<report, row, position, credits, sent, acked, found>>
  BY DEF AwardRep, NextEntry, RowOK, LeftOK, OrderOK, Past, Cut, room
<1>2. \A s \in Racers : rep'[s] = IF s = r THEN rep[s] + 1 ELSE rep[s]
  BY DEF AwardRep, TypeOK
<1>3. rep[r] = 0
  BY <1>1 DEF RepOK
<1>4. Reported' = Reported
  BY <1>1 DEF Reported
<1>5. /\ pc' \in [Reports -> {"idle", "read", "end", "upsert", "reward", "rep", "settle",
                              "done", "failed", "broken"}]
      /\ left' \in [Reports -> SUBSET Racers]
      /\ \A j \in Reports : j # i => pc'[j] = pc[j] /\ left'[j] = left[j]
      /\ left'[i] = left[i] \ {r}
      /\ \/ pc'[i] = "settle" /\ left[i] = {r}
         \/ pc'[i] = "reward" /\ left'[i] # {}
  BY <1>1, NextRewardMoves
<1>6. TypeOK'
  <2>1. 1 \in 0..MaxReports
    BY ReportAssumption DEF Reports
  <2>2. rep' \in [Racers -> 0..MaxReports]
    BY <1>3, <2>1 DEF AwardRep, TypeOK
  <2> QED
    BY <1>1, <1>5, <2>2 DEF TypeOK
<1>7. RowOK' /\ LeftOK'
  BY <1>1, <1>5 DEF RowOK, LeftOK, Past, Cut, Entitled, Policy
<1>8. OrderOK'
  BY <1>1, <1>4, <1>5 DEF OrderOK, OrderBeforeRewards
<1>9. OneHandler'
  BY <1>1, <1>5 DEF OneHandler, Past, Cut, Running
<1>10. \A j \in Reports : j # i => pc[j] \notin Cut
  BY <1>1 DEF OneHandler, Past, Cut
<1>11. RepOK'
  BY <1>1, <1>2, <1>3, <1>5, <1>10 DEF RepOK, Past, Cut
<1>12. /\ \A q \in report.entries : FullyRewarded(q) => FullyRewarded(q)'
       /\ FullyRewarded(r)'
  <2>1. credits[r] > 0
    BY <1>1 DEF PaidOK, AwardRep
  <2>2. \A q \in Racers : rep[q] > 0 => rep'[q] > 0
    BY <1>2, <1>3 DEF TypeOK
  <2> QED
    BY <1>1, <1>2, <1>3, <2>1, <2>2, ReportTyped DEF FullyRewarded, Policy
<1>13. RewardsInOrder'
  BY <1>1, <1>12 DEF RewardsInOrder, PaidOK
<1>14. \A s \in report.entries \ left'[i] : FullyRewarded(s)'
  BY <1>1, <1>5, <1>12 DEF PaidOK
<1>15. PaidOK'
  BY <1>1, <1>5, <1>10, <1>13, <1>14 DEF PaidOK, Cut, Past
<1> QED
  BY <1>6, <1>7, <1>8, <1>9, <1>11, <1>15

\* Who fails past the end of the race leaves those it had not come to.
LEMMA FailStep ==
  ASSUME RIInv, NEW i \in Reports, Fail(i)
  PROVE  RIInv'
<1> USE DEF RIInv
<1> DEFINE x == IF pc[i] \in Past THEN "broken" ELSE "failed"
<1>1. /\ \A j \in Reports : pc'[j] = IF j = i THEN x ELSE pc[j]
      /\ Running(i) /\ UNCHANGED <<report, row, position, credits, rep, sent, acked, found, left>>
  BY DEF Fail, Goto, TypeOK, race, room
<1>2. TypeOK'
  BY <1>1 DEF Fail, Goto, TypeOK
<1>3. x \in {"broken", "failed"} /\ (x = "broken" => pc[i] \in Past)
  OBVIOUS
<1> HIDE DEF x
<1>4. RowOK' /\ LeftOK' /\ OrderOK' /\ RepOK' /\ OneHandler'
  BY <1>1, <1>3 DEF RowOK, LeftOK, OrderOK, OrderBeforeRewards, RepOK, OneHandler,
     Past, Cut, Running, Entitled, Policy, Reported, NextEntry
<1>5. /\ \A q : FullyRewarded(q)' <=> FullyRewarded(q)
      /\ \A j : Unserved(j)' = Unserved(j)
      /\ RewardsInOrder'
  BY <1>1 DEF FullyRewarded, Unserved, Policy, Reported, RewardsInOrder, PaidOK
<1>6. x = "broken" => \A q \in report.entries : FullyRewarded(q) \/ q \in Unserved(i)
  <2> SUFFICES ASSUME x = "broken", NEW q \in report.entries, q \notin Unserved(i)
               PROVE  FullyRewarded(q)
    OBVIOUS
  <2>1. position = Reported /\ q \notin left[i]
    BY DEF Unserved
  <2>2. pc[i] # "upsert"
    <3> SUFFICES ASSUME pc[i] = "upsert" PROVE FALSE
      OBVIOUS
    <3>1. PICK s : s \in left[i]
      BY DEF LeftOK
    <3>2. s \in report.entries /\ position[s] = 0
      BY <3>1 DEF LeftOK, OrderOK
    <3> QED
      BY <2>1, <3>2, ReportTyped
  <2> QED
    BY <1>3, <2>1, <2>2 DEF PaidOK, Past
<1>7. PaidOK'
  BY <1>1, <1>3, <1>5, <1>6 DEF PaidOK, NextEntry
<1> QED
  BY <1>2, <1>4, <1>7

LEMMA FinishStep ==
  ASSUME RIInv, NEW i \in Reports, Finish(i)
  PROVE  RIInv'
<1> USE DEF RIInv
<1>1. /\ \A j \in Reports : pc'[j] = IF j = i THEN "done" ELSE pc[j]
      /\ pc[i] = "settle"
      /\ UNCHANGED <<report, row, position, credits, rep, sent, acked, found, left>>
  BY DEF Finish, Goto, TypeOK, race, room
<1>2. TypeOK'
  BY <1>1 DEF Finish, Goto, TypeOK
<1> QED
  BY <1>1, <1>2 DEF RowOK, LeftOK, OrderOK, OrderBeforeRewards, PaidOK, FullyRewarded, RewardsInOrder, Unserved, RepOK, OneHandler,
     Past, Cut, Running, Entitled, Policy, Reported, NextEntry

LEMMA IngestInit == Init => RIInv /\ GoesOn
<1> SUFFICES ASSUME Init PROVE RIInv /\ GoesOn
  OBVIOUS
<1> USE DEF Init, InitIngest
<1>1. TypeOK
  <2>1. report.prior \in {"open", "none"}
    BY ReportAssumption
  <2>2. MaxReports \in Nat
    BY ReportAssumption
  <2>3. 0 \in 0..MaxReports
    BY <2>2
  <2>4. rep \in [Racers -> 0..MaxReports] /\ sent \in 0..MaxReports
    BY <2>3
  <2>5. /\ position \in [Racers -> 0..8] /\ credits \in [Racers -> Nat]
        /\ pc \in [Reports -> {"idle", "read", "end", "upsert", "reward", "rep", "settle",
                               "done", "failed", "broken"}]
        /\ found \in [Reports -> {"none", "open", "ended"}]
        /\ left \in [Reports -> SUBSET Racers]
    OBVIOUS
  <2> QED
    BY <2>1, <2>4, <2>5 DEF TypeOK
<1>2. row # "ended"
  BY <1>1, ReportTyped
<1>3. OrderOK
  BY <1>1, ReportTyped DEF OrderOK, OrderBeforeRewards
<1>4. RowOK /\ LeftOK
  BY ReportAssumption DEF RowOK, LeftOK, Past, Cut, Reports
<1>5. PaidOK
  BY <1>1, ReportTyped DEF PaidOK, RewardsInOrder
<1>6. OneHandler
  BY DEF OneHandler, Running, Past, Cut
<1>7. RepOK
  BY <1>2 DEF RepOK
<1> QED
  BY <1>1, <1>2, <1>3, <1>4, <1>5, <1>6, <1>7 DEF RIInv, GoesOn

LEMMA IngestStays ==
  ASSUME "open" \notin Overlap
  PROVE  RIInv /\ [Next]_ingestVars => RIInv'
<1> SUFFICES ASSUME RIInv, [Next]_ingestVars PROVE RIInv'
  OBVIOUS
<1>1. CASE UNCHANGED ingestVars
  BY <1>1 DEF ingestVars, race, room, handlers, RIInv, TypeOK, RowOK, LeftOK, OrderOK, PaidOK, FullyRewarded, RewardsInOrder, Unserved,
     OneHandler, RepOK, Past, Cut, Running, Reported, Entitled, Policy, OrderBeforeRewards, NextEntry
<1>2. CASE SendReport \/ ReadAck
  BY <1>2, SendReportStep, ReadAckStep
<1>3. ASSUME NEW i \in Reports, HandlerStep(i) PROVE RIInv'
  BY <1>3, ReadRaceStep, EndRaceStep, CreateRaceStep, UpsertStep, PostRewardStep, AwardRepStep
     DEF HandlerStep
<1>4. ASSUME NEW i \in Reports, Fail(i) \/ Finish(i) PROVE RIInv'
  BY <1>4, FailStep, FinishStep
<1> QED
  BY <1>1, <1>2, <1>3, <1>4 DEF Next, IngestStep

\* The invariant of the report's handlers, for any race and any number of reports, if
\* the room waits for the handler of a race that matchmaking made.
THEOREM IngestInvariant ==
  ASSUME "open" \notin Overlap
  PROVE  Spec => []RIInv
<1>1. Init => RIInv
  BY IngestInit
<1>2. RIInv /\ [Next]_ingestVars => RIInv'
  BY IngestStays
<1> QED
  BY <1>1, <1>2, PTL DEF Spec

\* Whatever await fails or whichever process dies, nobody gets rep twice and nobody is
\* paid before the finish order is complete, if the room waits for the handler of a
\* race that matchmaking made (a timeout of its request that the handler outlives
\* makes two of them).
THEOREM RepIsGivenOnce ==
  ASSUME "open" \notin Overlap
  PROVE  Spec => [](RepOnce /\ OrderBeforeRewards)
<1>1. RIInv => RepOnce /\ OrderBeforeRewards
  BY DEF RIInv, RepOK, RepOnce, OrderOK
<1> QED
  BY <1>1, IngestInvariant, PTL

\* A handler pays everybody before it ends, unless it breaks off.
LEMMA RewardsGoOn ==
  ASSUME RIInv, RIInv', GoesOn, [Next]_ingestVars
  PROVE  GoesOn'
<1> USE DEF RIInv
<1> SUFFICES ASSUME row' = "ended", Entitled'
             PROVE  (\E i \in Reports : pc'[i] \in Cut) \/ \A r \in report'.entries : FullyRewarded(r)'
  BY DEF GoesOn, FullyRewarded, Policy
<1>0. report' = report
  BY DEF Next, IngestStep, SendReport, ReadAck, HandlerStep, ReadRace, EndRace, CreateRace,
     UpsertParticipant, PostReward, AwardRep, Fail, Finish, ingestVars, room
<1>1. Entitled
  BY <1>0 DEF Entitled, Policy
<1>2. CASE UNCHANGED ingestVars
  BY <1>0, <1>1, <1>2 DEF GoesOn, FullyRewarded, Policy, ingestVars, race, handlers
<1>3. CASE SendReport
  <2>1. /\ sent + 1 \in Reports /\ pc[sent + 1] = "idle" /\ UNCHANGED race
        /\ \A j \in Reports : j # sent + 1 => pc'[j] = pc[j]
    BY <1>3, ReportAssumption DEF SendReport, TypeOK, Reports, RowOK
  <2> QED
    BY <1>0, <1>1, <2>1 DEF GoesOn, FullyRewarded, Policy, race, Past, Cut
<1>4. CASE ReadAck
  BY <1>0, <1>1, <1>4 DEF ReadAck, GoesOn, FullyRewarded, Policy, race, handlers
<1>5. ASSUME NEW i \in Reports, ReadRace(i) PROVE GoesOn'
  <2>1. pc[i] = "read" /\ UNCHANGED race /\ \A j \in Reports : j # i => pc'[j] = pc[j]
    BY <1>5 DEF ReadRace, Goto, TypeOK
  <2> QED
    BY <1>0, <1>1, <2>1 DEF GoesOn, FullyRewarded, Policy, race, Past, Cut
<1>6. ASSUME NEW i \in Reports, EndRace(i) PROVE GoesOn'
  <2>1. pc'[i] = "upsert"
    BY <1>6 DEF EndRace, Goto, TypeOK
  <2> QED
    BY <2>1 DEF GoesOn, FullyRewarded, Policy, Past, Cut
<1>7. ASSUME NEW i \in Reports, CreateRace(i) PROVE GoesOn'
  <2>1. CASE row = "none"
    <3>1. Policy(found[i]) # "NONE"
      BY <1>1, <1>7 DEF CreateRace, RowOK, Past, Cut, Entitled
    <3>2. pc'[i] = "reward"
      BY <1>7, <2>1, <3>1 DEF CreateRace, Goto, TypeOK, AfterResults
    <3> QED
      BY <3>2 DEF GoesOn, FullyRewarded, Policy, Past, Cut
  <2>2. CASE row # "none"
    <3>1. pc[i] = "end" /\ UNCHANGED <<row, credits, rep>> /\ \A j \in Reports : j # i => pc'[j] = pc[j]
      BY <1>7, <2>2 DEF CreateRace, Goto, TypeOK
    <3> QED
      BY <1>0, <1>1, <3>1 DEF GoesOn, FullyRewarded, Policy, Past, Cut
  <2> QED
    BY <2>1, <2>2
<1>8. ASSUME NEW i \in Reports, NEW r \in Racers, UpsertParticipant(i, r) PROVE GoesOn'
  <2>1. pc'[i] \in Past
    BY <1>1, <1>8 DEF UpsertParticipant, Goto, TypeOK, RowOK, Past, Cut, AfterResults, Entitled
  <2> QED
    BY <2>1 DEF GoesOn, Cut
<1>9. ASSUME NEW i \in Reports, NEW r \in Racers, PostReward(i, r) \/ AwardRep(i, r) PROVE GoesOn'
  <2>1. pc'[i] \in Past
    BY <1>9 DEF PostReward, AwardRep, NextReward, Goto, TypeOK, Past, Cut
  <2> QED
    BY <2>1 DEF GoesOn, Cut
<1>10. ASSUME NEW i \in Reports, Fail(i) PROVE GoesOn'
  <2>1. /\ UNCHANGED race /\ \A j \in Reports : j # i => pc'[j] = pc[j]
        /\ pc[i] \in Cut => pc'[i] \in Cut
    BY <1>10 DEF Fail, Goto, TypeOK, Running, Cut
  <2> QED
    BY <1>0, <1>1, <2>1 DEF GoesOn, FullyRewarded, Policy, race
<1>11. ASSUME NEW i \in Reports, Finish(i) PROVE GoesOn'
  <2>1. \A r \in report.entries : FullyRewarded(r)
    BY <1>11 DEF Finish, PaidOK, FullyRewarded, RewardsInOrder, Unserved
  <2> QED
    BY <1>0, <1>11, <2>1 DEF GoesOn, FullyRewarded, Policy, Finish, race
<1> QED
  BY <1>2, <1>3, <1>4, <1>5, <1>6, <1>7, <1>8, <1>9, <1>10, <1>11
     DEF Next, IngestStep, HandlerStep, GoesOn

\* A result is ingested once, in order, and wholly before the room forgets it, but for
\* those whom a handler that broke off had not come to, who are the last of the race:
\* for any race and any number of reports, whatever await fails and whichever process
\* dies, if the room waits for the handler of a race that matchmaking made.
THEOREM ResultsAreWhole ==
  ASSUME "open" \notin Overlap
  PROVE  Spec => []ResultsInv
<1>1. Init => RIInv /\ GoesOn
  BY IngestInit
<1>2. RIInv /\ GoesOn /\ [Next]_ingestVars => RIInv' /\ GoesOn'
  BY IngestStays, RewardsGoOn
<1>3. RIInv /\ GoesOn => ResultsInv
  <2>1. RIInv /\ GoesOn => AckMeansRewarded
    <3> SUFFICES ASSUME RIInv, GoesOn, acked, Entitled, \A i \in Reports : ~Running(i),
                        NEW r \in report.entries
                 PROVE  FullyRewarded(r) \/ Lost(r)
      BY DEF AckMeansRewarded
    <3>1. CASE \E i \in Reports : pc[i] \in Cut
      <4>1. PICK i \in Reports : pc[i] = "broken"
        BY <3>1 DEF Cut, Past, Running
      <4> QED
        BY <4>1 DEF RIInv, PaidOK, Lost
    <3>2. CASE \A q \in report.entries : FullyRewarded(q)
      BY <3>2
    <3> QED
      BY <3>1, <3>2 DEF GoesOn, RIInv, RowOK
  <2> QED
    BY <2>1 DEF RIInv, RepOK, RepOnce, OrderOK, PaidOK, ResultsInv
<1> QED
  BY <1>1, <1>2, <1>3, PTL DEF Spec

-----------------------------------------------------------------------------
(* Withdrawals: the inductive invariant.                                   *)

\* The withdrawals of a chain are the player's, in the process, and each is there once.
ChainOK ==
  /\ chain \in [Processes -> [Players -> Seq(Requests)]]
  /\ \A q \in Processes, p \in Players : \A i \in DOMAIN chain[q][p] :
       request[chain[q][p][i]].proc = q /\ request[chain[q][p][i]].who = p
  /\ \A q \in Processes, p \in Players : \A i, j \in DOMAIN chain[q][p] :
       chain[q][p][i] = chain[q][p][j] => i = j

\* Only the first of a chain has begun.
FirstRuns == \A r \in Requests : at[r] \in Ongoing \ {"queued"} => Turn(r)

\* A row is there once its call has submitted, money moves for rows only, and a caller
\* is told of the row what is true: who is refused has none, or a rejected one.
RowsOK == \A r \in Requests :
  /\ at[r] \in {"idle", "queued", "limits", "balance", "submit"} => payment[r] = "none"
  /\ payment[r] = "none" => r \notin recent
  /\ r \in moved => payment[r] \in {"open", "confirmed"}
  /\ payment[r] = "confirmed" => r \in moved
  /\ at[r] = "refused" => payment[r] \in {"none", "failed"}
  /\ at[r] = "done" => payment[r] = "confirmed"
  /\ at[r] \in {"submitted", "settling"} => payment[r] # "none"

Beside(r) == {s \in Same(r) : request[s].proc = request[r].proc}

\* Who has passed the first check will still be alone with its payment.
Checked == \A r \in Requests : at[r] \in {"limits", "balance", "submit"} =>
  \A s \in Beside(r) : payment[s] # "open"

\* Payments of a player that one process has open are one payment.
OneRow == \A r \in Requests : \A s \in Beside(r) :
  payment[r] = "open" /\ payment[s] = "open" => r = s

Alone(r) == \A s \in Same(r) : request[s].proc = request[r].proc

\* A process that has the player to itself finds the balance as it was checked.
Backed == \A r \in Requests :
  Alone(r) /\ (at[r] = "submit" \/ (payment[r] = "open" /\ r \notin moved)) =>
    funds[request[r].who] >= request[r].amount

\* Every process lets at most one withdrawal pass beyond those that were counted.
PastLimits(r) == {s \in Same(r) : at[s] \in {"balance", "submit"}}
CountRoom == \A r \in Requests :
  Cardinality(Counted(r)) + Cardinality(PastLimits(r))
    <= MaxDailyWithdrawals + Cardinality(Processed(request[r].who)) - 1

WIInv ==
  /\ WithdrawalTypeOK /\ ChainOK /\ FirstRuns /\ RowsOK
  /\ Checked /\ OneRow /\ Backed /\ CountRoom

-----------------------------------------------------------------------------
(* The chains.                                                             *)

LEMMA Typed ==
  ASSUME WithdrawalTypeOK, NEW r \in Requests
  PROVE  /\ request[r].who \in Players /\ request[r].proc \in Processes
         /\ request[r].amount \in Nat
<1>1. request \in [Requests -> [who : Players, proc : Processes, amount : Amounts]]
  BY WithdrawalAssumption DEF WithdrawalTypeOK
<1>2. request[r] \in [who : Players, proc : Processes, amount : Amounts]
  BY <1>1
<1>3. Amounts \subseteq Nat
  BY WithdrawalAssumption
<1> QED
  BY <1>2, <1>3

\* The chain of a call that runs has a first.
LEMMA ChainOf ==
  ASSUME WithdrawalTypeOK, ChainOK, NEW r \in Requests
  PROVE  /\ Of(r) \in Seq(Requests) /\ Len(Of(r)) \in Nat /\ DOMAIN Of(r) = 1..Len(Of(r))
         /\ at[r] \in Ongoing => Of(r) # <<>> /\ \E i \in DOMAIN Of(r) : Of(r)[i] = r
         /\ \A i \in DOMAIN Of(r) : at[Of(r)[i]] \in Ongoing /\ Of(Of(r)[i]) = Of(r)
<1>1. Of(r) \in Seq(Requests)
  BY Typed DEF Of, ChainOK
<1>2. at[r] \in Ongoing <=> \E i \in DOMAIN Of(r) : Of(r)[i] = r
  BY DEF WithdrawalTypeOK
<1>3. ASSUME NEW i \in DOMAIN Of(r)
      PROVE  at[Of(r)[i]] \in Ongoing /\ Of(Of(r)[i]) = Of(r)
  <2>1. Of(r)[i] \in Requests
    BY <1>1
  <2>2. request[Of(r)[i]].proc = request[r].proc /\ request[Of(r)[i]].who = request[r].who
    BY Typed DEF ChainOK, Of
  <2>3. Of(Of(r)[i]) = Of(r)
    BY <2>2 DEF Of
  <2> QED
    BY <2>1, <2>3 DEF WithdrawalTypeOK
<1> QED
  BY <1>1, <1>2, <1>3

\* Two calls of a player that have begun in one process are one call.
LEMMA OneFirst ==
  ASSUME FirstRuns, NEW r \in Requests, NEW s \in Beside(r),
         at[r] \in Ongoing \ {"queued"}, at[s] \in Ongoing \ {"queued"}
  PROVE  r = s
BY DEF FirstRuns, Beside, Same, Turn, Of

\* A step that leaves the chains and who is on them alone.
LEMMA ChainsStay ==
  ASSUME WithdrawalTypeOK, ChainOK, FirstRuns, UNCHANGED <<request, chain>>,
         at' \in [Requests -> Ongoing \cup {"idle", "settling", "done", "refused", "error", "dead"}],
         \A s \in Requests : at'[s] \in Ongoing <=> at[s] \in Ongoing,
         \A s \in Requests : at'[s] \in Ongoing \ {"queued"} => at[s] = at'[s] \/ Turn(s)
  PROVE  /\ ChainOK' /\ FirstRuns'
         /\ \A s \in Requests : at'[s] \in Ongoing <=> s \in {Of(s)'[i] : i \in DOMAIN Of(s)'}
<1>1. \A s : Of(s)' = Of(s) /\ (Turn(s)' <=> Turn(s))
  BY DEF Of, Turn
<1> QED
  BY <1>1 DEF ChainOK, FirstRuns, WithdrawalTypeOK

\* A process dies: its chains are empty, and its calls run no more.
LEMMA DieChains ==
  ASSUME WithdrawalTypeOK, ChainOK, FirstRuns, NEW r \in Requests, at[r] \in Ongoing,
         NEW a \in {"refused", "error"}, Die(request[r].proc, r, a), UNCHANGED request
  PROVE  /\ ChainOK' /\ FirstRuns'
         /\ at' \in [Requests -> Ongoing \cup {"idle", "settling", "done", "refused", "error", "dead"}]
         /\ \A s \in Requests : at'[s] \in Ongoing <=> s \in {Of(s)'[i] : i \in DOMAIN Of(s)'}
         /\ \A s \in Requests :
              at'[s] = at[s] \/ at'[s] = "dead" \/ (at'[s] = a /\ s = r)
<1> DEFINE q == request[r].proc
<1>1. q \in Processes
  BY Typed
<1>2. \A s \in Requests :
        at'[s] = IF s = r THEN a
                 ELSE IF request[s].proc = q /\ at[s] \in Ongoing THEN "dead" ELSE at[s]
  BY DEF Die
<1>3. at' \in [Requests -> Ongoing \cup {"idle", "settling", "done", "refused", "error", "dead"}]
  BY <1>2 DEF Die, WithdrawalTypeOK
<1>4. chain' = [chain EXCEPT ![q] = [p \in Players |-> <<>>]]
  BY DEF Die
<1>5. \A s \in Requests : Of(s)' = IF request[s].proc = q THEN <<>> ELSE Of(s)
  BY <1>1, <1>4, Typed DEF Of, ChainOK
<1>6. ChainOK'
  <2>1. [p \in Players |-> <<>>] \in [Players -> Seq(Requests)]
    OBVIOUS
  <2>2. chain' \in [Processes -> [Players -> Seq(Requests)]]
    BY <1>4, <2>1 DEF ChainOK
  <2>3. \A z \in Processes, p \in Players : chain'[z][p] = IF z = q THEN <<>> ELSE chain[z][p]
    BY <1>1, <1>4 DEF ChainOK
  <2> QED
    BY <2>2, <2>3 DEF ChainOK
<1>7. \A s \in Requests : at'[s] \in Ongoing <=> at[s] \in Ongoing /\ request[s].proc # q
  BY <1>2 DEF Ongoing
<1>8. \A s \in Requests : at'[s] \in Ongoing <=> s \in {Of(s)'[i] : i \in DOMAIN Of(s)'}
  <2> SUFFICES ASSUME NEW s \in Requests
               PROVE  at'[s] \in Ongoing <=> s \in {Of(s)'[i] : i \in DOMAIN Of(s)'}
    OBVIOUS
  <2>1. CASE request[s].proc = q
    <3>1. Of(s)' = <<>>
      BY <1>5, <2>1
    <3> QED
      BY <1>7, <2>1, <3>1
  <2>2. CASE request[s].proc # q
    <3>1. Of(s)' = Of(s)
      BY <1>5, <2>2
    <3> QED
      BY <1>7, <2>2, <3>1 DEF WithdrawalTypeOK
  <2> QED
    BY <2>1, <2>2
<1>9. FirstRuns'
  <2> SUFFICES ASSUME NEW s \in Requests, at'[s] \in Ongoing \ {"queued"} PROVE Turn(s)'
    BY DEF FirstRuns
  <2>1. at'[s] = at[s] /\ Of(s)' = Of(s)
    BY <1>2, <1>5, <1>7
  <2> QED
    BY <2>1 DEF FirstRuns, Turn
<1>10. \A s \in Requests :
         at'[s] = at[s] \/ at'[s] = "dead" \/ (at'[s] = a /\ s = r)
  BY <1>2
<1> QED
  BY <1>3, <1>6, <1>8, <1>9, <1>10

\* What Append gives.
LEMMA Appended ==
  ASSUME NEW S, NEW s \in Seq(S), NEW x \in S
  PROVE  /\ Append(s, x) \in Seq(S) /\ Append(s, x) # <<>>
         /\ DOMAIN Append(s, x) = 1..Len(s) + 1
         /\ \A i \in 1..Len(s) : Append(s, x)[i] = s[i]
         /\ Append(s, x)[Len(s) + 1] = x
OBVIOUS

\* A call joins the end of its chain.
LEMMA JoinChain ==
  ASSUME WithdrawalTypeOK, ChainOK, FirstRuns, NEW r \in Requests, at[r] = "idle",
         Proceed(r, "queued"), SetChain(r, Append(Of(r), r)), UNCHANGED request
  PROVE  /\ ChainOK' /\ FirstRuns'
         /\ \A s \in Requests : at'[s] \in Ongoing <=> s \in {Of(s)'[i] : i \in DOMAIN Of(s)'}
<1> DEFINE q == request[r].proc
           p == request[r].who
<1>0. PICK o : o = Of(r)
  OBVIOUS
<1> DEFINE c == Append(o, r)
<1>1. q \in Processes /\ p \in Players
  BY Typed
<1>2. o \in Seq(Requests) /\ Len(o) \in Nat /\ DOMAIN o = 1..Len(o)
  BY <1>0, ChainOf
<1>12. o = chain[q][p]
  BY <1>0 DEF Of
<1>3. \A i \in DOMAIN o : o[i] # r
  BY <1>0, <1>2 DEF WithdrawalTypeOK, Ongoing
<1>4. /\ c \in Seq(Requests) /\ c # <<>> /\ DOMAIN c = 1..Len(o) + 1
      /\ \A i \in 1..Len(o) : c[i] = o[i]
      /\ c[Len(o) + 1] = r
  BY <1>2, Appended
<1>5. \A y \in Processes, z \in Players :
        chain'[y][z] = IF y = q /\ z = p THEN c ELSE chain[y][z]
  BY <1>0, <1>1 DEF SetChain, ChainOK
<1>11. chain' \in [Processes -> [Players -> Seq(Requests)]]
  BY <1>0, <1>1, <1>4 DEF SetChain, ChainOK
<1> HIDE DEF c
<1>6. \A s \in Requests : Of(s)' = IF request[s].proc = q /\ request[s].who = p THEN c ELSE Of(s)
  BY <1>5, Typed DEF Of
<1>7. ChainOK'
  <2>2. ASSUME NEW y \in Processes, NEW z \in Players, NEW i \in DOMAIN chain'[y][z]
        PROVE  request[chain'[y][z][i]].proc = y /\ request[chain'[y][z][i]].who = z
    <3>1. CASE y = q /\ z = p
      <4>1. i \in 1..Len(o) + 1 /\ chain'[y][z][i] = c[i]
        BY <1>4, <1>5, <2>2, <3>1
      <4>2. CASE i = Len(o) + 1
        BY <1>4, <3>1, <4>1, <4>2
      <4>3. CASE i \in 1..Len(o)
        <5>1. c[i] = chain[q][p][i] /\ i \in DOMAIN chain[q][p]
          BY <1>2, <1>4, <1>12, <4>3
        <5> QED
          BY <1>1, <3>1, <4>1, <5>1 DEF ChainOK
      <4> QED
        BY <1>2, <4>1, <4>2, <4>3
    <3>2. CASE ~(y = q /\ z = p)
      BY <1>5, <2>2, <3>2 DEF ChainOK
    <3> QED
      BY <3>1, <3>2
  <2>3. ASSUME NEW y \in Processes, NEW z \in Players,
               NEW i \in DOMAIN chain'[y][z], NEW j \in DOMAIN chain'[y][z],
               chain'[y][z][i] = chain'[y][z][j]
        PROVE  i = j
    <3>1. CASE y = q /\ z = p
      <4>1. i \in 1..Len(o) + 1 /\ j \in 1..Len(o) + 1 /\ c[i] = c[j]
        BY <1>4, <1>5, <2>3, <3>1
      <4>2. \A k, m \in 1..Len(o) : o[k] = o[m] => k = m
        BY <1>1, <1>2, <1>12 DEF ChainOK
      <4> QED
        BY <1>2, <1>3, <1>4, <4>1, <4>2
    <3>2. CASE ~(y = q /\ z = p)
      BY <1>5, <2>3, <3>2 DEF ChainOK
    <3> QED
      BY <3>1, <3>2
  <2> QED
    BY <1>11, <2>2, <2>3 DEF ChainOK
<1>8. \A s \in Requests : at'[s] = IF s = r THEN "queued" ELSE at[s]
  BY DEF Proceed, WithdrawalTypeOK
<1>9. \A s \in Requests : at'[s] \in Ongoing <=> s \in {Of(s)'[i] : i \in DOMAIN Of(s)'}
  <2> SUFFICES ASSUME NEW s \in Requests
               PROVE  at'[s] \in Ongoing <=> \E i \in DOMAIN Of(s)' : Of(s)'[i] = s
    OBVIOUS
  <2>1. at[s] \in Ongoing <=> \E i \in DOMAIN Of(s) : Of(s)[i] = s
    BY DEF WithdrawalTypeOK
  <2>2. CASE request[s].proc = q /\ request[s].who = p
    <3>1. Of(s)' = c /\ Of(s) = o
      BY <1>0, <1>6, <2>2 DEF Of
    <3>2. (\E i \in DOMAIN c : c[i] = s) <=> (s = r \/ \E i \in DOMAIN o : o[i] = s)
      BY <1>2, <1>4
    <3> QED
      BY <1>8, <2>1, <3>1, <3>2 DEF Ongoing
  <2>3. CASE ~(request[s].proc = q /\ request[s].who = p)
    <3>1. Of(s)' = Of(s) /\ s # r
      BY <1>6, <2>3
    <3> QED
      BY <1>8, <2>1, <3>1
  <2> QED
    BY <2>2, <2>3
<1>10. FirstRuns'
  <2> SUFFICES ASSUME NEW s \in Requests, at'[s] \in Ongoing \ {"queued"} PROVE Turn(s)'
    BY DEF FirstRuns
  <2>1. at[s] \in Ongoing \ {"queued"} /\ s # r
    BY <1>8
  <2>2. Turn(s) /\ Of(s) # <<>>
    BY <2>1, ChainOf DEF FirstRuns
  <2>3. CASE request[s].proc = q /\ request[s].who = p
    <3>1. Of(s)' = c /\ Of(s) = o
      BY <1>0, <1>6, <2>3 DEF Of
    <3>2. c[1] = o[1] /\ c # <<>>
      BY <1>2, <1>4, <2>2, <3>1
    <3> QED
      BY <1>2, <1>4, <2>2, <3>1, <3>2 DEF Turn
  <2>4. CASE ~(request[s].proc = q /\ request[s].who = p)
    BY <1>6, <2>2, <2>4 DEF Turn
  <2> QED
    BY <2>3, <2>4
<1> QED
  BY <1>7, <1>9, <1>10

\* What Head and Tail give.
LEMMA Tailed ==
  ASSUME NEW S, NEW s \in Seq(S), s # <<>>
  PROVE  /\ Tail(s) \in Seq(S) /\ Head(s) = s[1] /\ Len(s) \in Nat /\ Len(s) > 0
         /\ DOMAIN s = 1..Len(s) /\ DOMAIN Tail(s) = 1..Len(s) - 1
         /\ \A i \in 1..Len(s) - 1 : Tail(s)[i] = s[i + 1]
OBVIOUS

\* The first of a chain leaves it when it returns.
LEMMA LeaveChain ==
  ASSUME WithdrawalTypeOK, ChainOK, FirstRuns, NEW r \in Requests, at[r] = "submitted",
         NEW x \in {"settling", "done"}, Proceed(r, x), SetChain(r, Tail(Of(r))), UNCHANGED request
  PROVE  /\ ChainOK' /\ FirstRuns'
         /\ \A s \in Requests : at'[s] \in Ongoing <=> s \in {Of(s)'[i] : i \in DOMAIN Of(s)'}
<1> DEFINE q == request[r].proc
           p == request[r].who
<1>0. PICK o : o = Of(r)
  OBVIOUS
<1> DEFINE c == Tail(o)
<1>1. q \in Processes /\ p \in Players
  BY Typed
<1>2. o \in Seq(Requests) /\ o # <<>> /\ o[1] = r
  <2>1. o \in Seq(Requests) /\ o # <<>> /\ Head(o) = r
    BY <1>0, ChainOf DEF FirstRuns, Turn, Ongoing
  <2> QED
    BY <2>1, Tailed
<1>3. o = chain[q][p]
  BY <1>0 DEF Of
<1>4. /\ c \in Seq(Requests) /\ Len(o) \in Nat /\ Len(o) > 0
      /\ DOMAIN o = 1..Len(o) /\ DOMAIN c = 1..Len(o) - 1
      /\ \A i \in 1..Len(o) - 1 : c[i] = o[i + 1]
  BY <1>2, Tailed
<1>5. \A y \in Processes, z \in Players :
        chain'[y][z] = IF y = q /\ z = p THEN c ELSE chain[y][z]
  BY <1>0, <1>1 DEF SetChain, ChainOK
<1>6. chain' \in [Processes -> [Players -> Seq(Requests)]]
  BY <1>0, <1>1, <1>4 DEF SetChain, ChainOK
<1> HIDE DEF c
<1>7. \A s \in Requests : Of(s)' = IF request[s].proc = q /\ request[s].who = p THEN c ELSE Of(s)
  BY <1>5, Typed DEF Of
<1>8. \A i, j \in 1..Len(o) : o[i] = o[j] => i = j
  BY <1>1, <1>3, <1>4 DEF ChainOK
<1>9. ChainOK'
  <2>1. ASSUME NEW y \in Processes, NEW z \in Players, NEW i \in DOMAIN chain'[y][z]
        PROVE  request[chain'[y][z][i]].proc = y /\ request[chain'[y][z][i]].who = z
    <3>1. CASE y = q /\ z = p
      <4>1. i \in 1..Len(o) - 1 /\ chain'[y][z][i] = o[i + 1] /\ i + 1 \in DOMAIN o
        BY <1>4, <1>5, <2>1, <3>1
      <4>2. chain'[y][z][i] = chain[q][p][i + 1] /\ i + 1 \in DOMAIN chain[q][p]
        BY <1>3, <4>1
      <4> QED
        BY <1>1, <3>1, <4>2 DEF ChainOK
    <3>2. CASE ~(y = q /\ z = p)
      BY <1>5, <2>1, <3>2 DEF ChainOK
    <3> QED
      BY <3>1, <3>2
  <2>2. ASSUME NEW y \in Processes, NEW z \in Players,
               NEW i \in DOMAIN chain'[y][z], NEW j \in DOMAIN chain'[y][z],
               chain'[y][z][i] = chain'[y][z][j]
        PROVE  i = j
    <3>1. CASE y = q /\ z = p
      <4>1. i \in 1..Len(o) - 1 /\ j \in 1..Len(o) - 1 /\ o[i + 1] = o[j + 1]
        BY <1>4, <1>5, <2>2, <3>1
      <4> QED
        BY <1>4, <1>8, <4>1
    <3>2. CASE ~(y = q /\ z = p)
      BY <1>5, <2>2, <3>2 DEF ChainOK
    <3> QED
      BY <3>1, <3>2
  <2> QED
    BY <1>6, <2>1, <2>2 DEF ChainOK
<1>10. \A s \in Requests : at'[s] = IF s = r THEN x ELSE at[s]
  BY DEF Proceed, WithdrawalTypeOK
<1>11. \A s \in Requests : at'[s] \in Ongoing <=> s \in {Of(s)'[i] : i \in DOMAIN Of(s)'}
  <2> SUFFICES ASSUME NEW s \in Requests
               PROVE  at'[s] \in Ongoing <=> \E i \in DOMAIN Of(s)' : Of(s)'[i] = s
    OBVIOUS
  <2>1. at[s] \in Ongoing <=> \E i \in DOMAIN Of(s) : Of(s)[i] = s
    BY DEF WithdrawalTypeOK
  <2>2. CASE request[s].proc = q /\ request[s].who = p
    <3>1. Of(s)' = c /\ Of(s) = o
      BY <1>0, <1>7, <2>2 DEF Of
    <3>2. (\E i \in DOMAIN c : c[i] = s) <=> s # r /\ \E i \in DOMAIN o : o[i] = s
      <4>1. ASSUME NEW i \in DOMAIN c, c[i] = s
            PROVE  s # r /\ \E j \in DOMAIN o : o[j] = s
        <5>1. i \in 1..Len(o) - 1 /\ i + 1 \in 1..Len(o) /\ i + 1 # 1 /\ o[i + 1] = s
          BY <1>4, <4>1
        <5> QED
          BY <1>2, <1>4, <1>8, <5>1
      <4>2. ASSUME s # r, NEW i \in DOMAIN o, o[i] = s
            PROVE  \E j \in DOMAIN c : c[j] = s
        <5>1. i \in 1..Len(o) /\ i # 1
          BY <1>2, <1>4, <4>2
        <5>2. i - 1 \in 1..Len(o) - 1 /\ (i - 1) + 1 = i
          BY <1>4, <5>1
        <5>3. i - 1 \in DOMAIN c /\ c[i - 1] = s
          BY <1>4, <4>2, <5>2
        <5> QED
          BY <5>3
      <4> QED
        BY <4>1, <4>2
    <3> QED
      BY <1>10, <2>1, <3>1, <3>2 DEF Ongoing
  <2>3. CASE ~(request[s].proc = q /\ request[s].who = p)
    <3>1. Of(s)' = Of(s) /\ s # r
      BY <1>7, <2>3
    <3> QED
      BY <1>10, <2>1, <3>1
  <2> QED
    BY <2>2, <2>3
<1>12. FirstRuns'
  <2> SUFFICES ASSUME NEW s \in Requests, at'[s] \in Ongoing \ {"queued"} PROVE Turn(s)'
    BY DEF FirstRuns
  <2>1. at[s] \in Ongoing \ {"queued"} /\ s # r
    BY <1>10 DEF Ongoing
  <2>2. ~(request[s].proc = q /\ request[s].who = p)
    BY <2>1, OneFirst DEF Beside, Same, Ongoing
  <2>3. Of(s)' = Of(s)
    BY <1>7, <2>2
  <2> QED
    BY <2>1, <2>3 DEF FirstRuns, Turn
<1> QED
  BY <1>9, <1>11, <1>12

-----------------------------------------------------------------------------
(* The rows.                                                               *)

\* The calls of a player in different processes are no more than the processes.
LEMMA OnePerProcess ==
  ASSUME NEW r \in Requests, NEW S \in SUBSET Same(r),
         \A s, u \in S : request[s].proc = request[u].proc => s = u
  PROVE  /\ IsFiniteSet(S) /\ Cardinality(S) \in Nat
         /\ IsFiniteSet(Processed(request[r].who)) /\ Cardinality(Processed(request[r].who)) \in Nat
         /\ Cardinality(S) <= Cardinality(Processed(request[r].who))
<1> DEFINE P == Processed(request[r].who)
           f == [s \in S |-> request[s].proc]
           g == [s \in Same(r) |-> request[s].proc]
<1>1. Same(r) \in SUBSET Requests
  BY DEF Same
<1>2. IsFiniteSet(Same(r)) /\ IsFiniteSet(S)
  BY <1>1, WithdrawalAssumption, FS_Subset
<1>3. P = {request[s].proc : s \in Same(r)}
  BY DEF Processed, Same
<1>4. g \in Surjection(Same(r), P)
  BY <1>3 DEF Surjection
<1>5. IsFiniteSet(P)
  <2> HIDE DEF g, P
  <2> QED
    BY <1>2, <1>4, FS_Surjection
<1>6. f \in Injection(S, P)
  BY <1>3 DEF Injection, IsInjective
<1>7. Cardinality(S) <= Cardinality(P)
  <2> HIDE DEF f, P
  <2> QED
    BY <1>5, <1>6, FS_Injection
<1> QED
  BY <1>2, <1>5, <1>7, FS_CardinalityType

\* The sets that are counted are finite.
LEMMA CountSets ==
  ASSUME NEW r \in Requests
  PROVE  /\ IsFiniteSet(Counted(r)) /\ Cardinality(Counted(r)) \in Nat
         /\ IsFiniteSet(PastLimits(r)) /\ Cardinality(PastLimits(r)) \in Nat
         /\ Cardinality(Processed(request[r].who)) \in Nat
<1>1. Counted(r) \in SUBSET Requests /\ PastLimits(r) \in SUBSET Requests
  BY DEF Counted, PastLimits, Same
<1>2. {} \in SUBSET Same(r)
  OBVIOUS
<1>3. Cardinality(Processed(request[r].who)) \in Nat
  BY <1>2, OnePerProcess
<1> QED
  BY <1>1, <1>3, WithdrawalAssumption, FS_Subset, FS_CardinalityType

\* No call gets past the limits, and no row is counted that was not.
LEMMA CountStays ==
  ASSUME WIInv, UNCHANGED request,
         \A s \in Requests : at'[s] \in {"balance", "submit"} => at[s] \in {"balance", "submit"},
         \A s \in Requests : s \in recent' /\ payment'[s] \in {"open", "confirmed"} =>
           s \in recent /\ payment[s] \in {"open", "confirmed"}
  PROVE  CountRoom'
<1> SUFFICES ASSUME NEW r \in Requests
             PROVE  Cardinality(Counted(r)') + Cardinality(PastLimits(r)')
                      <= MaxDailyWithdrawals + Cardinality(Processed(request[r].who)) - 1
  BY DEF CountRoom, Processed
<1>1. PastLimits(r)' \in SUBSET PastLimits(r) /\ Counted(r)' \in SUBSET Counted(r)
  BY DEF PastLimits, Counted, Same
<1>2. /\ Cardinality(PastLimits(r)') <= Cardinality(PastLimits(r)) /\ Cardinality(PastLimits(r)') \in Nat
      /\ Cardinality(Counted(r)') <= Cardinality(Counted(r)) /\ Cardinality(Counted(r)') \in Nat
  BY <1>1, CountSets, FS_Subset, FS_CardinalityType
<1>3. Cardinality(Counted(r)) + Cardinality(PastLimits(r))
        <= MaxDailyWithdrawals + Cardinality(Processed(request[r].who)) - 1
  BY DEF WIInv, CountRoom
<1> QED
  BY <1>2, <1>3, CountSets, WithdrawalAssumption

\* A step of the calls alone, by which none comes further than its checks allow.
LEMMA CallsMove ==
  ASSUME WIInv, WithdrawalTypeOK', ChainOK', FirstRuns', CountRoom',
         UNCHANGED <<request, payment, recent, moved, funds>>,
         \A s \in Requests :
           /\ at'[s] \in {"idle", "queued", "limits", "balance", "submit"} => payment[s] = "none"
           /\ at'[s] = "refused" => payment[s] \in {"none", "failed"}
           /\ at'[s] = "done" => payment[s] = "confirmed"
           /\ at'[s] \in {"submitted", "settling"} => payment[s] # "none"
           /\ at'[s] \in {"limits", "balance", "submit"} =>
                at[s] \in {"limits", "balance", "submit"} \/ \A u \in Beside(s) : payment[u] # "open"
           /\ at'[s] = "submit" =>
                at[s] = "submit" \/ funds[request[s].who] >= request[s].amount
  PROVE  WIInv'
<1> USE DEF WIInv
<1>1. \A r : Beside(r)' = Beside(r) /\ Same(r)' = Same(r) /\ (Alone(r)' <=> Alone(r))
  BY DEF Beside, Same, Alone
<1>2. RowsOK'
  BY DEF RowsOK
<1>3. Checked' /\ OneRow'
  BY <1>1 DEF Checked, OneRow
<1>4. Backed'
  BY <1>1 DEF Backed
<1> QED
  BY <1>2, <1>3, <1>4

\* A call throws, as a refusal only before it has a row or because its row was rejected,
\* and takes its process with it.
LEMMA DieStep ==
  ASSUME WIInv, NEW r \in Requests, at[r] \in Ongoing, NEW a \in {"refused", "error"},
         a = "refused" => payment[r] \in {"none", "failed"},
         Die(request[r].proc, r, a), UNCHANGED <<request, payment, recent, moved, funds>>
  PROVE  WIInv'
<1> USE DEF WIInv
<1>1. /\ ChainOK' /\ FirstRuns'
      /\ at' \in [Requests -> Ongoing \cup {"idle", "settling", "done", "refused", "error", "dead"}]
      /\ \A s \in Requests : at'[s] \in Ongoing <=> s \in {Of(s)'[i] : i \in DOMAIN Of(s)'}
      /\ \A s \in Requests :
           at'[s] = at[s] \/ at'[s] = "dead" \/ (at'[s] = a /\ s = r)
  BY DieChains
<1>2. WithdrawalTypeOK'
  BY <1>1 DEF WithdrawalTypeOK
<1>3. CountRoom'
  BY <1>1, CountStays
<1>4. \A s \in Requests :
        /\ at'[s] \in {"idle", "queued", "limits", "balance", "submit"} => payment[s] = "none"
        /\ at'[s] = "refused" => payment[s] \in {"none", "failed"}
        /\ at'[s] = "done" => payment[s] = "confirmed"
        /\ at'[s] \in {"submitted", "settling"} => payment[s] # "none"
        /\ at'[s] \in {"limits", "balance", "submit"} => at[s] \in {"limits", "balance", "submit"}
        /\ at'[s] = "submit" => at[s] = "submit"
  BY <1>1 DEF RowsOK
<1> HIDE DEF WIInv
<1> QED
  BY <1>1, <1>2, <1>3, <1>4, CallsMove

LEMMA RefuseStep ==
  ASSUME WIInv, NEW r \in Requests, at[r] \in Ongoing \ {"submitted"}, Refuse(r)
  PROVE  WIInv'
<1>1. payment[r] = "none"
  BY DEF WIInv, RowsOK, Ongoing
<1>2. Die(request[r].proc, r, "refused") /\ UNCHANGED <<request, payment, recent, moved, funds>>
  BY DEF Refuse
<1> QED
  BY <1>1, <1>2, DieStep

\* A fault takes a call at any await.
LEMMA ThrowStep ==
  ASSUME WIInv, NEW r \in Requests, Throw(r)
  PROVE  WIInv'
<1>1. /\ at[r] \in Ongoing /\ Die(request[r].proc, r, "error")
      /\ UNCHANGED <<request, payment, recent, moved, funds>>
  BY DEF Throw
<1> QED
  BY <1>1, DieStep

\* The call at the head of its chain goes on to the next check.
LEMMA NextCheck ==
  ASSUME WIInv, NEW r \in Requests, NEW x \in Ongoing, OnTurn(r, x),
         NEW y \in {"limits", "balance", "submit"}, Proceed(r, y),
         UNCHANGED <<request, chain, payment, recent, moved, funds>>
  PROVE  /\ WithdrawalTypeOK' /\ ChainOK' /\ FirstRuns'
         /\ \A s \in Requests : at'[s] = IF s = r THEN y ELSE at[s]
<1> USE DEF WIInv
<1>1. \A s \in Requests : at'[s] = IF s = r THEN y ELSE at[s]
  BY DEF Proceed, WithdrawalTypeOK
<1>2. at' \in [Requests -> Ongoing \cup {"idle", "settling", "done", "refused", "error", "dead"}]
  BY DEF Proceed, WithdrawalTypeOK, Ongoing
<1>3. \A s \in Requests : at'[s] \in Ongoing <=> at[s] \in Ongoing
  BY <1>1 DEF OnTurn, Ongoing
<1>4. \A s \in Requests : at'[s] \in Ongoing \ {"queued"} => at[s] = at'[s] \/ Turn(s)
  BY <1>1 DEF OnTurn
<1>5. /\ ChainOK' /\ FirstRuns'
      /\ \A s \in Requests : at'[s] \in Ongoing <=> s \in {Of(s)'[i] : i \in DOMAIN Of(s)'}
  BY <1>2, <1>3, <1>4, ChainsStay
<1> QED
  BY <1>1, <1>2, <1>5 DEF WithdrawalTypeOK

LEMMA WithdrawStep ==
  ASSUME WIInv, NEW r \in Requests, Withdraw(r)
  PROVE  WIInv'
<1> USE DEF WIInv
<1>1. \A s \in Requests : at'[s] = IF s = r THEN "queued" ELSE at[s]
  BY DEF Withdraw, Proceed, WithdrawalTypeOK
<1>2. /\ ChainOK' /\ FirstRuns'
      /\ \A s \in Requests : at'[s] \in Ongoing <=> s \in {Of(s)'[i] : i \in DOMAIN Of(s)'}
  BY JoinChain DEF Withdraw
<1>3. WithdrawalTypeOK'
  BY <1>2 DEF Withdraw, Proceed, WithdrawalTypeOK, Ongoing
<1>4. CountRoom'
  BY <1>1, CountStays DEF Withdraw
<1>5. \A s \in Requests :
        /\ at'[s] \in {"idle", "queued", "limits", "balance", "submit"} => payment[s] = "none"
        /\ at'[s] = "refused" => payment[s] \in {"none", "failed"}
        /\ at'[s] = "done" => payment[s] = "confirmed"
        /\ at'[s] \in {"submitted", "settling"} => payment[s] # "none"
        /\ at'[s] \in {"limits", "balance", "submit"} => at[s] \in {"limits", "balance", "submit"}
        /\ at'[s] = "submit" => at[s] = "submit"
  BY <1>1 DEF Withdraw, RowsOK
<1> HIDE DEF WIInv
<1> QED
  BY <1>2, <1>3, <1>4, <1>5, CallsMove DEF Withdraw

LEMMA CheckUnsettledStep ==
  ASSUME WIInv, NEW r \in Requests, CheckUnsettled(r)
  PROVE  WIInv'
<1>1. CASE Refuse(r)
  BY <1>1, RefuseStep DEF CheckUnsettled, OnTurn, Ongoing
<1>2. CASE ~Refuse(r)
  <2>1. /\ OnTurn(r, "queued") /\ ~Unsettled(r) /\ Proceed(r, "limits")
        /\ UNCHANGED <<request, chain, payment, recent, moved, funds>>
    BY <1>2 DEF CheckUnsettled
  <2>2. /\ WithdrawalTypeOK' /\ ChainOK' /\ FirstRuns'
        /\ \A s \in Requests : at'[s] = IF s = r THEN "limits" ELSE at[s]
    BY <2>1, NextCheck DEF Ongoing
  <2>3. CountRoom'
    BY <2>1, <2>2, CountStays
  <2>4. \A u \in Beside(r) : payment[u] # "open"
    BY <2>1 DEF Unsettled, Beside
  <2>5. payment[r] = "none"
    BY <2>1 DEF WIInv, RowsOK, OnTurn
  <2>6. \A s \in Requests :
          /\ at'[s] \in {"idle", "queued", "limits", "balance", "submit"} => payment[s] = "none"
          /\ at'[s] = "refused" => payment[s] \in {"none", "failed"}
          /\ at'[s] = "done" => payment[s] = "confirmed"
          /\ at'[s] \in {"submitted", "settling"} => payment[s] # "none"
          /\ at'[s] \in {"limits", "balance", "submit"} =>
               at[s] \in {"limits", "balance", "submit"} \/ \A u \in Beside(s) : payment[u] # "open"
          /\ at'[s] = "submit" => at[s] = "submit"
    BY <2>2, <2>4, <2>5 DEF WIInv, RowsOK
  <2> QED
    BY <2>1, <2>2, <2>3, <2>6, CallsMove
<1> QED
  BY <1>1, <1>2

\* The limits: who passes them was not counted yet, and every process has at most
\* one withdrawal of the player beyond them.
LEMMA CheckLimitsStep ==
  ASSUME WIInv, NEW r \in Requests, CheckLimits(r)
  PROVE  WIInv'
<1>1. CASE Refuse(r)
  BY <1>1, RefuseStep DEF CheckLimits, OnTurn, Ongoing
<1>2. CASE ~Refuse(r)
  <2>1. /\ OnTurn(r, "limits") /\ ~OverLimit(r) /\ Proceed(r, "balance")
        /\ UNCHANGED <<request, chain, payment, recent, moved, funds>>
    BY <1>2 DEF CheckLimits
  <2>2. /\ WithdrawalTypeOK' /\ ChainOK' /\ FirstRuns'
        /\ \A s \in Requests : at'[s] = IF s = r THEN "balance" ELSE at[s]
    BY <2>1, NextCheck DEF Ongoing
  <2>3. CountRoom'
    <3> SUFFICES ASSUME NEW w \in Requests
                 PROVE  Cardinality(Counted(w)') + Cardinality(PastLimits(w)')
                          <= MaxDailyWithdrawals + Cardinality(Processed(request[w].who)) - 1
      BY <2>1 DEF CountRoom, Processed
    <3>1. Counted(w)' = Counted(w)
      BY <2>1 DEF Counted, Same
    <3>2. CASE w \in Same(r)
      <4>1. Counted(w) = Counted(r)
        BY <3>2 DEF Counted, Same
      <4>2. Cardinality(Counted(w)) < MaxDailyWithdrawals
        BY <2>1, <4>1, CountSets, WithdrawalAssumption DEF OverLimit
      <4>3. PastLimits(w)' \in SUBSET Same(w)
        BY <2>1 DEF PastLimits, Same
      <4>4. \A s, u \in PastLimits(w)' : request[s].proc = request[u].proc => s = u
        <5> SUFFICES ASSUME NEW s \in PastLimits(w)', NEW u \in PastLimits(w)',
                            request[s].proc = request[u].proc
                     PROVE  s = u
          OBVIOUS
        <5>1. s \in Requests /\ u \in Beside(s)
          BY <4>3 DEF Same, Beside
        <5>2. at[s] \in Ongoing \ {"queued"} /\ at[u] \in Ongoing \ {"queued"}
          BY <2>1, <2>2, <4>3 DEF PastLimits, OnTurn, Ongoing, Same
        <5> QED
          BY <5>1, <5>2, OneFirst DEF WIInv
      <4>5. Cardinality(PastLimits(w)') <= Cardinality(Processed(request[w].who))
            /\ Cardinality(PastLimits(w)') \in Nat
        BY <4>3, <4>4, OnePerProcess
      <4> QED
        BY <3>1, <4>2, <4>5, CountSets, WithdrawalAssumption
    <3>3. CASE w \notin Same(r)
      <4>1. PastLimits(w)' = PastLimits(w)
        BY <2>1, <2>2, <3>3 DEF PastLimits, Same
      <4> QED
        BY <3>1, <4>1 DEF WIInv, CountRoom
    <3> QED
      BY <3>2, <3>3
  <2>4. \A s \in Requests :
          /\ at'[s] \in {"idle", "queued", "limits", "balance", "submit"} => payment[s] = "none"
          /\ at'[s] = "refused" => payment[s] \in {"none", "failed"}
          /\ at'[s] = "done" => payment[s] = "confirmed"
          /\ at'[s] \in {"submitted", "settling"} => payment[s] # "none"
          /\ at'[s] \in {"limits", "balance", "submit"} => at[s] \in {"limits", "balance", "submit"}
          /\ at'[s] = "submit" => at[s] = "submit"
    BY <2>1, <2>2 DEF WIInv, RowsOK, OnTurn
  <2> QED
    BY <2>1, <2>2, <2>3, <2>4, CallsMove
<1> QED
  BY <1>1, <1>2

LEMMA CheckBalanceStep ==
  ASSUME WIInv, NEW r \in Requests, CheckBalance(r)
  PROVE  WIInv'
<1>1. CASE Refuse(r)
  BY <1>1, RefuseStep DEF CheckBalance, OnTurn, Ongoing
<1>2. CASE ~Refuse(r)
  <2>1. /\ OnTurn(r, "balance") /\ ~(funds[request[r].who] < request[r].amount)
        /\ Proceed(r, "submit")
        /\ UNCHANGED <<request, chain, payment, recent, moved, funds>>
    BY <1>2 DEF CheckBalance
  <2>2. /\ WithdrawalTypeOK' /\ ChainOK' /\ FirstRuns'
        /\ \A s \in Requests : at'[s] = IF s = r THEN "submit" ELSE at[s]
    BY <2>1, NextCheck DEF Ongoing
  <2>3. CountRoom'
    BY <2>1, <2>2, CountStays DEF OnTurn
  <2>4. funds[request[r].who] >= request[r].amount
    <3>1. funds[request[r].who] \in Nat /\ request[r].amount \in Nat
      BY Typed DEF WIInv, WithdrawalTypeOK
    <3> QED
      BY <2>1, <3>1
  <2>5. \A s \in Requests :
          /\ at'[s] \in {"idle", "queued", "limits", "balance", "submit"} => payment[s] = "none"
          /\ at'[s] = "refused" => payment[s] \in {"none", "failed"}
          /\ at'[s] = "done" => payment[s] = "confirmed"
          /\ at'[s] \in {"submitted", "settling"} => payment[s] # "none"
          /\ at'[s] \in {"limits", "balance", "submit"} => at[s] \in {"limits", "balance", "submit"}
          /\ at'[s] = "submit" =>
               at[s] = "submit" \/ funds[request[s].who] >= request[s].amount
    BY <2>1, <2>2, <2>4 DEF WIInv, RowsOK, OnTurn
  <2> QED
    BY <2>1, <2>2, <2>3, <2>5, CallsMove
<1> QED
  BY <1>1, <1>2

\* The row is created: the withdrawal is counted from now on.
LEMMA SubmitStep ==
  ASSUME WIInv, NEW r \in Requests, Submit(r)
  PROVE  WIInv'
<1> USE DEF WIInv
<1>1. /\ OnTurn(r, "submit") /\ at[r] = "submit" /\ payment[r] = "none"
      /\ UNCHANGED <<request, chain, moved, funds>> /\ recent' = recent \cup {r}
  BY DEF Submit, OnTurn, RowsOK
<1>2. /\ \A s \in Requests : at'[s] = IF s = r THEN "submitted" ELSE at[s]
      /\ \A s \in Requests : payment'[s] = IF s = r THEN "open" ELSE payment[s]
      /\ at' \in [Requests -> Ongoing \cup {"idle", "settling", "done", "refused", "error", "dead"}]
      /\ payment' \in [Requests -> {"none", "open", "confirmed", "failed"}]
  BY DEF Submit, Proceed, WithdrawalTypeOK, Ongoing
<1>3. /\ ChainOK' /\ FirstRuns'
      /\ \A s \in Requests : at'[s] \in Ongoing <=> s \in {Of(s)'[i] : i \in DOMAIN Of(s)'}
  <2>1. \A s \in Requests : at'[s] \in Ongoing <=> at[s] \in Ongoing
    BY <1>1, <1>2 DEF Ongoing
  <2>2. \A s \in Requests : at'[s] \in Ongoing \ {"queued"} => at[s] = at'[s] \/ Turn(s)
    BY <1>1, <1>2 DEF OnTurn
  <2> QED
    BY <1>1, <1>2, <2>1, <2>2, ChainsStay
<1>4. WithdrawalTypeOK'
  BY <1>1, <1>2, <1>3 DEF WithdrawalTypeOK
<1>5. RowsOK'
  BY <1>1, <1>2 DEF RowsOK
<1>6. \A s : Beside(s)' = Beside(s) /\ Same(s)' = Same(s) /\ (Alone(s)' <=> Alone(s))
  BY <1>1 DEF Beside, Same, Alone
<1>7. Checked'
  <2> SUFFICES ASSUME NEW s \in Requests, at'[s] \in {"limits", "balance", "submit"},
                      NEW u \in Beside(s)
               PROVE  payment'[u] # "open"
    BY <1>6 DEF Checked
  <2>1. s # r /\ at[s] \in {"limits", "balance", "submit"} /\ u \in Requests
    BY <1>2 DEF Beside, Same
  <2>2. u # r
    BY <1>1, <2>1, OneFirst DEF Ongoing
  <2> QED
    BY <1>2, <2>1, <2>2 DEF Checked
<1>8. OneRow'
  <2> SUFFICES ASSUME NEW s \in Requests, NEW u \in Beside(s),
                      payment'[s] = "open", payment'[u] = "open"
               PROVE  s = u
    BY <1>6 DEF OneRow
  <2>1. s \in Beside(u) /\ u \in Requests
    BY DEF Beside, Same
  <2> QED
    BY <1>1, <1>2, <2>1 DEF OneRow, Checked
<1>9. Backed'
  BY <1>1, <1>2, <1>6 DEF Backed
<1>10. CountRoom'
  <2> SUFFICES ASSUME NEW w \in Requests
               PROVE  Cardinality(Counted(w)') + Cardinality(PastLimits(w)')
                        <= MaxDailyWithdrawals + Cardinality(Processed(request[w].who)) - 1
    BY <1>1 DEF CountRoom, Processed
  <2>1. CASE w \in Same(r)
    <3>1. PastLimits(w)' = PastLimits(w) \ {r} /\ r \in PastLimits(w)
      BY <1>1, <1>2, <2>1 DEF PastLimits, Same
    <3>2. Counted(w)' = Counted(w) \cup {r}
      BY <1>1, <1>2, <2>1 DEF Counted, Same
    <3>3. Cardinality(PastLimits(w)') = Cardinality(PastLimits(w)) - 1
      BY <3>1, CountSets, FS_RemoveElement
    <3>4. Cardinality(Counted(w)') \in {Cardinality(Counted(w)), Cardinality(Counted(w)) + 1}
      BY <3>2, CountSets, FS_AddElement
    <3> QED
      BY <3>3, <3>4, CountSets, WithdrawalAssumption DEF CountRoom
  <2>2. CASE w \notin Same(r)
    <3>1. PastLimits(w)' = PastLimits(w) /\ Counted(w)' = Counted(w)
      BY <1>1, <1>2, <2>2 DEF PastLimits, Counted, Same
    <3> QED
      BY <3>1 DEF CountRoom
  <2> QED
    BY <2>1, <2>2
<1> QED
  BY <1>3, <1>4, <1>5, <1>7, <1>8, <1>9, <1>10

LEMMA ReturnStep ==
  ASSUME WIInv, NEW r \in Requests, Return(r)
  PROVE  WIInv'
<1>1. CASE Rejected(r) /\ Die(request[r].proc, r, "refused")
  BY <1>1, DieStep DEF Return, Rejected, OnTurn, Ongoing
<1>2. ASSUME NEW x \in {"settling", "done"}, Answer(r, x), x = "done" => payment[r] = "confirmed"
      PROVE  WIInv'
  <2>1. /\ at[r] = "submitted" /\ Proceed(r, x)
        /\ SetChain(r, Tail(Of(r))) /\ UNCHANGED <<request, payment, recent, moved, funds>>
    BY <1>2 DEF Return, OnTurn, Answer
  <2>2. /\ \A s \in Requests : at'[s] = IF s = r THEN x ELSE at[s]
        /\ at' \in [Requests -> Ongoing \cup {"idle", "settling", "done", "refused", "error", "dead"}]
    BY <2>1 DEF Proceed, WIInv, WithdrawalTypeOK
  <2>3. /\ ChainOK' /\ FirstRuns'
        /\ \A s \in Requests : at'[s] \in Ongoing <=> s \in {Of(s)'[i] : i \in DOMAIN Of(s)'}
    BY <2>1, LeaveChain DEF WIInv
  <2>4. WithdrawalTypeOK'
    BY <2>1, <2>2, <2>3 DEF WIInv, WithdrawalTypeOK
  <2>5. CountRoom'
    BY <2>1, <2>2, CountStays
  <2>6. payment[r] # "none"
    BY <2>1 DEF WIInv, RowsOK
  <2>7. \A s \in Requests :
          /\ at'[s] \in {"idle", "queued", "limits", "balance", "submit"} => payment[s] = "none"
          /\ at'[s] = "refused" => payment[s] \in {"none", "failed"}
          /\ at'[s] = "done" => payment[s] = "confirmed"
          /\ at'[s] \in {"submitted", "settling"} => payment[s] # "none"
          /\ at'[s] \in {"limits", "balance", "submit"} => at[s] \in {"limits", "balance", "submit"}
          /\ at'[s] = "submit" => at[s] = "submit"
    BY <1>2, <2>2, <2>6 DEF WIInv, RowsOK
  <2> QED
    BY <2>1, <2>3, <2>4, <2>5, <2>7, CallsMove
<1> QED
  BY <1>1, <1>2 DEF Return

\* The network pays, decides, or a day passes: only the funds that are moved change.
LEMMA NetworkSteps ==
  ASSUME WIInv, NEW r \in Requests, Move(r) \/ Settle(r) \/ Age(r)
  PROVE  WIInv'
<1> USE DEF WIInv
<1>1. UNCHANGED <<request, at, chain>>
  BY DEF Move, Settle, Age
<1>2. /\ \A s : Beside(s)' = Beside(s) /\ Same(s)' = Same(s) /\ (Alone(s)' <=> Alone(s))
      /\ \A s : Of(s)' = Of(s) /\ (Turn(s)' <=> Turn(s))
  BY <1>1 DEF Beside, Same, Alone, Of, Turn
<1>3. ChainOK' /\ FirstRuns'
  BY <1>1, <1>2 DEF ChainOK, FirstRuns
<1>4. WithdrawalTypeOK'
  <2>1. funds' \in [Players -> Nat]
    <3>1. CASE Move(r)
      <4>1. funds[request[r].who] \in Nat /\ request[r].amount \in Nat
            /\ funds[request[r].who] >= request[r].amount
        BY <3>1, Typed DEF Move, WithdrawalTypeOK
      <4>2. funds[request[r].who] - request[r].amount \in Nat
        BY <4>1
      <4> QED
        BY <3>1, <4>2 DEF Move, WithdrawalTypeOK
    <3>2. CASE ~Move(r)
      BY <3>2 DEF Settle, Age, WithdrawalTypeOK
    <3> QED
      BY <3>1, <3>2
  <2>2. payment' \in [Requests -> {"none", "open", "confirmed", "failed"}]
        /\ recent' \subseteq Requests /\ moved' \subseteq Requests
    BY DEF Move, Settle, Age, WithdrawalTypeOK
  <2> QED
    BY <1>1, <1>2, <2>1, <2>2 DEF WithdrawalTypeOK
<1>5. \A s \in Requests : payment'[s] = payment[s] \/ (payment[s] = "open" /\ s = r /\
        payment'[s] = IF r \in moved THEN "confirmed" ELSE "failed")
  BY DEF Move, Settle, Age, WithdrawalTypeOK
<1>6. RowsOK'
  <2>1. CASE Move(r)
    BY <2>1, <1>1 DEF RowsOK, Move
  <2>2. CASE Settle(r)
    BY <2>2, <1>1, <1>5 DEF RowsOK, Settle
  <2>3. CASE Age(r)
    BY <2>3, <1>1 DEF RowsOK, Age
  <2> QED
    BY <2>1, <2>2, <2>3
<1>7. \A s \in Requests : payment'[s] = "open" => payment[s] = "open"
  BY <1>5
<1>8. Checked' /\ OneRow'
  BY <1>1, <1>2, <1>7 DEF Checked, OneRow, Beside, Same
<1>9. CountRoom'
  <2>1. \A s \in Requests : s \in recent' /\ payment'[s] \in {"open", "confirmed"} =>
          s \in recent /\ payment[s] \in {"open", "confirmed"}
    BY <1>5 DEF Move, Settle, Age
  <2> QED
    BY <1>1, <2>1, CountStays
<1>10. Backed'
  <2> SUFFICES ASSUME NEW s \in Requests, Alone(s),
                      at[s] = "submit" \/ (payment'[s] = "open" /\ s \notin moved')
               PROVE  funds'[request[s].who] >= request[s].amount
    BY <1>1, <1>2 DEF Backed
  <2>1. at[s] = "submit" \/ (payment[s] = "open" /\ s \notin moved)
    BY <1>7 DEF Move, Settle, Age
  <2>2. funds[request[s].who] >= request[s].amount
    BY <2>1 DEF Backed
  <2>3. CASE Move(r) /\ request[s].who = request[r].who
    <3>1. r \in Beside(s) /\ payment[r] = "open"
      BY <2>3 DEF Move, Alone, Same, Beside
    <3>2. at[s] # "submit"
      BY <3>1 DEF Checked
    <3>3. s = r
      BY <2>1, <3>1, <3>2 DEF OneRow
    <3> QED
      BY <1>7, <2>3, <3>2, <3>3 DEF Move
  <2>4. CASE Move(r) /\ request[s].who # request[r].who
    <3>1. funds'[request[s].who] = funds[request[s].who]
      BY <2>4, Typed DEF Move, WithdrawalTypeOK
    <3> QED
      BY <2>2, <3>1
  <2>5. CASE ~Move(r)
    BY <2>2, <2>5 DEF Settle, Age
  <2> QED
    BY <2>3, <2>4, <2>5
<1> QED
  BY <1>3, <1>4, <1>6, <1>8, <1>9, <1>10

LEMMA WithdrawalInit == InitWithdrawal => WIInv
<1> SUFFICES ASSUME InitWithdrawal PROVE WIInv
  OBVIOUS
<1> USE DEF InitWithdrawal
<1>1. \A r \in Requests : at[r] = "idle" /\ payment[r] = "none"
  OBVIOUS
<1>2. \A r \in Requests : Of(r) = <<>>
  <2> TAKE r \in Requests
  <2>1. request \in [Requests -> [who : Players, proc : Processes, amount : Amounts]]
    BY WithdrawalAssumption
  <2> QED
    BY <2>1 DEF Of
<1>3. WithdrawalTypeOK
  BY <1>2, WithdrawalAssumption DEF WithdrawalTypeOK, Ongoing
<1>4. ChainOK
  <2>1. <<>> \in Seq(Requests)
    OBVIOUS
  <2> QED
    BY <2>1 DEF ChainOK
<1>5. FirstRuns /\ RowsOK /\ Checked /\ OneRow /\ Backed
  BY <1>1 DEF FirstRuns, RowsOK, Checked, OneRow, Backed, Ongoing, Beside, Same
<1>6. CountRoom
  <2> SUFFICES ASSUME NEW r \in Requests
               PROVE  Cardinality(Counted(r)) + Cardinality(PastLimits(r))
                        <= MaxDailyWithdrawals + Cardinality(Processed(request[r].who)) - 1
    BY DEF CountRoom
  <2>1. Counted(r) = {} /\ PastLimits(r) = {}
    BY <1>1 DEF Counted, PastLimits, Same
  <2>2. {r} \in SUBSET Same(r)
    BY DEF Same
  <2>3. Cardinality({r}) <= Cardinality(Processed(request[r].who))
        /\ Cardinality(Processed(request[r].who)) \in Nat
    BY <2>2, OnePerProcess
  <2>4. Cardinality({}) = 0 /\ Cardinality({r}) = 1
    BY FS_EmptySet, FS_Singleton
  <2>5. MaxDailyWithdrawals \in Nat
    BY WithdrawalAssumption
  <2>6. Cardinality(Counted(r)) = 0 /\ Cardinality(PastLimits(r)) = 0
    BY <2>1, <2>4
  <2> QED
    BY <2>3, <2>4, <2>5, <2>6
<1> QED
  BY <1>3, <1>4, <1>5, <1>6 DEF WIInv

LEMMA WithdrawalStays == WIInv /\ [NextWithdrawal]_withdrawalVars => WIInv'
<1> SUFFICES ASSUME WIInv, [NextWithdrawal]_withdrawalVars PROVE WIInv'
  OBVIOUS
<1>1. CASE UNCHANGED withdrawalVars
  BY <1>1 DEF withdrawalVars, WIInv, WithdrawalTypeOK, ChainOK, FirstRuns, RowsOK, Checked,
     OneRow, Backed, CountRoom, Of, Turn, Beside, Same, Alone, Counted, PastLimits, Processed
<1>2. ASSUME NEW r \in Requests, Withdraw(r) PROVE WIInv'
  BY <1>2, WithdrawStep
<1>3. ASSUME NEW r \in Requests, WithdrawalStep(r) PROVE WIInv'
  BY <1>3, CheckUnsettledStep, CheckLimitsStep, CheckBalanceStep, SubmitStep, ReturnStep
     DEF WithdrawalStep
<1>4. ASSUME NEW r \in Requests, Throw(r) PROVE WIInv'
  BY <1>4, ThrowStep
<1>5. ASSUME NEW r \in Requests, Move(r) \/ Settle(r) \/ Age(r) PROVE WIInv'
  BY <1>5, NetworkSteps
<1> QED
  BY <1>1, <1>2, <1>3, <1>4, <1>5 DEF NextWithdrawal

\* The inductive invariant of the withdrawals holds in every reachable state.
THEOREM WithdrawalInvariant == SpecWithdrawal => []WIInv
BY WithdrawalInit, WithdrawalStays, PTL DEF SpecWithdrawal

\* Set comprehensions with one element at most.
LEMMA AtMostOne ==
  ASSUME NEW S, \A x, y \in S : x = y
  PROVE  IsFiniteSet(S) /\ Cardinality(S) <= 1
<1>1. CASE S = {}
  BY <1>1, FS_EmptySet
<1>2. CASE S # {}
  <2>1. PICK x : x \in S
    BY <1>2
  <2>2. S = {x}
    BY <2>1
  <2>3. IsFiniteSet({x}) /\ Cardinality({x}) = 1
    BY FS_Singleton
  <2> QED
    BY <2>2, <2>3
<1> QED
  BY <1>1, <1>2

LEMMA OpenOnce == ASSUME WIInv PROVE OneOpen
<1> SUFFICES ASSUME NEW p \in Players, NEW q \in Processes PROVE Cardinality(Open(p, q)) <= 1
  BY DEF OneOpen
<1>1. \A r, s \in Open(p, q) : r = s
  BY DEF Open, WIInv, OneRow, Beside, Same
<1> QED
  BY <1>1, AtMostOne

\* A player whose calls one process serves is alone there.
LEMMA ServedByOne ==
  ASSUME NEW r \in Requests, Cardinality(Processed(request[r].who)) = 1
  PROVE  Alone(r)
<1> DEFINE P == Processed(request[r].who)
<1>1. IsFiniteSet(P)
  <2>1. {} \in SUBSET Same(r)
    OBVIOUS
  <2> QED
    BY <2>1, OnePerProcess
<1>2. \A s \in Same(r) : request[s].proc \in P
  BY DEF Processed, Same
<1>3. r \in Same(r) /\ Cardinality(P) = 1
  BY DEF Same
<1> HIDE DEF P
<1>4. PICK x : P = {x}
  BY <1>1, <1>3, FS_Singleton
<1> QED
  BY <1>2, <1>3, <1>4 DEF Alone

\* What a process does for a player at once is backed by the player's funds, a day's
\* withdrawals are as many as the limit says plus one for every other process, and
\* callers who are refused, or told of a payment, are told what is true, whichever await
\* fails: for any players, processes, limits and funds.
THEOREM WithdrawalIsSafe == SpecWithdrawal => []WithdrawalInv
<1>1. ASSUME WIInv PROVE WithdrawalInv
  <2>1. Funded
    BY <1>1, ServedByOne DEF WIInv, Funded, Backed
  <2>2. DailyCount
    <3> SUFFICES ASSUME NEW r \in Requests
                 PROVE  Cardinality(Counted(r))
                          <= MaxDailyWithdrawals + Cardinality(Processed(request[r].who)) - 1
      BY DEF DailyCount
    <3>1. Cardinality(Counted(r)) + Cardinality(PastLimits(r))
            <= MaxDailyWithdrawals + Cardinality(Processed(request[r].who)) - 1
      BY <1>1 DEF WIInv, CountRoom
    <3>2. MaxDailyWithdrawals \in Nat
      BY WithdrawalAssumption
    <3> QED
      BY <3>1, <3>2, CountSets
  <2>3. AnswersAreTrue
    BY <1>1 DEF WIInv, AnswersAreTrue, RowsOK
  <2>4. WithdrawalTypeOK
    BY <1>1 DEF WIInv
  <2> QED
    BY <1>1, <2>1, <2>2, <2>3, <2>4, OpenOnce DEF WithdrawalInv
<1> QED
  BY <1>1, WithdrawalInvariant, PTL

-----------------------------------------------------------------------------
(* What a player takes in a day.                                           *)

\* There is a greatest amount: without one Max(Amounts) means nothing.
AmountsBounded == \E m \in Amounts : \A n \in Amounts : n <= m

\* What every process but one may have let pass beyond the limit.
Beyond(r) == (Cardinality(Processed(request[r].who)) - 1) * Max(Amounts)

\* The sum has the room that the number has.
SumRoom == \A r \in Requests :
  Usdc(Counted(r)) + Usdc(PastLimits(r)) <= MaxDailyUsdc + Beyond(r)

LEMMA MostIsAsked ==
  ASSUME AmountsBounded
  PROVE  Max(Amounts) \in Nat /\ \A n \in Amounts : n <= Max(Amounts)
<1>1. Amounts \subseteq Nat
  BY WithdrawalAssumption
<1>2. PICK m \in Amounts : \A n \in Amounts : n <= m
  BY DEF AmountsBounded
<1>3. m \in Nat /\ \A n \in Amounts : m >= n
  BY <1>1, <1>2
<1>4. Max(Amounts) \in Amounts /\ \A n \in Amounts : Max(Amounts) >= n
  BY <1>3 DEF Max
<1> QED
  BY <1>1, <1>4

LEMMA BeyondIs ==
  ASSUME AmountsBounded, NEW r \in Requests
  PROVE  /\ Beyond(r) \in Nat /\ MaxDailyUsdc \in Nat
         /\ \E n \in Nat : Cardinality(Processed(request[r].who)) = n + 1 /\ Beyond(r) = n * Max(Amounts)
<1>1. {r} \in SUBSET Same(r)
  BY DEF Same
<1>2. Cardinality({r}) <= Cardinality(Processed(request[r].who))
      /\ Cardinality(Processed(request[r].who)) \in Nat
  BY <1>1, OnePerProcess
<1>3. Cardinality({r}) = 1
  BY FS_Singleton
<1>4. PICK n \in Nat : Cardinality(Processed(request[r].who)) = n + 1
  <2>1. Cardinality(Processed(request[r].who)) - 1 \in Nat
    BY <1>2, <1>3
  <2> QED
    BY <1>2, <2>1
<1>5. PICK m \in Nat : Max(Amounts) = m
  BY MostIsAsked
<1>6. n * m \in Nat
  BY Products
<1>7. Beyond(r) = n * m
  <2>1. Cardinality(Processed(request[r].who)) - 1 = n
    BY <1>4
  <2> QED
    BY <1>5, <2>1 DEF Beyond
<1> QED
  BY <1>4, <1>5, <1>6, <1>7, WithdrawalAssumption

LEMMA WithdrawalWeights ==
  ASSUME WithdrawalTypeOK
  PROVE  Weights(AmountOf, Requests) /\ \A r \in Requests : AmountOf[r] = request[r].amount
BY Typed, WithdrawalAssumption DEF Weights, AmountOf

LEMMA OneMoreAsked ==
  ASSUME WithdrawalTypeOK, NEW r \in Requests, NEW S \in SUBSET Requests, r \notin S
  PROVE  /\ SumOf(AmountOf, S \cup {r}) = SumOf(AmountOf, S) + AmountOf[r]
         /\ SumOf(AmountOf, S) \in Nat /\ AmountOf[r] \in Nat
<1>1. Weights(AmountOf, Requests) /\ IsFiniteSet(S)
  BY WithdrawalWeights, WithdrawalAssumption, FS_Subset
<1>2. \A s \in Requests : AmountOf[s] \in Nat
  BY <1>1 DEF Weights
<1>3. \A s \in S \cup {r} : AmountOf[s] \in Nat
  BY <1>2
<1>4. SumOf(AmountOf, S \cup {r}) = AmountOf[r] + SumOf(AmountOf, S)
  BY <1>1, <1>3, SumAdd
<1>5. SumOf(AmountOf, S) \in Nat /\ AmountOf[r] \in Nat
  BY <1>1, <1>3, SumType
<1> QED
  BY <1>4, <1>5

LEMMA AmountsAsked ==
  ASSUME WithdrawalTypeOK, NEW r \in Requests
  PROVE  AmountOf[r] \in Amounts
<1>1. request \in [Requests -> [who : Players, proc : Processes, amount : Amounts]]
  BY WithdrawalAssumption DEF WithdrawalTypeOK
<1> QED
  BY <1>1 DEF AmountOf

\* The room of a step that counts and lets pass nothing new.
LEMMA RoomStays ==
  ASSUME AmountsBounded, WIInv, SumRoom, UNCHANGED request,
         \A r \in Requests : PastLimits(r)' \in SUBSET PastLimits(r) /\ Counted(r)' \in SUBSET Counted(r)
  PROVE  SumRoom'
<1> SUFFICES ASSUME NEW r \in Requests
             PROVE  SumOf(AmountOf, Counted(r)') + SumOf(AmountOf, PastLimits(r)') <= MaxDailyUsdc + Beyond(r)
  BY DEF SumRoom, Usdc, AmountOf, Beyond, Processed
<1>1. /\ IsFiniteSet(Counted(r)) /\ IsFiniteSet(PastLimits(r))
      /\ Counted(r) \in SUBSET Requests /\ PastLimits(r) \in SUBSET Requests
  BY CountSets DEF Counted, PastLimits, Same
<1>2. \A s \in Requests : AmountOf[s] \in Nat
  BY WithdrawalWeights DEF WIInv, Weights
<1>3. SumOf(AmountOf, Counted(r)') <= SumOf(AmountOf, Counted(r))
      /\ SumOf(AmountOf, PastLimits(r)') <= SumOf(AmountOf, PastLimits(r))
  <2>1. (\A s \in Counted(r) : AmountOf[s] \in Nat) /\ (\A s \in PastLimits(r) : AmountOf[s] \in Nat)
    BY <1>1, <1>2
  <2> QED
    BY <1>1, <2>1, SumPart
<1>4. SumOf(AmountOf, Counted(r)) \in Nat /\ SumOf(AmountOf, PastLimits(r)) \in Nat
  BY <1>1, <1>2, SumType
<1>5. Counted(r)' \in SUBSET Requests /\ PastLimits(r)' \in SUBSET Requests
  BY <1>1
<1>6. IsFiniteSet(Counted(r)') /\ IsFiniteSet(PastLimits(r)')
  BY <1>5, WithdrawalAssumption, FS_Subset
<1>7. SumOf(AmountOf, Counted(r)') \in Nat /\ SumOf(AmountOf, PastLimits(r)') \in Nat
  BY <1>2, <1>5, <1>6, SumType
<1>8. SumOf(AmountOf, Counted(r)) + SumOf(AmountOf, PastLimits(r)) <= MaxDailyUsdc + Beyond(r)
  BY DEF SumRoom, Usdc
<1>9. Beyond(r) \in Int /\ MaxDailyUsdc \in Nat
  BY BeyondIs
<1> QED
  BY <1>3, <1>4, <1>7, <1>8, <1>9

\* The limits: what passes them fits beside what was counted, and what the other
\* processes have let pass is one withdrawal each.
LEMMA LimitsRoom ==
  ASSUME AmountsBounded, WIInv, SumRoom, NEW r \in Requests, CheckLimits(r), ~Refuse(r)
  PROVE  SumRoom'
<1>1. /\ OnTurn(r, "limits") /\ ~OverLimit(r) /\ Proceed(r, "balance")
      /\ UNCHANGED <<request, chain, payment, recent, moved, funds>>
  BY DEF CheckLimits
<1>2. \A s \in Requests : at'[s] = IF s = r THEN "balance" ELSE at[s]
  BY <1>1, NextCheck DEF Ongoing
<1> SUFFICES ASSUME NEW w \in Requests
             PROVE  SumOf(AmountOf, Counted(w)') + SumOf(AmountOf, PastLimits(w)') <= MaxDailyUsdc + Beyond(w)
  BY <1>1 DEF SumRoom, Usdc, AmountOf, Beyond, Processed
<1>3. Counted(w)' = Counted(w) /\ PastLimits(w)' \in SUBSET Same(w)
  BY <1>1 DEF Counted, PastLimits, Same
<1>4. CASE w \in Same(r)
  <2>1. Counted(w) = Counted(r) /\ r \in Same(w)
    BY <1>4 DEF Counted, Same
  <2>2. PastLimits(w)' = PastLimits(w) \cup {r} /\ r \notin PastLimits(w)
    BY <1>1, <1>2, <2>1 DEF PastLimits, Same, OnTurn
  <2>3. \A s, u \in PastLimits(w)' : request[s].proc = request[u].proc => s = u
    <3> SUFFICES ASSUME NEW s \in PastLimits(w)', NEW u \in PastLimits(w)',
                        request[s].proc = request[u].proc
                 PROVE  s = u
      OBVIOUS
    <3>1. s \in Requests /\ u \in Beside(s)
      BY <1>3 DEF Same, Beside
    <3>2. at[s] \in Ongoing \ {"queued"} /\ at[u] \in Ongoing \ {"queued"}
      BY <1>1, <1>2, <1>3 DEF PastLimits, OnTurn, Ongoing, Same
    <3> QED
      BY <3>1, <3>2, OneFirst DEF WIInv
  <2>4. Cardinality(PastLimits(w)') <= Cardinality(Processed(request[w].who))
        /\ Cardinality(PastLimits(w)') \in Nat
    BY <1>3, <2>3, OnePerProcess
  <2>5. PICK n \in Nat : Cardinality(Processed(request[w].who)) = n + 1 /\ Beyond(w) = n * Max(Amounts)
    BY BeyondIs
  <2>6. PICK m \in Nat : Max(Amounts) = m
    BY MostIsAsked
  <2>7. PICK c \in Nat : Cardinality(PastLimits(w)) = c
    BY CountSets
  <2>8. c <= n
    <3>1. Cardinality(PastLimits(w)') = c + 1
      BY <2>2, <2>7, CountSets, FS_AddElement
    <3> QED
      BY <2>4, <2>5, <3>1
  <2>9. Weights(AmountOf, Requests) /\ \A s \in Requests : AmountOf[s] <= m
    BY <2>6, WithdrawalWeights, AmountsAsked, MostIsAsked DEF WIInv
  <2>10. PastLimits(w) \in SUBSET Requests /\ Counted(r) \in SUBSET Requests
    BY DEF PastLimits, Counted, Same
  <2>11. SumOf(AmountOf, PastLimits(w)) <= c * m
    BY <2>7, <2>9, <2>10, SumCapped
  <2>12. PICK p \in Nat : p = c * m
    BY Products
  <2>13. PICK b \in Nat : b = n * m
    BY Products
  <2>14. p <= b
    BY <2>8, <2>12, <2>13, LessTimes
  <2>15. SumOf(AmountOf, PastLimits(w)') = SumOf(AmountOf, PastLimits(w)) + AmountOf[r]
         /\ SumOf(AmountOf, PastLimits(w)) \in Nat /\ AmountOf[r] \in Nat
    <3>1. SumOf(AmountOf, PastLimits(w) \cup {r}) = SumOf(AmountOf, PastLimits(w)) + AmountOf[r]
          /\ SumOf(AmountOf, PastLimits(w)) \in Nat /\ AmountOf[r] \in Nat
      BY <2>2, <2>10, OneMoreAsked DEF WIInv
    <3> QED
      BY <2>2, <3>1
  <2>16. SumOf(AmountOf, Counted(r)) \in Nat
    BY <2>9, <2>10, SumGains
  <2>17. SumOf(AmountOf, Counted(r)) + AmountOf[r] <= MaxDailyUsdc
    <3>1. ~(Usdc(Counted(r)) + request[r].amount > MaxDailyUsdc)
      BY <1>1 DEF OverLimit
    <3>2. request[r].amount = AmountOf[r] /\ MaxDailyUsdc \in Nat
      BY WithdrawalAssumption DEF AmountOf
    <3> QED
      BY <2>15, <2>16, <3>1, <3>2 DEF Usdc
  <2>18. Beyond(w) = b /\ MaxDailyUsdc \in Nat
    BY <2>5, <2>6, <2>13, WithdrawalAssumption
  <2>19. SumOf(AmountOf, Counted(w)') = SumOf(AmountOf, Counted(r))
    BY <1>3, <2>1
  <2> QED
    BY <2>11, <2>12, <2>14, <2>15, <2>16, <2>17, <2>18, <2>19
<1>5. CASE w \notin Same(r)
  <2>1. PastLimits(w)' = PastLimits(w)
    BY <1>1, <1>2, <1>5 DEF PastLimits, Same
  <2> QED
    BY <1>3, <2>1 DEF SumRoom, Usdc
<1> QED
  BY <1>4, <1>5

\* The row is created: what had passed the limits is counted.
LEMMA SubmitRoom ==
  ASSUME AmountsBounded, WIInv, SumRoom, NEW r \in Requests, Submit(r)
  PROVE  SumRoom'
<1>1. /\ at[r] = "submit" /\ payment[r] = "none"
      /\ UNCHANGED <<request, chain, moved, funds>> /\ recent' = recent \cup {r}
  BY DEF Submit, OnTurn, WIInv, RowsOK
<1>2. /\ \A s \in Requests : at'[s] = IF s = r THEN "submitted" ELSE at[s]
      /\ \A s \in Requests : payment'[s] = IF s = r THEN "open" ELSE payment[s]
  BY DEF Submit, Proceed, WIInv, WithdrawalTypeOK
<1> SUFFICES ASSUME NEW w \in Requests
             PROVE  SumOf(AmountOf, Counted(w)') + SumOf(AmountOf, PastLimits(w)') <= MaxDailyUsdc + Beyond(w)
  BY <1>1 DEF SumRoom, Usdc, AmountOf, Beyond, Processed
<1>3. SumOf(AmountOf, Counted(w)) + SumOf(AmountOf, PastLimits(w)) <= MaxDailyUsdc + Beyond(w)
  BY DEF SumRoom, Usdc
<1>4. CASE w \in Same(r)
  <2>1. PastLimits(w)' = PastLimits(w) \ {r} /\ r \in PastLimits(w)
    BY <1>1, <1>2, <1>4 DEF PastLimits, Same
  <2>2. Counted(w)' = Counted(w) \cup {r} /\ r \notin Counted(w)
    BY <1>1, <1>2, <1>4 DEF Counted, Same
  <2>3. Weights(AmountOf, Requests) /\ PastLimits(w) \in SUBSET Requests /\ Counted(w) \in SUBSET Requests
    BY WithdrawalWeights DEF WIInv, PastLimits, Counted, Same
  <2>4. SumOf(AmountOf, PastLimits(w)') = SumOf(AmountOf, PastLimits(w)) - AmountOf[r]
        /\ SumOf(AmountOf, PastLimits(w)) \in Nat /\ AmountOf[r] \in Nat
    <3>1. SumOf(AmountOf, PastLimits(w) \ {r}) = SumOf(AmountOf, PastLimits(w)) - AmountOf[r]
          /\ SumOf(AmountOf, PastLimits(w)) \in Nat /\ AmountOf[r] \in Nat
      <4>1. r \in PastLimits(w) /\ r \in Requests
        BY <2>1
      <4> QED
        BY <2>3, <4>1, SumGains
    <3> QED
      BY <2>1, <3>1
  <2>5. SumOf(AmountOf, Counted(w)') = SumOf(AmountOf, Counted(w)) + AmountOf[r]
        /\ SumOf(AmountOf, Counted(w)) \in Nat
    BY <2>2, <2>3, SumGains
  <2> QED
    BY <1>3, <2>4, <2>5
<1>5. CASE w \notin Same(r)
  <2>1. PastLimits(w)' = PastLimits(w) /\ Counted(w)' = Counted(w)
    BY <1>1, <1>2, <1>5 DEF PastLimits, Counted, Same
  <2> QED
    BY <1>3, <2>1
<1> QED
  BY <1>4, <1>5

LEMMA RoomKeeps ==
  ASSUME AmountsBounded, WIInv, SumRoom, [NextWithdrawal]_withdrawalVars
  PROVE  SumRoom'
<1>1. CASE UNCHANGED withdrawalVars
  <2>1. \A r \in Requests : PastLimits(r)' \in SUBSET PastLimits(r) /\ Counted(r)' \in SUBSET Counted(r)
    BY <1>1 DEF withdrawalVars, PastLimits, Counted, Same
  <2> QED
    BY <1>1, <2>1, RoomStays DEF withdrawalVars
<1>2. ASSUME NEW r \in Requests, UNCHANGED <<request, payment, recent, moved, funds>>,
             \A s \in Requests : at'[s] \in {"balance", "submit"} => at[s] \in {"balance", "submit"}
      PROVE  SumRoom'
  <2>1. \A w \in Requests : PastLimits(w)' \in SUBSET PastLimits(w) /\ Counted(w)' \in SUBSET Counted(w)
    BY <1>2 DEF PastLimits, Counted, Same
  <2> QED
    BY <1>2, <2>1, RoomStays
<1>3. ASSUME NEW r \in Requests, NEW a \in {"refused", "error"}, Die(request[r].proc, r, a),
             UNCHANGED <<request, payment, recent, moved, funds>>
      PROVE  SumRoom'
  <2>1. \A s \in Requests : at'[s] \in {"balance", "submit"} => at[s] \in {"balance", "submit"}
    BY <1>3 DEF Die
  <2> QED
    BY <1>2, <1>3, <2>1
<1>4. ASSUME NEW r \in Requests, Refuse(r) PROVE SumRoom'
  BY <1>3, <1>4 DEF Refuse
<1>5. ASSUME NEW r \in Requests, NEW x, Proceed(r, x),
             x \notin {"balance", "submit"} \/ at[r] \in {"balance", "submit"},
             UNCHANGED <<request, payment, recent, moved, funds>>
      PROVE  SumRoom'
  <2>1. \A s \in Requests : at'[s] \in {"balance", "submit"} => at[s] \in {"balance", "submit"}
    BY <1>5 DEF Proceed, WIInv, WithdrawalTypeOK
  <2> QED
    BY <1>2, <1>5, <2>1
<1>6. ASSUME NEW r \in Requests, Withdraw(r) PROVE SumRoom'
  <2>1. Proceed(r, "queued") /\ UNCHANGED <<request, payment, recent, moved, funds>>
    BY <1>6 DEF Withdraw
  <2> QED
    BY <1>5, <2>1
<1>7. ASSUME NEW r \in Requests, CheckUnsettled(r) PROVE SumRoom'
  <2>1. CASE Refuse(r)
    BY <1>4, <2>1
  <2>2. CASE ~Refuse(r)
    <3>1. Proceed(r, "limits") /\ UNCHANGED <<request, payment, recent, moved, funds>>
      BY <1>7, <2>2 DEF CheckUnsettled
    <3> QED
      BY <1>5, <3>1
  <2> QED
    BY <2>1, <2>2
<1>8. ASSUME NEW r \in Requests, CheckLimits(r) PROVE SumRoom'
  BY <1>4, <1>8, LimitsRoom
<1>9. ASSUME NEW r \in Requests, CheckBalance(r) PROVE SumRoom'
  <2>1. CASE Refuse(r)
    BY <1>4, <2>1
  <2>2. CASE ~Refuse(r)
    <3>1. Proceed(r, "submit") /\ at[r] = "balance" /\ UNCHANGED <<request, payment, recent, moved, funds>>
      BY <1>9, <2>2 DEF CheckBalance, OnTurn
    <3> QED
      BY <1>5, <3>1
  <2> QED
    BY <2>1, <2>2
<1>10. ASSUME NEW r \in Requests, Return(r) PROVE SumRoom'
  <2>1. UNCHANGED <<request, payment, recent, moved, funds>>
    BY <1>10 DEF Return
  <2>2. CASE Die(request[r].proc, r, "refused")
    BY <1>3, <2>1, <2>2
  <2>3. ASSUME NEW x \in {"settling", "done"}, Answer(r, x) PROVE SumRoom'
    <3>1. Proceed(r, x) /\ x \notin {"balance", "submit"}
      BY <2>3 DEF Answer
    <3> QED
      BY <1>5, <2>1, <3>1
  <2> QED
    BY <1>10, <2>2, <2>3 DEF Return
<1>11. ASSUME NEW r \in Requests, Throw(r) PROVE SumRoom'
  BY <1>3, <1>11 DEF Throw
<1>12. ASSUME NEW r \in Requests, Move(r) \/ Settle(r) \/ Age(r) PROVE SumRoom'
  <2>1. UNCHANGED <<request, at>>
    BY <1>12 DEF Move, Settle, Age
  <2>2. \A s \in Requests : s \in recent' /\ payment'[s] \in {"open", "confirmed"} =>
          s \in recent /\ payment[s] \in {"open", "confirmed"}
    BY <1>12 DEF Move, Settle, Age, WIInv, WithdrawalTypeOK
  <2>3. \A w \in Requests : PastLimits(w)' \in SUBSET PastLimits(w) /\ Counted(w)' \in SUBSET Counted(w)
    BY <2>1, <2>2 DEF PastLimits, Counted, Same
  <2> QED
    BY <2>1, <2>3, RoomStays
<1> QED
  BY <1>1, <1>6, <1>7, <1>8, <1>9, <1>10, <1>11, <1>12, SubmitRoom DEF NextWithdrawal, WithdrawalStep

LEMMA RoomFirst ==
  ASSUME AmountsBounded, InitWithdrawal
  PROVE  SumRoom
<1> SUFFICES ASSUME NEW r \in Requests
             PROVE  SumOf(AmountOf, Counted(r)) + SumOf(AmountOf, PastLimits(r)) <= MaxDailyUsdc + Beyond(r)
  BY DEF SumRoom, Usdc
<1>1. Counted(r) = {} /\ PastLimits(r) = {}
  BY DEF InitWithdrawal, Counted, PastLimits, Same
<1>2. SumOf(AmountOf, Counted(r)) = 0 /\ SumOf(AmountOf, PastLimits(r)) = 0
  BY <1>1, SumEmpty
<1>3. Beyond(r) \in Nat /\ MaxDailyUsdc \in Nat
  BY BeyondIs
<1> QED
  BY <1>2, <1>3

LEMMA RoomBoundsSum ==
  ASSUME AmountsBounded, WIInv, SumRoom
  PROVE  DailySum
<1> SUFFICES ASSUME NEW r \in Requests
             PROVE  Usdc(Counted(r)) <= MaxDailyUsdc + Beyond(r)
  BY DEF DailySum, Beyond
<1>1. Usdc(Counted(r)) + Usdc(PastLimits(r)) <= MaxDailyUsdc + Beyond(r)
  BY DEF SumRoom
<1>2. Counted(r) \in SUBSET Requests /\ PastLimits(r) \in SUBSET Requests /\ Weights(AmountOf, Requests)
  BY WithdrawalWeights DEF Counted, PastLimits, Same, WIInv
<1>3. SumOf(AmountOf, Counted(r)) \in Nat /\ SumOf(AmountOf, PastLimits(r)) \in Nat
  BY <1>2, SumGains
<1>4. Beyond(r) \in Nat /\ MaxDailyUsdc \in Nat
  BY BeyondIs
<1> QED
  BY <1>1, <1>3, <1>4 DEF Usdc

\* The USDC a player withdraws in a day stays within the limit, but for one withdrawal
\* that each process besides may let pass at the same time: for any players, processes,
\* requests and limits.
THEOREM DailySumIsCapped ==
  ASSUME AmountsBounded
  PROVE  SpecWithdrawal => []DailySum
<1>1. InitWithdrawal => WIInv /\ SumRoom
  BY WithdrawalInit, RoomFirst
<1>2. (WIInv /\ SumRoom) /\ [NextWithdrawal]_withdrawalVars => (WIInv /\ SumRoom)'
  BY WithdrawalStays, RoomKeeps
<1>3. WIInv /\ SumRoom => DailySum
  BY RoomBoundsSum
<1> QED
  BY <1>1, <1>2, <1>3, PTL DEF SpecWithdrawal

-----------------------------------------------------------------------------
(* Driving: what is measured from a car, first the gates.                  *)

LastGate == Laps * Gates
Gap == L \div Gates

LEMMA Distances ==
  /\ Gates \in Nat \ {0} /\ L \in Nat \ {0} /\ Laps \in Nat \ {0}
  /\ Gap \in Nat \ {0} /\ L = Gates * Gap /\ LastGate \in Nat
<1>1. Gates \in Nat \ {0} /\ L \in Nat \ {0} /\ Laps \in Nat \ {0} /\ L % Gates = 0
  BY DrivingAssumption
<1>2. L = Gates * (L \div Gates) + (L % Gates)
  BY <1>1
<1>3. (L \div Gates) \in Nat
  BY <1>1
<1>4. L = Gates * Gap
  BY <1>1, <1>2, <1>3 DEF Gap
<1>5. Gap # 0
  <2> SUFFICES ASSUME Gap = 0 PROVE FALSE
    OBVIOUS
  <2>1. L = Gates * 0
    BY <1>4
  <2> QED
    BY <1>1, <2>1
<1> QED
  BY <1>1, <1>3, <1>4, <1>5 DEF LastGate, Gap

LEMMA TargetIs ==
  ASSUME NEW h \in Nat
  PROVE  Target(h) = (h + 1) * Gap
<1>1. PICK q \in Nat, r \in Nat : q = h \div Gates /\ r = h % Gates /\ h = Gates * q + r
  <2>1. (h \div Gates) \in Nat /\ (h % Gates) \in Nat /\ h = Gates * (h \div Gates) + (h % Gates)
    BY Distances
  <2> QED
    BY <2>1
<1>2. Target(h) = q * L + (r + 1) * Gap
  BY <1>1 DEF Target, Gap
<1>3. L = Gates * Gap /\ Gates \in Nat /\ Gap \in Nat
  BY Distances
<1>4. q * (Gates * Gap) + (r + 1) * Gap = (Gates * q + r + 1) * Gap
  BY <1>3
<1> QED
  BY <1>1, <1>2, <1>3, <1>4

\* Where the loop over the gates ends.
Stops(p, h) == ~(h < LastGate /\ p >= Target(h))
FirstStop(p, h, k) == k \in h..LastGate /\ Stops(p, k) /\ \A j \in h..k - 1 : ~Stops(p, j)

LEMMA StopsOnce ==
  ASSUME NEW p, NEW h \in 0..LastGate
  PROVE  /\ \E k \in 0..LastGate : FirstStop(p, h, k)
         /\ \A k, m \in 0..LastGate : FirstStop(p, h, k) /\ FirstStop(p, h, m) => k = m
<1>0. LastGate \in Nat
  BY Distances
<1>1. \E k \in 0..LastGate : FirstStop(p, h, k)
  <2> DEFINE T == {k \in h..LastGate : Stops(p, k)}
  <2>1. T \in SUBSET Nat /\ LastGate \in T
    BY <1>0 DEF Stops
  <2>2. PICK k \in T : \A m \in T : k <= m
    BY <2>1, LeastOf
  <2> QED
    BY <1>0, <2>2 DEF FirstStop
<1>2. \A k, m \in 0..LastGate : FirstStop(p, h, k) /\ FirstStop(p, h, m) => k = m
  BY <1>0 DEF FirstStop
<1> QED
  BY <1>1, <1>2

LoopBody(p, f) == [h \in 0..LastGate |-> IF h < LastGate /\ p >= Target(h) THEN f[h + 1] ELSE h]

LEMMA CrossedDef ==
  ASSUME NEW p, NEW g
  PROVE  Crossed(p, g) = (CHOOSE f : f = LoopBody(p, f))[g]
BY DEF Crossed, LoopBody, LastGate

\* The loop over the gates stops at the first that is not reached.
LEMMA LoopEnds ==
  ASSUME NEW p, NEW g \in 0..LastGate
  PROVE  Crossed(p, g) \in 0..LastGate /\ FirstStop(p, g, Crossed(p, g))
<1>0. LastGate \in Nat
  BY Distances
<1> DEFINE ends == [h \in 0..LastGate |-> CHOOSE k \in 0..LastGate : FirstStop(p, h, k)]
           loop == CHOOSE f : f = LoopBody(p, f)
<1>1. \A h \in 0..LastGate : ends[h] \in 0..LastGate /\ FirstStop(p, h, ends[h])
  BY StopsOnce
<1> HIDE DEF ends
<1>2. ASSUME NEW h \in 0..LastGate
      PROVE  ends[h] = IF h < LastGate /\ p >= Target(h) THEN ends[h + 1] ELSE h
  <2>1. CASE Stops(p, h)
    <3>1. FirstStop(p, h, h)
      BY <1>0, <2>1 DEF FirstStop
    <3> QED
      BY <1>1, <2>1, <3>1, StopsOnce DEF Stops
  <2>2. CASE ~Stops(p, h)
    <3>1. h < LastGate /\ h + 1 \in 0..LastGate
      BY <1>0, <2>2 DEF Stops
    <3>2. FirstStop(p, h + 1, ends[h + 1]) /\ ends[h + 1] \in 0..LastGate
      BY <1>1, <3>1
    <3>3. FirstStop(p, h, ends[h + 1])
      BY <1>0, <2>2, <3>1, <3>2 DEF FirstStop
    <3> QED
      BY <1>1, <2>2, <3>1, <3>2, <3>3, StopsOnce DEF Stops
  <2> QED
    BY <2>1, <2>2
<1>3. ends = LoopBody(p, ends)
  <2>1. ends = [h \in 0..LastGate |-> ends[h]]
    BY DEF ends
  <2> QED
    BY <1>2, <2>1 DEF LoopBody
<1>4. loop = LoopBody(p, loop)
  BY <1>3
<1> HIDE DEF loop
<1>5. \A h \in 0..LastGate : loop[h] = IF h < LastGate /\ p >= Target(h) THEN loop[h + 1] ELSE h
  BY <1>4 DEF LoopBody
<1>6. PICK r \in 0..LastGate : FirstStop(p, g, r)
  BY StopsOnce
<1>7. loop[g] = r
  <2> DEFINE T == {n \in Nat : n <= r - g /\ loop[r - n] # r}
  <2>1. ASSUME T # {} PROVE FALSE
    <3>1. PICK n \in T : \A m \in T : n <= m
      BY <2>1, LeastOf
    <3>2. n \in Nat /\ n <= r - g /\ loop[r - n] # r /\ r - n \in g..r /\ g \in Nat /\ r \in Nat
      BY <1>0, <1>6, <3>1
    <3>3. CASE n = 0
      <4>1. loop[r] = r
        BY <1>5, <1>6 DEF FirstStop, Stops
      <4> QED
        BY <3>2, <3>3, <4>1
    <3>4. CASE n # 0
      <4>1. PICK h \in 0..LastGate : h = r - n /\ h \in g..r - 1
        BY <1>0, <1>6, <3>2, <3>4
      <4>2. loop[h] = loop[h + 1]
        BY <1>5, <1>6, <4>1 DEF FirstStop, Stops
      <4>3. n - 1 \in Nat /\ n - 1 <= r - g /\ r - (n - 1) = h + 1
        BY <3>2, <3>4, <4>1
      <4>4. n - 1 \in T
        BY <3>2, <4>1, <4>2, <4>3
      <4> QED
        BY <3>1, <3>2, <4>4
    <3> QED
      BY <3>3, <3>4
  <2>2. r - g \in Nat
    BY <1>0, <1>6 DEF FirstStop
  <2>3. ~(r - g \in T)
    BY <2>1
  <2>4. r - (r - g) = g
    BY <1>0
  <2> QED
    BY <2>2, <2>3, <2>4
<1> QED
  BY <1>6, <1>7, CrossedDef DEF loop

\* The gates up to the furthest progress, and no other, are crossed.
GateAt(g, far) ==
  /\ g \in 0..LastGate /\ far \in Nat
  /\ g * Gap <= far
  /\ g = LastGate \/ far < (g + 1) * Gap

LEMMA Orders ==
  ASSUME NEW a \in Nat, NEW b \in Nat, a < b
  PROVE  (a + 1) * Gap <= b * Gap /\ a * Gap \in Nat /\ b * Gap \in Nat
<1>1. PICK d \in Nat : b = a + 1 + d
  <2>1. b - a - 1 \in Nat /\ b = a + 1 + (b - a - 1)
    OBVIOUS
  <2> QED
    BY <2>1
<1>2. Gap \in Nat
  BY Distances
<1>3. d * Gap \in Nat /\ (a + 1 + d) * Gap = (a + 1) * Gap + d * Gap
  BY <1>2
<1> QED
  BY <1>1, <1>2, <1>3

LEMMA GatesMove ==
  ASSUME NEW g, NEW far, GateAt(g, far), NEW p \in Int
  PROVE  GateAt(Crossed(p, g), IF p > far THEN p ELSE far)
<1>0. LastGate \in Nat /\ Gap \in Nat /\ g \in 0..LastGate /\ far \in Nat
  BY Distances DEF GateAt
<1>1. PICK k \in 0..LastGate : k = Crossed(p, g) /\ FirstStop(p, g, k)
  BY <1>0, LoopEnds
<1>2. PICK top \in Nat : top = (IF p > far THEN p ELSE far) /\ top >= p /\ top >= far /\ top \in {p, far}
  BY <1>0
<1>3. k >= g /\ k <= LastGate
  BY <1>0, <1>1 DEF FirstStop
<1>4. k = LastGate \/ p < (k + 1) * Gap
  <2>1. Stops(p, k)
    BY <1>1 DEF FirstStop
  <2>2. (k + 1) * Gap \in Nat
    BY <1>0
  <2> QED
    BY <1>0, <1>3, <2>1, <2>2, TargetIs DEF Stops
<1>5. CASE k = g
  BY <1>0, <1>1, <1>2, <1>4, <1>5 DEF GateAt
<1>6. CASE k > g
  <2>1. k - 1 \in g..k - 1 /\ k - 1 \in Nat
    BY <1>0, <1>6
  <2>2. ~Stops(p, k - 1)
    BY <1>1, <2>1 DEF FirstStop
  <2>3. p >= k * Gap
    <3>1. Target(k - 1) = (k - 1 + 1) * Gap
      BY <2>1, TargetIs
    <3>2. k - 1 + 1 = k
      BY <1>0
    <3> QED
      BY <2>2, <3>1, <3>2 DEF Stops
  <2>4. (g + 1) * Gap <= k * Gap /\ k * Gap \in Nat /\ far < (g + 1) * Gap /\ (g + 1) * Gap \in Nat
    BY <1>0, <1>3, <1>6, Orders DEF GateAt
  <2>5. top = p
    BY <1>2, <2>3, <2>4
  <2>6. k * Gap <= top /\ (k = LastGate \/ top < (k + 1) * Gap)
    BY <1>2, <1>4, <2>3, <2>5
  <2> QED
    BY <1>1, <1>2, <2>6 DEF GateAt
<1> QED
  BY <1>0, <1>3, <1>5, <1>6

\* Which is what the formula says.
LEMMA GateFormula ==
  ASSUME NEW g, NEW far, GateAt(g, far)
  PROVE  /\ g = Lesser((far * Gates) \div L, Laps * Gates)
         /\ g = Laps * Gates <=> far >= Laps * L
<1>0. /\ LastGate \in Nat /\ Gap \in Nat \ {0} /\ g \in Nat /\ g <= LastGate /\ far \in Nat
      /\ Gates \in Nat \ {0} /\ L = Gates * Gap /\ L \in Nat \ {0} /\ Laps \in Nat /\ LastGate = Laps * Gates
  BY Distances DEF GateAt, LastGate
<1>1. Laps * L = LastGate * Gap
  BY <1>0
<1>2. g = LastGate <=> far >= LastGate * Gap
  <2>1. CASE g = LastGate
    BY <2>1 DEF GateAt
  <2>2. CASE g # LastGate
    <3>1. (g + 1) * Gap <= LastGate * Gap /\ LastGate * Gap \in Nat /\ far < (g + 1) * Gap /\ (g + 1) * Gap \in Nat
      BY <1>0, <2>2, Orders DEF GateAt
    <3> QED
      BY <1>0, <2>2, <3>1
  <2> QED
    BY <2>1, <2>2
<1>3. PICK q \in Nat : q = (far * Gates) \div L /\ q * L <= far * Gates /\ far * Gates < (q + 1) * L
  <2>1. far * Gates \in Nat
    BY <1>0
  <2>2. \A a \in Nat : (a \div L) \in Nat /\ (a \div L) * L <= a /\ a < ((a \div L) + 1) * L
    BY <1>0
  <2> QED
    BY <2>1, <2>2
<1>4. q * Gap <= far /\ far < (q + 1) * Gap
  <2>1. q * L = (q * Gap) * Gates /\ (q + 1) * L = ((q + 1) * Gap) * Gates
    BY <1>0
  <2>2. \A a, b \in Nat : a * Gates <= b * Gates => a <= b
    BY <1>0
  <2>3. \A a, b \in Nat : a * Gates < b * Gates => a < b
    BY <1>0
  <2>4. q * Gap \in Nat /\ (q + 1) * Gap \in Nat
    BY <1>0
  <2> QED
    BY <1>0, <1>3, <2>1, <2>2, <2>3, <2>4
<1>5. g * Gap <= far /\ (g = LastGate \/ far < (g + 1) * Gap)
  BY DEF GateAt
<1>6. g <= q
  <2> SUFFICES ASSUME q < g PROVE FALSE
    BY <1>0
  <2>1. (q + 1) * Gap <= g * Gap /\ g * Gap \in Nat /\ (q + 1) * Gap \in Nat
    BY <1>0, Orders
  <2> QED
    BY <1>0, <1>4, <1>5, <2>1
<1>7. g = LastGate \/ g = q
  <2> SUFFICES ASSUME g # LastGate, g < q PROVE FALSE
    BY <1>0, <1>6
  <2>1. (g + 1) * Gap <= q * Gap /\ q * Gap \in Nat /\ (g + 1) * Gap \in Nat
    BY <1>0, Orders
  <2> QED
    BY <1>0, <1>4, <1>5, <2>1
<1> QED
  BY <1>0, <1>1, <1>2, <1>3, <1>6, <1>7 DEF Lesser

-----------------------------------------------------------------------------
(* Progress.                                                               *)

LEMMA AroundIsShort ==
  ASSUME NEW s \in 0..L - 1, NEW t \in 0..L - 1, NEW d \in -MaxDs..MaxDs
  PROVE  /\ Clamped(Around(s - t)) \in -MaxDs..MaxDs
         /\ s = (t + d) % L => Clamped(Around(s - t)) = d
<1>1. L \in Nat \ {0} /\ MaxDs \in Nat /\ 2 * MaxDs < L
  BY DrivingAssumption
<1>2. Around(s - t) \in Int
  BY <1>1 DEF Around
<1>3. Clamped(Around(s - t)) \in -MaxDs..MaxDs
  BY <1>1, <1>2 DEF Clamped
<1>4. ASSUME s = (t + d) % L PROVE Clamped(Around(s - t)) = d
  <2>1. s = t + d \/ s = t + d - L \/ s = t + d + L
    <3>1. PICK e \in Int : e = t + d /\ -L < e /\ e < 2 * L
      BY <1>1
    <3>2. \A x \in Int : 0 <= x /\ x < L => x % L = x
      BY <1>1
    <3>3. \A x \in Int : L <= x /\ x < 2 * L => x % L = x - L
      BY <1>1
    <3>4. \A x \in Int : -L < x /\ x < 0 => x % L = x + L
      BY <1>1
    <3> QED
      BY <1>1, <1>4, <3>1, <3>2, <3>3, <3>4
  <2>2. Around(s - t) = d
    BY <1>1, <2>1 DEF Around
  <2> QED
    BY <1>1, <2>2 DEF Clamped
<1> QED
  BY <1>3, <1>4

ProgOK ==
  /\ prog \in [gate : Nat, p : Int, lastS : 0..L - 1, finished : BOOLEAN]
  /\ ticks \in Nat /\ odo \in Int /\ jumps \in Nat /\ high \in Nat
  /\ GateAt(prog.gate, high)
  /\ prog.finished <=> prog.gate = LastGate
  /\ ProgressIsDriven

LEMMA Added ==
  ASSUME NEW m \in Nat, NEW n \in Nat
  PROVE  2 * m * (n + 1) = 2 * m * n + 2 * m /\ m * (n + 1) = m * n + m
         /\ 2 * m * n \in Nat /\ m * n \in Nat
OBVIOUS

LEMMA ProgressStep ==
  ASSUME ProgOK, NEW d \in -MaxDs..MaxDs, NEW s \in Closest(d), prog' = Progressed(s),
         ticks' = ticks + 1, odo' = odo + d,
         jumps' = IF s = (prog.lastS + d) % L THEN jumps ELSE jumps + 1,
         high' = IF prog'.p > high THEN prog'.p ELSE high
  PROVE  ProgOK'
<1>1. L \in Nat \ {0} /\ MaxDs \in Nat /\ s \in 0..L - 1 /\ prog.lastS \in 0..L - 1 /\ prog.p \in Int
      /\ LastGate \in Nat
  BY DrivingAssumption, Distances DEF Closest, ProgOK
<1>2. PICK e \in -MaxDs..MaxDs : e = Clamped(Around(s - prog.lastS)) /\ (s = (prog.lastS + d) % L => e = d)
  BY <1>1, AroundIsShort
<1>3. PICK p \in Int : p = prog.p + e
  BY <1>1
<1>4. PICK g \in 0..LastGate : g = Crossed(p, prog.gate) /\ GateAt(g, IF p > high THEN p ELSE high)
  <2>1. GateAt(prog.gate, high)
    BY DEF ProgOK
  <2>2. GateAt(Crossed(p, prog.gate), IF p > high THEN p ELSE high)
    BY <2>1, GatesMove
  <2> QED
    BY <2>2 DEF GateAt
<1>5. PICK f \in BOOLEAN : f <=> g = LastGate
  OBVIOUS
<1>6. prog' = [gate |-> g, p |-> p, lastS |-> s, finished |-> g = LastGate]
  BY <1>2, <1>3, <1>4 DEF Progressed, LastGate
<1>7. prog'.gate = g /\ prog'.p = p /\ (prog'.finished <=> g = LastGate)
  <2>1. prog' = [gate |-> g, p |-> p, lastS |-> s, finished |-> f]
    BY <1>5, <1>6
  <2>2. prog'.gate = g /\ prog'.p = p /\ prog'.finished = f
    BY <2>1
  <2> QED
    BY <1>5, <2>2
<1>8. prog' \in [gate : Nat, p : Int, lastS : 0..L - 1, finished : BOOLEAN]
  <2>1. prog' = [gate |-> g, p |-> p, lastS |-> s, finished |-> f]
    BY <1>5, <1>6
  <2> QED
    BY <1>1, <2>1
<1>9. ticks \in Nat /\ odo \in Int /\ jumps \in Nat /\ high \in Nat
      /\ prog.p - odo <= 2 * MaxDs * jumps /\ odo - prog.p <= 2 * MaxDs * jumps /\ prog.p <= MaxDs * ticks
  BY DEF ProgOK, ProgressIsDriven
<1>10. PICK a \in Nat, b \in Nat : /\ a = 2 * MaxDs * jumps /\ 2 * MaxDs * (jumps + 1) = a + 2 * MaxDs
                                   /\ b = MaxDs * ticks /\ MaxDs * (ticks + 1) = b + MaxDs
  BY <1>1, <1>9, Added
<1>11. ProgressIsDriven'
  <2>1. prog'.p - odo' = (prog.p - odo) + (e - d) /\ e - d <= 2 * MaxDs /\ d - e <= 2 * MaxDs /\ e <= MaxDs
    BY <1>1, <1>2, <1>3, <1>7, <1>9
  <2>2. p <= MaxDs * ticks'
    BY <1>1, <1>2, <1>3, <1>9, <1>10
  <2>3. CASE s = (prog.lastS + d) % L
    <3>1. e = d /\ jumps' = jumps
      BY <1>2, <2>3
    <3>2. prog'.p - odo' <= a /\ odo' - prog'.p <= a
      BY <1>1, <1>3, <1>7, <1>9, <1>10, <3>1
    <3> QED
      BY <1>7, <1>10, <2>2, <3>1, <3>2 DEF ProgressIsDriven
  <2>4. CASE s # (prog.lastS + d) % L
    <3>1. jumps' = jumps + 1
      BY <2>4
    <3>2. prog'.p - odo' <= a + 2 * MaxDs /\ odo' - prog'.p <= a + 2 * MaxDs
      BY <1>1, <1>3, <1>7, <1>9, <1>10, <2>1
    <3> QED
      BY <1>7, <1>10, <2>2, <3>1, <3>2 DEF ProgressIsDriven
  <2> QED
    BY <2>3, <2>4
<1>12. high' \in Nat /\ GateAt(prog'.gate, high')
  BY <1>4, <1>7, <1>9 DEF GateAt
<1>13. ticks' \in Nat /\ odo' \in Int /\ jumps' \in Nat
  BY <1>1, <1>9
<1> QED
  BY <1>7, <1>8, <1>11, <1>12, <1>13 DEF ProgOK

-----------------------------------------------------------------------------
(* Drift and nitro.                                                        *)

CarSet == [bottles : 0..Bottles, nitro : 0..BoostTicks, charge : 0..PerBottle, chain : Nat, score : Nat,
           grace : 0..GraceTicks - 1, drifting : BOOLEAN]

\* From one car to the next: points are kept, and a bottle is filled for its price.
Fills(c, e) == (e.bottles - c.bottles) * PerBottle + e.charge <= c.charge + (e.score - c.score)
Keeps(c, e, points) ==
  /\ e \in CarSet /\ e.nitro = c.nitro
  /\ e.score + e.chain = c.score + c.chain + points
  /\ Fills(c, e)

LEMMA Numbers ==
  /\ PerBottle \in Nat \ {0} /\ Bottles \in Nat /\ BoostTicks \in Nat /\ GraceTicks \in Nat \ {0}
  /\ MaxSlide \in Nat
BY DrivingAssumption

LEMMA DroppedKeeps ==
  ASSUME NEW c \in CarSet
  PROVE  Keeps(c, Dropped(c), 0 - c.chain) /\ Dropped(c).chain = 0
<1>1. 0 \in 0..GraceTicks - 1
  BY Numbers
<1>2. /\ Dropped(c) \in CarSet /\ Dropped(c).nitro = c.nitro /\ Dropped(c).score = c.score /\ Dropped(c).chain = 0
      /\ Dropped(c).bottles = c.bottles /\ Dropped(c).charge = c.charge
  BY <1>1 DEF Dropped, CarSet
<1>3. c.score \in Nat /\ c.chain \in Nat /\ c.charge \in Nat /\ c.bottles \in Nat
  BY Numbers DEF CarSet
<1>4. Fills(c, Dropped(c))
  BY <1>2, <1>3, Numbers DEF Fills
<1> QED
  BY <1>2, <1>3, <1>4 DEF Keeps

IsPaid(c, e, t, b, r) ==
  e \in CarSet /\ e.nitro = c.nitro /\ e.score = t /\ e.chain = 0 /\ e.bottles = b /\ e.charge = r

LEMMA PaidOut ==
  ASSUME NEW c \in CarSet, NEW t \in Nat, NEW b \in 0..Bottles, NEW r \in 0..PerBottle, NEW e,
         e = [c EXCEPT !.score = t, !.bottles = b, !.charge = r, !.chain = 0, !.grace = 0, !.drifting = FALSE]
  PROVE  IsPaid(c, e, t, b, r)
<1>1. 0 \in 0..GraceTicks - 1 /\ 0 \in Nat
  BY Numbers
<1>2. e \in CarSet
  BY <1>1 DEF CarSet
<1>3. e.nitro = c.nitro /\ e.score = t /\ e.chain = 0
  BY DEF CarSet
<1>4. e.bottles = b /\ e.charge = r
  BY DEF CarSet
<1> QED
  BY <1>2, <1>3, <1>4 DEF IsPaid

LEMMA BankedKeeps ==
  ASSUME NEW c \in CarSet
  PROVE  Keeps(c, Banked(c), 0) /\ Banked(c).chain = 0
<1>0. /\ 0 \in 0..GraceTicks - 1 /\ c.score \in Nat /\ c.chain \in Nat /\ c.charge \in 0..PerBottle
      /\ c.bottles \in 0..Bottles /\ PerBottle \in Nat \ {0} /\ Bottles \in Nat
  BY Numbers DEF CarSet
<1>1. CASE c.chain = 0
  <2>1. Banked(c) = [c EXCEPT !.grace = 0, !.drifting = FALSE]
    BY <1>1 DEF Banked
  <2>2. /\ Banked(c) \in CarSet /\ Banked(c).nitro = c.nitro /\ Banked(c).score = c.score /\ Banked(c).chain = 0
        /\ Banked(c).bottles = c.bottles /\ Banked(c).charge = c.charge
    BY <1>0, <1>1, <2>1 DEF CarSet
  <2>3. Fills(c, Banked(c))
    BY <1>0, <2>2 DEF Fills
  <2> QED
    BY <1>0, <1>1, <2>2, <2>3 DEF Keeps
<1>2. CASE c.chain # 0
  <2>1. PICK charge \in Nat : charge = c.charge + c.chain
    BY <1>0
  <2>2. PICK q \in Nat : q = charge \div PerBottle /\ q * PerBottle <= charge /\ charge < (q + 1) * PerBottle
    <3>1. (charge \div PerBottle) \in Nat /\ (charge \div PerBottle) * PerBottle <= charge
          /\ charge < ((charge \div PerBottle) + 1) * PerBottle
      BY <1>0, <2>1
    <3> QED
      BY <3>1
  <2>3. PICK filled \in Nat : filled = Filled(charge, c.bottles) /\ filled <= q /\ filled <= Bottles - c.bottles
                              /\ filled \in {q, Bottles - c.bottles}
    BY <1>0, <2>2 DEF Filled, Lesser
  <2>4. PICK paid \in Nat : paid = filled * PerBottle /\ paid <= charge
                            /\ (filled = q => charge - paid < PerBottle)
    <3>1. PICK m \in Nat : q = filled + m
      <4>1. q - filled \in Nat /\ q = filled + (q - filled)
        BY <2>3
      <4> QED
        BY <4>1
    <3>2. filled * PerBottle \in Nat /\ m * PerBottle \in Nat /\ (filled + m) * PerBottle = filled * PerBottle + m * PerBottle
          /\ (q + 1) * PerBottle = q * PerBottle + PerBottle
      BY <1>0
    <3>3. filled * PerBottle <= charge
      BY <1>0, <2>2, <3>1, <3>2
    <3>4. filled = q => charge - filled * PerBottle < PerBottle
      BY <1>0, <2>2, <3>2
    <3> QED
      BY <3>2, <3>3, <3>4
  <2>5. PICK rest \in 0..PerBottle :
          /\ rest <= charge - paid
          /\ rest = IF c.bottles + filled >= Bottles THEN Lesser(charge - paid, PerBottle) ELSE charge - paid
    <3>1. charge - paid \in Nat
      BY <2>4
    <3>2. CASE c.bottles + filled >= Bottles
      <4>1. Lesser(charge - paid, PerBottle) \in 0..PerBottle /\ Lesser(charge - paid, PerBottle) <= charge - paid
        BY <1>0, <3>1 DEF Lesser
      <4> QED
        BY <3>2, <4>1
    <3>3. CASE ~(c.bottles + filled >= Bottles)
      BY <1>0, <2>3, <2>4, <3>1, <3>3
    <3> QED
      BY <3>2, <3>3
  <2>6. Banked(c) = [c EXCEPT !.score = @ + c.chain, !.bottles = @ + filled, !.charge = rest,
                              !.chain = 0, !.grace = 0, !.drifting = FALSE]
    BY <1>2, <2>1, <2>3, <2>4, <2>5 DEF Banked
  <2>7. PICK total \in Nat, bottles \in 0..Bottles : total = c.score + c.chain /\ bottles = c.bottles + filled
    BY <1>0, <2>3
  <2>8. Banked(c) = [c EXCEPT !.score = total, !.bottles = bottles, !.charge = rest,
                              !.chain = 0, !.grace = 0, !.drifting = FALSE]
    BY <2>6, <2>7
  <2>9. /\ Banked(c) \in CarSet /\ Banked(c).nitro = c.nitro /\ Banked(c).score = total /\ Banked(c).chain = 0
        /\ Banked(c).bottles = bottles /\ Banked(c).charge = rest
    <3>1. total \in Nat /\ bottles \in 0..Bottles /\ rest \in 0..PerBottle
      BY <2>5, <2>7
    <3>2. IsPaid(c, Banked(c), total, bottles, rest)
      BY <2>8, <3>1, PaidOut, Zenon
    <3> QED
      BY <3>2 DEF IsPaid
  <2>10. Fills(c, Banked(c))
    <3>1. bottles - c.bottles = filled /\ total - c.score = c.chain
      BY <1>0, <2>7
    <3>2. (bottles - c.bottles) * PerBottle = paid
      BY <2>4, <3>1
    <3> QED
      BY <1>0, <2>1, <2>4, <2>5, <2>9, <3>1, <3>2 DEF Fills
  <2> QED
    BY <1>0, <2>7, <2>9, <2>10 DEF Keeps
<1> QED
  BY <1>1, <1>2

LEMMA BoostedKeeps ==
  ASSUME NEW c \in CarSet, NEW fires \in BOOLEAN
  PROVE  LET e == Boosted(c, fires)
         IN /\ e \in CarSet /\ e.score = c.score /\ e.chain = c.chain /\ e.charge = c.charge
            /\ e.bottles \in {c.bottles, c.bottles - 1} /\ e.grace = c.grace /\ e.drifting = c.drifting
<1>0. c.bottles \in 0..Bottles /\ c.nitro \in 0..BoostTicks /\ Bottles \in Nat /\ BoostTicks \in Nat
  BY Numbers DEF CarSet
<1>1. CASE fires /\ CanBoost(c)
  <2>1. Boosted(c, fires) = [c EXCEPT !.bottles = @ - 1, !.nitro = BoostTicks]
    BY <1>1 DEF Boosted
  <2>2. c.bottles - 1 \in 0..Bottles /\ BoostTicks \in 0..BoostTicks
    BY <1>0, <1>1 DEF CanBoost
  <2> QED
    BY <2>1, <2>2 DEF CarSet
<1>2. CASE ~(fires /\ CanBoost(c))
  <2>1. Boosted(c, fires) = [c EXCEPT !.nitro = IF @ = 0 THEN 0 ELSE @ - 1]
    BY <1>2 DEF Boosted
  <2>2. (IF c.nitro = 0 THEN 0 ELSE c.nitro - 1) \in 0..BoostTicks
    BY <1>0
  <2> QED
    BY <2>1, <2>2 DEF CarSet
<1> QED
  BY <1>1, <1>2

LEMMA Itself ==
  ASSUME NEW c \in CarSet
  PROVE  Keeps(c, c, 0)
BY Numbers DEF CarSet, Keeps, Fills

LEMMA SlidKeeps ==
  ASSUME NEW c \in CarSet, NEW slip \in Slips
  PROVE  Keeps(c, Slid(c, slip), slip.points - (IF slip.kind = "spin" THEN c.chain ELSE 0))
<1>0. /\ slip.kind \in {"window", "spin", "grip"} /\ slip.points \in Nat
      /\ slip.kind # "window" => slip.points = 0
      /\ c.score \in Nat /\ c.chain \in Nat /\ c.charge \in Nat /\ c.bottles \in Nat /\ c.grace \in 0..GraceTicks - 1
  BY Numbers DEF Slips, CarSet
<1>1. CASE slip.kind = "window"
  <2>1. PICK e : e = [c EXCEPT !.drifting = TRUE, !.grace = 0, !.chain = @ + slip.points] /\ e = Slid(c, slip)
    BY <1>1 DEF Slid
  <2>2. c.chain + slip.points \in Nat /\ 0 \in 0..GraceTicks - 1
    BY <1>0, Numbers
  <2>3. /\ e \in CarSet /\ e.nitro = c.nitro /\ e.score = c.score /\ e.chain = c.chain + slip.points
        /\ e.bottles = c.bottles /\ e.charge = c.charge
    BY <2>1, <2>2 DEF CarSet
  <2> QED
    BY <1>0, <1>1, <2>1, <2>3, Numbers DEF Keeps, Fills
<1>2. CASE slip.kind = "spin"
  <2>1. Slid(c, slip) = Dropped(c)
    BY <1>2 DEF Slid
  <2>2. slip.points - c.chain = 0 - c.chain
    BY <1>0, <1>2
  <2> QED
    BY <1>2, <2>1, <2>2, DroppedKeeps
<1>3. CASE slip.kind = "grip"
  <2>1. slip.points - 0 = 0
    BY <1>0, <1>3
  <2>2. Slid(c, slip) = IF c.drifting \/ c.chain > 0
                        THEN IF c.grace + 1 >= GraceTicks THEN Banked(c) ELSE [c EXCEPT !.grace = @ + 1]
                        ELSE c
    BY <1>3 DEF Slid
  <2>3. c.grace + 1 >= GraceTicks \/ Keeps(c, [c EXCEPT !.grace = @ + 1], 0)
    <3> SUFFICES ASSUME ~(c.grace + 1 >= GraceTicks) PROVE Keeps(c, [c EXCEPT !.grace = @ + 1], 0)
      OBVIOUS
    <3>1. c.grace + 1 \in 0..GraceTicks - 1
      BY <1>0, Numbers
    <3>2. PICK e : e = [c EXCEPT !.grace = @ + 1]
      OBVIOUS
    <3>3. /\ e \in CarSet /\ e.nitro = c.nitro /\ e.score = c.score /\ e.chain = c.chain
          /\ e.bottles = c.bottles /\ e.charge = c.charge
      BY <3>1, <3>2 DEF CarSet
    <3> QED
      BY <1>0, <3>2, <3>3, Numbers DEF Keeps, Fills
  <2>4. Keeps(c, Slid(c, slip), 0)
    BY <2>2, <2>3, BankedKeeps, Itself
  <2> QED
    BY <1>3, <2>1, <2>4
<1> QED
  BY <1>0, <1>1, <1>2, <1>3

LEMMA WallKeeps ==
  ASSUME NEW c \in CarSet, NEW wall \in BOOLEAN
  PROVE  Keeps(c, OffWall(c, wall), 0 - (IF wall THEN c.chain ELSE 0))
<1>1. CASE wall
  BY <1>1, DroppedKeeps DEF OffWall
<1>2. CASE ~wall
  <2>1. (IF wall THEN c.chain ELSE 0) = 0 /\ 0 - 0 = 0
    BY <1>2
  <2> QED
    BY <1>2, <2>1, Itself DEF OffWall
<1> QED
  BY <1>1, <1>2

\* Every point is somewhere, and the bottles that were filled have been paid for.
CarOK ==
  /\ car \in CarSet /\ slid \in Nat /\ lost \in Int /\ boosts \in Int
  /\ car.score + car.chain + lost = slid
  /\ (boosts + car.bottles - Bottles) * PerBottle + car.charge <= car.score

LEMMA CarStep ==
  ASSUME CarOK, NEW slip \in Slips, NEW wall \in BOOLEAN, NEW fires \in BOOLEAN, NEW line \in BOOLEAN,
         NEW boosted, boosted = Boosted(car, fires), NEW stepped, stepped = Slid(boosted, slip),
         NEW held, held = OffWall(stepped, wall),
         car' = IF line THEN Banked(held) ELSE held,
         slid' = slid + slip.points,
         lost' = lost + (IF slip.kind = "spin" THEN car.chain ELSE 0) + (IF wall THEN stepped.chain ELSE 0),
         boosts' = boosts + (car.bottles - boosted.bottles)
  PROVE  CarOK' /\ (line => car'.chain = 0)
<1>0. car \in CarSet /\ slid \in Nat /\ lost \in Int /\ boosts \in Int /\ slip.points \in Nat
      /\ PerBottle \in Nat /\ Bottles \in Nat
  BY Numbers DEF CarOK, Slips
<1>1. /\ boosted \in CarSet /\ boosted.score = car.score /\ boosted.chain = car.chain /\ boosted.charge = car.charge
  BY <1>0, BoostedKeeps
<1>2. PICK p \in Int : p = slip.points - (IF slip.kind = "spin" THEN boosted.chain ELSE 0)
  BY <1>0, <1>1 DEF CarSet
<1>3. stepped \in CarSet /\ Keeps(boosted, stepped, p)
  BY <1>1, <1>2, SlidKeeps DEF Keeps
<1>4. PICK w \in Nat : w = (IF wall THEN stepped.chain ELSE 0)
  BY <1>3 DEF CarSet
<1>5. held \in CarSet /\ Keeps(stepped, held, 0 - w)
  BY <1>3, <1>4, WallKeeps DEF Keeps
<1>6. car' \in CarSet /\ Keeps(held, car', 0) /\ (line => car'.chain = 0)
  <2>1. CASE line
    BY <1>5, <2>1, BankedKeeps DEF Keeps
  <2>2. CASE ~line
    BY <1>5, <2>2, Itself
  <2> QED
    BY <2>1, <2>2
<1>7. \A c \in CarSet : c.score \in Nat /\ c.chain \in Nat /\ c.charge \in Nat /\ c.bottles \in Nat
  BY Numbers DEF CarSet
<1>8. car'.score + car'.chain = car.score + car.chain + p - w
  <2>1. stepped.score + stepped.chain = car.score + car.chain + p
    BY <1>1, <1>3 DEF Keeps
  <2>2. held.score + held.chain = stepped.score + stepped.chain + (0 - w)
    BY <1>5 DEF Keeps
  <2>3. car'.score + car'.chain = held.score + held.chain + 0
    BY <1>6 DEF Keeps
  <2> QED
    BY <1>0, <1>2, <1>3, <1>4, <1>5, <1>6, <1>7, <2>1, <2>2, <2>3
<1>9. lost' \in Int /\ slid' \in Nat /\ boosts' \in Int /\ slid' - lost' = slid - lost + p - w
  <2>1. boosted.chain \in Nat /\ car.bottles \in Nat /\ boosted.bottles \in Nat
    BY <1>0, <1>1, <1>7
  <2>2. CASE slip.kind = "spin"
    BY <1>0, <1>1, <1>2, <1>4, <2>1, <2>2
  <2>3. CASE slip.kind # "spin"
    BY <1>0, <1>1, <1>2, <1>4, <2>1, <2>3
  <2> QED
    BY <2>2, <2>3
<1>10. car'.score + car'.chain + lost' = slid'
  <2>1. car.score + car.chain + lost = slid
    BY DEF CarOK
  <2> QED
    BY <1>0, <1>2, <1>4, <1>6, <1>7, <1>8, <1>9, <2>1
<1>11. (boosts' + car'.bottles - Bottles) * PerBottle + car'.charge <= car'.score
  <2>1. PICK n \in Int : n = boosts + car.bottles - Bottles
    BY <1>0, <1>7
  <2>2. PICK f \in Int, g \in Int, h \in Int : /\ f = stepped.bottles - boosted.bottles /\ g = held.bottles - stepped.bottles
                                               /\ h = car'.bottles - held.bottles
    BY <1>1, <1>3, <1>5, <1>6, <1>7
  <2>3. boosts' + car'.bottles - Bottles = n + f + g + h
    BY <1>0, <1>1, <1>3, <1>5, <1>6, <1>7, <2>1, <2>2
  <2>4. (n + f + g + h) * PerBottle = n * PerBottle + f * PerBottle + g * PerBottle + h * PerBottle
        /\ n * PerBottle \in Int /\ f * PerBottle \in Int /\ g * PerBottle \in Int /\ h * PerBottle \in Int
    BY <1>0
  <2>5. f * PerBottle + stepped.charge <= car.charge + (stepped.score - car.score)
    BY <1>1, <1>3, <2>2 DEF Keeps, Fills
  <2>6. g * PerBottle + held.charge <= stepped.charge + (held.score - stepped.score)
    BY <1>5, <2>2 DEF Keeps, Fills
  <2>7. h * PerBottle + car'.charge <= held.charge + (car'.score - held.score)
    BY <1>6, <2>2 DEF Keeps, Fills
  <2>8. n * PerBottle + car.charge <= car.score
    BY <2>1 DEF CarOK
  <2> QED
    BY <1>0, <1>1, <1>3, <1>5, <1>6, <1>7, <2>3, <2>4, <2>5, <2>6, <2>7, <2>8
<1> QED
  BY <1>6, <1>9, <1>10, <1>11 DEF CarOK

-----------------------------------------------------------------------------
DrivingIInv ==
  /\ ProgOK /\ CarOK
  /\ prog.finished => car.chain = 0

LEMMA InitDrivingStep == InitDriving => DrivingIInv
<1> SUFFICES ASSUME InitDriving PROVE DrivingIInv
  OBVIOUS
<1>0. /\ L \in Nat \ {0} /\ Grid \subseteq 0..L - 1 /\ LastGate \in Nat /\ Gap \in Nat \ {0} /\ MaxDs \in Nat
      /\ Laps \in Nat \ {0} /\ Gates \in Nat \ {0}
  BY DrivingAssumption, Distances
<1>1. PICK s \in Grid : prog = [gate |-> 0, p |-> 0, lastS |-> s, finished |-> FALSE]
  BY DEF InitDriving
<1>2. /\ car = [bottles |-> Bottles, nitro |-> 0, charge |-> 0, chain |-> 0, score |-> 0, grace |-> 0, drifting |-> FALSE]
      /\ ticks = 0 /\ odo = 0 /\ jumps = 0 /\ high = 0 /\ slid = 0 /\ lost = 0 /\ boosts = 0
  BY DEF InitDriving
<1>3. LastGate # 0
  BY <1>0 DEF LastGate
<1>4. GateAt(0, 0)
  <2>1. 0 * Gap = 0 /\ (0 + 1) * Gap = Gap
    BY <1>0
  <2> QED
    BY <1>0, <2>1 DEF GateAt
<1>5. ProgressIsDriven
  <2>1. 2 * MaxDs * 0 = 0 /\ MaxDs * 0 = 0
    BY <1>0
  <2> QED
    BY <1>1, <1>2, <2>1 DEF ProgressIsDriven
<1>6. ProgOK
  BY <1>0, <1>1, <1>2, <1>3, <1>4, <1>5 DEF ProgOK
<1>7. CarOK
  <2>1. car \in CarSet
    BY <1>2, Numbers DEF CarSet
  <2>2. (0 + Bottles - Bottles) * PerBottle = 0
    <3>1. 0 + Bottles - Bottles = 0
      BY Numbers
    <3> QED
      BY <3>1, Numbers
  <2> QED
    BY <1>2, <2>1, <2>2 DEF CarOK
<1> QED
  BY <1>1, <1>6, <1>7 DEF DrivingIInv

LEMMA NextDrivingStep == DrivingIInv /\ [NextDriving]_drivingVars => DrivingIInv'
<1> SUFFICES ASSUME DrivingIInv, [NextDriving]_drivingVars PROVE DrivingIInv'
  OBVIOUS
<1>1. CASE UNCHANGED drivingVars
  BY <1>1 DEF drivingVars, DrivingIInv, ProgOK, CarOK, ProgressIsDriven
<1>2. CASE NextDriving
  <2>0. PICK d \in -MaxDs..MaxDs, slip \in Slips, wall \in BOOLEAN, fires \in BOOLEAN :
          \E s \in Closest(d) : Tick(d, s, slip, wall, fires)
    BY <1>2 DEF NextDriving, DriveAndSlide
  <2>1. PICK s \in Closest(d) : Tick(d, s, slip, wall, fires)
    BY <2>0
  <2>2. PICK boosted : boosted = Boosted(car, fires)
    OBVIOUS
  <2>3. PICK stepped : stepped = Slid(boosted, slip)
    OBVIOUS
  <2>4. PICK held : held = OffWall(stepped, wall)
    OBVIOUS
  <2>5. /\ prog' = Progressed(s) /\ ticks' = ticks + 1 /\ odo' = odo + d
        /\ jumps' = IF s = (prog.lastS + d) % L THEN jumps ELSE jumps + 1
        /\ high' = IF prog'.p > high THEN prog'.p ELSE high
    BY <2>1 DEF Tick
  <2>6. /\ car' = IF prog'.finished THEN Banked(held) ELSE held
        /\ slid' = slid + slip.points
        /\ lost' = lost + (IF slip.kind = "spin" THEN car.chain ELSE 0) + (IF wall THEN stepped.chain ELSE 0)
        /\ boosts' = boosts + (car.bottles - boosted.bottles)
    BY <2>1, <2>2, <2>3, <2>4 DEF Tick
  <2>7. ProgOK'
    BY <2>5, ProgressStep DEF DrivingIInv
  <2>8. PICK line \in BOOLEAN : line <=> prog'.finished
    OBVIOUS
  <2>9. car' = IF line THEN Banked(held) ELSE held
    BY <2>6, <2>8
  <2>10. CarOK' /\ (line => car'.chain = 0)
    BY <2>2, <2>3, <2>4, <2>6, <2>9, CarStep DEF DrivingIInv
  <2> QED
    BY <2>7, <2>8, <2>10 DEF DrivingIInv
<1> QED
  BY <1>1, <1>2

\* However a car is driven and slides, and wherever the closest point of the track jumps:
\* its progress is what it drove, the gates it has crossed are those up to its furthest
\* progress, its points count once, and every boost was earned.
THEOREM DrivingIsHonest == SpecDriving => []DrivingInv
<1>1. DrivingIInv => DrivingInv
  <2> SUFFICES ASSUME DrivingIInv PROVE DrivingInv
    OBVIOUS
  <2>1. GatesInOrder
    BY GateFormula DEF DrivingIInv, ProgOK, GatesInOrder, LastGate
  <2>2. PointsAddUp
    BY DEF DrivingIInv, CarOK, PointsAddUp
  <2>3. BoostsAreEarned
    <3>1. (boosts + car.bottles - Bottles) * PerBottle + car.charge <= car.score
          /\ car.charge \in Nat /\ car.score \in Nat /\ car.bottles \in Nat /\ boosts \in Int
      BY Numbers DEF DrivingIInv, CarOK, CarSet
    <3>2. (boosts + car.bottles - Bottles) * PerBottle \in Int
      BY <3>1, Numbers
    <3> QED
      BY <3>1, <3>2 DEF BoostsAreEarned
  <2>4. DrivingTypeOK
    <3>1. car.bottles \in 0..Bottles /\ car.nitro \in 0..BoostTicks /\ car.charge \in 0..PerBottle
          /\ car.chain \in Nat /\ car.score \in Nat /\ car.grace \in 0..GraceTicks - 1 /\ car.drifting \in BOOLEAN
      BY DEF DrivingIInv, CarOK, CarSet
    <3>2. prog.gate \in 0..Laps * Gates /\ prog.p \in Int /\ prog.lastS \in 0..L - 1 /\ prog.finished \in BOOLEAN
      BY DEF DrivingIInv, ProgOK, GateAt, LastGate
    <3> QED
      BY <3>1, <3>2, Numbers DEF DrivingTypeOK
  <2> QED
    BY <2>1, <2>2, <2>3, <2>4 DEF DrivingInv, DrivingIInv, ProgOK
<1> QED
  BY <1>1, InitDrivingStep, NextDrivingStep, PTL DEF SpecDriving

-----------------------------------------------------------------------------
(* A car over the network: the inductive invariant.                         *)
\* What a message to the room holds, and a predicted frame.
SentFrame == [seq : Nat \ {0}, input : Inputs]
PredictedFrame == [seq : Nat \ {0}, input : Inputs, after : CarStates]
Message == [kind : {"state"}, car : CarStates, ack : Nat] \cup
           [kind : {"phase"}, phase : {"RACING", "FINISHED"}]

\* The input from which on the client's frames are pending.
HeardAck == IF heard.ack >= 0 THEN heard.ack ELSE 0

NetcodeTypeOK ==
  /\ {predicted, base, sim} \subseteq CarStates
  /\ history \in Seq(PredictedFrame) /\ pressed \in Seq(Inputs)
  /\ seqNo \in Nat /\ Len(pressed) = seqNo
  /\ heard \in [car : CarStates, ack : Nat \cup {-1}]
  /\ up \in Seq(SentFrame) /\ frames \in Seq(SentFrame) /\ replayed \in Seq(SentFrame)
  /\ down \in Seq(Message)
  /\ lastAck \in Nat /\ crossed \in BOOLEAN /\ smooth \in BOOLEAN

\* Until the client has heard of its car it drives none.
StartOK == heard.ack < 0 =>
  /\ seqNo = 0 /\ ~mayDrive
  /\ Len(down) > 0 /\ down[1].kind = "state"

\* The history holds the last frames, each predicted from the one before.
HistoryOK ==
  /\ Len(history) <= seqNo - HeardAck /\ Len(history) <= MaxHistory
  /\ Len(history) = seqNo - HeardAck \/ Len(history) = MaxHistory
  /\ \A i \in 1..Len(history) :
       /\ history[i].seq = seqNo - Len(history) + i
       /\ history[i].input = pressed[seqNo - Len(history) + i]
  /\ \A i \in 1..Len(history) - 1 : history[i + 1].after = Drive(history[i].after, history[i + 1].input)
  /\ Len(history) > 0 => predicted = history[Len(history)].after
  /\ Len(history) = seqNo - HeardAck =>
       /\ Len(history) = 0 => predicted = base
       /\ Len(history) > 0 => history[1].after = Drive(base, history[1].input)
  /\ heard.ack >= 0 => Pose(base) = Pose(heard.car)

\* Acknowledgements arrive in the order in which the room used the inputs.
AcksOK ==
  /\ HeardAck <= lastAck
  /\ \A i \in 1..Len(down) : down[i].kind = "state" =>
       /\ HeardAck <= down[i].ack /\ down[i].ack <= lastAck
       /\ \A j \in i..Len(down) : down[j].kind = "state" => down[i].ack <= down[j].ack

\* The frames under way and in the queue are the last ones sent, in order.
FramesOK ==
  /\ lastAck + Len(up) <= seqNo
  /\ \A i \in 1..Len(up) : /\ up[i].seq = seqNo - Len(up) + i
                           /\ up[i].input = pressed[seqNo - Len(up) + i]
  /\ Len(frames) <= MaxQueue
  /\ \A i \in 1..Len(frames) :
       /\ lastAck < frames[i].seq /\ frames[i].seq <= seqNo - Len(up)
       /\ frames[i].input = pressed[frames[i].seq]
       /\ \A j \in 1..Len(frames) : i < j => frames[i].seq < frames[j].seq

ReplayedOK ==
  /\ \A i \in 1..Len(replayed) :
       /\ replayed[i].seq <= lastAck
       /\ replayed[i].input = pressed[replayed[i].seq]
       /\ \A j \in 1..Len(replayed) : i < j => replayed[i].seq < replayed[j].seq
  /\ lastAck = IF Len(replayed) = 0 THEN 0 ELSE replayed[Len(replayed)].seq

\* Where the player's inputs take a car.
Room(n) == Course(Start, pressed)[n]
First == IF heard.ack >= 0 THEN Start ELSE Origin

\* As long as nothing is lost, the room is where the inputs lead, and so are what it
\* sends and what the client predicts.
SmoothOK == smooth /\ ~crossed =>
  /\ \A n \in lastAck + 1..seqNo - Len(up) : \E i \in 1..Len(frames) : frames[i].seq = n
  /\ sim = Room(lastAck)
  /\ \A i \in 1..Len(down) : down[i].kind = "state" => down[i].car = Room(down[i].ack)
  /\ Len(history) = seqNo - HeardAck
  /\ \A i \in 1..Len(history) : history[i].after = Course(First, pressed)[history[i].seq]
  /\ predicted = Course(First, pressed)[seqNo]
  /\ heard.ack >= 0 => base = heard.car /\ base = Room(heard.ack)

\* The snapshots that are kept are the last ones; the others are old.
RemoteOK ==
  /\ pushes \in Seq(Nat)
  /\ \A i, j \in 1..Len(pushes) : i < j => pushes[i] < pushes[j]
  /\ IF Len(pushes) = 0 THEN buffer = <<>>
     ELSE \E k \in 1..Len(pushes) :
            /\ buffer = SubSeq(pushes, k, Len(pushes))
            /\ k > 1 => k < Len(pushes) /\ pushes[k - 1] < pushes[Len(pushes)] - KeepFor

\* The inductive invariant of the player's car; the others' snapshots have RemoteOK.
OnlineIInv == NetcodeTypeOK /\ StartOK /\ HistoryOK /\ AcksOK /\ FramesOK /\ ReplayedOK /\ SmoothOK

\* Induction up to a number.
LEMMA UpTo ==
  ASSUME NEW n \in Nat, NEW G, 0 \in G, \A i \in 0..n : i < n /\ i \in G => i + 1 \in G
  PROVE  0..n \subseteq G
<1> SUFFICES ASSUME NEW j \in 0..n, j \notin G PROVE FALSE
  OBVIOUS
<1> DEFINE T == {i \in 0..n : i \notin G}
<1>1. T \in SUBSET Nat /\ T # {}
  OBVIOUS
<1>2. PICK k \in T : \A m \in T : k <= m
  <2> HIDE DEF T
  <2> QED
    BY <1>1, LeastOf
<1>3. k \in 1..n /\ k - 1 \in 0..n /\ k - 1 < n /\ k - 1 \in G
  BY <1>2
<1> QED
  BY <1>2, <1>3

-----------------------------------------------------------------------------
(* Where inputs take a car.                                                 *)
Drives(s, p, n, g) == g = [i \in 0..n |-> IF i = 0 THEN s ELSE Drive(g[i - 1], p[i])]

LEMMA CourseExists ==
  ASSUME NEW s, NEW p \in Seq(Inputs)
  PROVE  \E g : Drives(s, p, Len(p), g)
<1> DEFINE G == {n \in 0..Len(p) : \E g : Drives(s, p, n, g)}
<1>1. 0 \in G
  <2>1. [i \in 0..0 |-> s] = [i \in 0..0 |-> IF i = 0 THEN s ELSE Drive([k \in 0..0 |-> s][i - 1], p[i])]
    OBVIOUS
  <2>2. Drives(s, p, 0, [i \in 0..0 |-> s])
    BY <2>1 DEF Drives
  <2> QED
    BY <2>2
<1>2. ASSUME NEW n \in 0..Len(p), n < Len(p), n \in G
      PROVE  n + 1 \in G
  <2>1. PICK g : Drives(s, p, n, g)
    BY <1>2
  <2> DEFINE h == [i \in 0..n + 1 |-> IF i = n + 1 THEN Drive(g[n], p[n + 1]) ELSE g[i]]
  <2>2. ASSUME NEW i \in 0..n + 1
        PROVE  h[i] = IF i = 0 THEN s ELSE Drive(h[i - 1], p[i])
    <3>1. CASE i = 0
      BY <2>1, <3>1 DEF Drives
    <3>2. CASE i = n + 1
      BY <3>2
    <3>3. CASE i # 0 /\ i # n + 1
      <4>1. i \in 0..n /\ i - 1 \in 0..n /\ h[i] = g[i] /\ h[i - 1] = g[i - 1]
        BY <3>3
      <4>2. g[i] = Drive(g[i - 1], p[i])
        BY <2>1, <3>3, <4>1 DEF Drives
      <4> QED
        BY <3>3, <4>1, <4>2
    <3> QED
      BY <3>1, <3>2, <3>3
  <2>3. Drives(s, p, n + 1, h)
    <3>1. DOMAIN h = 0..n + 1 /\ h = [i \in 0..n + 1 |-> h[i]]
      OBVIOUS
    <3> HIDE DEF h
    <3> QED
      BY <2>2, <3>1 DEF Drives
  <2> HIDE DEF h
  <2>4. n + 1 \in 0..Len(p)
    BY <1>2
  <2> QED
    BY <2>3, <2>4
<1> HIDE DEF G
<1>3. 0..Len(p) \subseteq G
  BY <1>1, <1>2, UpTo
<1>4. Len(p) \in 0..Len(p)
  OBVIOUS
<1>5. Len(p) \in G
  BY <1>3, <1>4
<1> QED
  BY <1>5 DEF G

LEMMA CourseDef ==
  ASSUME NEW s, NEW p \in Seq(Inputs)
  PROVE  /\ Course(s, p)[0] = s
         /\ \A i \in 1..Len(p) : Course(s, p)[i] = Drive(Course(s, p)[i - 1], p[i])
<1>1. Course(s, p) = CHOOSE g : Drives(s, p, Len(p), g)
  BY DEF Course, Drives
<1>2. Drives(s, p, Len(p), Course(s, p))
  BY <1>1, CourseExists
<1> QED
  BY <1>2 DEF Drives

LEMMA CourseType ==
  ASSUME NEW s \in CarStates, NEW p \in Seq(Inputs)
  PROVE  \A i \in 0..Len(p) : Course(s, p)[i] \in CarStates
<1> DEFINE G == {i \in 0..Len(p) : Course(s, p)[i] \in CarStates}
<1>1. 0 \in G
  BY CourseDef
<1>2. ASSUME NEW i \in 0..Len(p), i < Len(p), i \in G
      PROVE  i + 1 \in G
  <2>1. i + 1 \in 1..Len(p) /\ p[i + 1] \in Inputs
    BY <1>2
  <2>2. Course(s, p)[i + 1] = Drive(Course(s, p)[i], p[i + 1])
    BY <2>1, CourseDef
  <2>3. Course(s, p)[i] \in CarStates
    BY <1>2
  <2>4. Drive(Course(s, p)[i], p[i + 1]) \in CarStates
    BY <2>1, <2>3, NetcodeAssumption
  <2> QED
    BY <1>2, <2>2, <2>4
<1> HIDE DEF G
<1>3. 0..Len(p) \subseteq G
  BY <1>1, <1>2, UpTo
<1> QED
  BY <1>3 DEF G

\* A car that starts where another one is, and gets its inputs, is where that one is.
LEMMA CourseTail ==
  ASSUME NEW s, NEW p \in Seq(Inputs), NEW k \in 0..Len(p), NEW q \in Seq(Inputs),
         k + Len(q) <= Len(p), \A j \in 1..Len(q) : q[j] = p[k + j]
  PROVE  \A j \in 0..Len(q) : Course(Course(s, p)[k], q)[j] = Course(s, p)[k + j]
<1> DEFINE G == {j \in 0..Len(q) : Course(Course(s, p)[k], q)[j] = Course(s, p)[k + j]}
<1>1. 0 \in G
  BY CourseDef
<1>2. ASSUME NEW j \in 0..Len(q), j < Len(q), j \in G
      PROVE  j + 1 \in G
  <2>1. j + 1 \in 1..Len(q) /\ k + j + 1 \in 1..Len(p) /\ q[j + 1] = p[k + j + 1]
    BY <1>2
  <2>2. Course(Course(s, p)[k], q)[j + 1] = Drive(Course(Course(s, p)[k], q)[j], q[j + 1])
    BY <2>1, CourseDef
  <2>3. Course(s, p)[k + j + 1] = Drive(Course(s, p)[k + j], p[k + j + 1])
    BY <2>1, CourseDef
  <2> QED
    BY <1>2, <2>1, <2>2, <2>3
<1> HIDE DEF G
<1>3. Len(q) \in Nat
  OBVIOUS
<1>4. 0..Len(q) \subseteq G
  BY <1>1, <1>2, <1>3, UpTo
<1> QED
  BY <1>4 DEF G

\* What is pressed later changes nothing of what was.
LEMMA CourseGrows ==
  ASSUME NEW s, NEW p \in Seq(Inputs), NEW input \in Inputs
  PROVE  /\ \A i \in 0..Len(p) : Course(s, Append(p, input))[i] = Course(s, p)[i]
         /\ Course(s, Append(p, input))[Len(p) + 1] = Drive(Course(s, p)[Len(p)], input)
<1> DEFINE r == Append(p, input)
<1>1. r \in Seq(Inputs) /\ Len(r) = Len(p) + 1 /\ r[Len(p) + 1] = input
      /\ \A j \in 1..Len(p) : p[j] = r[0 + j]
  OBVIOUS
<1> HIDE DEF r
<1>2. 0 \in 0..Len(r) /\ Course(s, r)[0] = s /\ 0 + Len(p) <= Len(r)
  BY <1>1, CourseDef
<1>3. \A j \in 0..Len(p) : Course(Course(s, r)[0], p)[j] = Course(s, r)[0 + j]
  BY <1>1, <1>2, CourseTail
<1>4. \A j \in 0..Len(p) : Course(s, p)[j] = Course(s, r)[j]
  BY <1>2, <1>3
<1>5. Course(s, r)[Len(p) + 1] = Drive(Course(s, r)[Len(p)], input)
  BY <1>1, CourseDef
<1> QED
  BY <1>4, <1>5 DEF r

\* Two cars that meet stay together.
LEMMA CourseMeets ==
  ASSUME NEW a, NEW b, NEW p \in Seq(Inputs), NEW k \in 0..Len(p),
         Course(a, p)[k] = Course(b, p)[k]
  PROVE  \A n \in k..Len(p) : Course(a, p)[n] = Course(b, p)[n]
<1> DEFINE q == SubSeq(p, k + 1, Len(p))
<1>1. q \in Seq(Inputs) /\ Len(q) = Len(p) - k /\ \A j \in 1..Len(q) : q[j] = p[k + j]
  OBVIOUS
<1> HIDE DEF q
<1>2. k + Len(q) <= Len(p)
  BY <1>1
<1>3. ASSUME NEW s
      PROVE  \A j \in 0..Len(q) : Course(Course(s, p)[k], q)[j] = Course(s, p)[k + j]
  BY <1>1, <1>2, CourseTail
<1>4. \A j \in 0..Len(q) : Course(a, p)[k + j] = Course(b, p)[k + j]
  BY <1>3
<1> TAKE n \in k..Len(p)
<1>5. n - k \in 0..Len(q) /\ k + (n - k) = n
  BY <1>1
<1> QED
  BY <1>4, <1>5

-----------------------------------------------------------------------------
(* Queues of frames.                                                       *)
LEMMA SameSeq ==
  ASSUME NEW S, NEW s \in Seq(S), NEW t \in Seq(S), Len(s) = Len(t),
         \A i \in 1..Len(s) : s[i] = t[i]
  PROVE  s = t
OBVIOUS

Filters(h, ack, g) ==
  g = [i \in 0..Len(h) |->
         IF i = 0 THEN <<>> ELSE IF h[i].seq > ack THEN Append(g[i - 1], h[i]) ELSE g[i - 1]]

\* Of frames in a row those above a number are the last ones.
LEMMA AboveIs ==
  ASSUME NEW h \in Seq(PredictedFrame), NEW d \in 0..Len(h), NEW ack,
         \A i \in 1..Len(h) : h[i].seq > ack <=> i > d
  PROVE  /\ Above(h, ack) \in Seq(PredictedFrame)
         /\ Len(Above(h, ack)) = Len(h) - d
         /\ \A i \in 1..Len(h) - d : Above(h, ack)[i] = h[i + d]
<1> DEFINE lead(i) == [j \in 1..(IF i <= d THEN 0 ELSE i - d) |-> h[d + j]]
           g == [i \in 0..Len(h) |-> lead(i)]
<1>0. ASSUME NEW i \in 0..Len(h)
      PROVE  /\ lead(i) \in Seq(PredictedFrame)
             /\ Len(lead(i)) = IF i <= d THEN 0 ELSE i - d
             /\ \A j \in 1..Len(lead(i)) : lead(i)[j] = h[d + j]
  <2>1. PICK n \in Nat : n = IF i <= d THEN 0 ELSE i - d
    OBVIOUS
  <2>2. lead(i) = [j \in 1..n |-> h[d + j]]
    BY <2>1
  <2>3. \A j \in 1..n : d + j \in 1..Len(h)
    BY <2>1
  <2>4. \A j \in 1..n : h[d + j] \in PredictedFrame
    BY <2>3
  <2> HIDE DEF lead
  <2> QED
    BY <2>1, <2>2, <2>4
<1>1. ASSUME NEW i \in 0..Len(h)
      PROVE  lead(i) = IF i = 0 THEN <<>> ELSE IF h[i].seq > ack THEN Append(lead(i - 1), h[i]) ELSE lead(i - 1)
  <2>1. CASE i <= d
    <3>1. i # 0 => ~(h[i].seq > ack)
      BY <2>1
    <3>2. Len(lead(i)) = 0 /\ lead(i) \in Seq(PredictedFrame)
      BY <1>0, <2>1
    <3>3. i # 0 => i - 1 \in 0..Len(h) /\ i - 1 <= d
      BY <2>1
    <3>4. i # 0 => Len(lead(i - 1)) = 0 /\ lead(i - 1) \in Seq(PredictedFrame)
      BY <1>0, <3>3
    <3> HIDE DEF lead
    <3>5. lead(i) = <<>> /\ (i # 0 => lead(i - 1) = <<>>)
      BY <3>2, <3>4
    <3> QED
      BY <3>1, <3>5
  <2>2. CASE i > d
    <3>1. i # 0 /\ i \in 1..Len(h) /\ h[i].seq > ack /\ i - 1 \in 0..Len(h) /\ h[i] \in PredictedFrame
      BY <2>2
    <3>2. /\ lead(i) \in Seq(PredictedFrame) /\ Len(lead(i)) = i - d
          /\ \A j \in 1..i - d : lead(i)[j] = h[d + j]
      BY <1>0, <2>2
    <3>3. /\ lead(i - 1) \in Seq(PredictedFrame) /\ Len(lead(i - 1)) = i - d - 1
          /\ \A j \in 1..i - d - 1 : lead(i - 1)[j] = h[d + j]
      <4>1. Len(lead(i - 1)) = IF i - 1 <= d THEN 0 ELSE i - 1 - d
        BY <1>0, <3>1
      <4>2. Len(lead(i - 1)) = i - d - 1
        BY <2>2, <4>1
      <4> QED
        BY <1>0, <3>1, <4>2
    <3> HIDE DEF lead
    <3> DEFINE t == Append(lead(i - 1), h[i])
    <3>4. /\ t \in Seq(PredictedFrame) /\ Len(t) = i - d
          /\ \A j \in 1..i - d : t[j] = h[d + j]
      BY <2>2, <3>1, <3>3
    <3> HIDE DEF t
    <3>5. lead(i) = t
      BY <3>2, <3>4, SameSeq
    <3> QED
      BY <3>1, <3>5 DEF t
  <2> QED
    BY <2>1, <2>2
<1>2. Filters(h, ack, g)
  <2>1. \A i \in 0..Len(h) : g[i] = lead(i) /\ (i # 0 => g[i - 1] = lead(i - 1))
    OBVIOUS
  <2>2. \A i \in 0..Len(h) : g[i] =
          IF i = 0 THEN <<>> ELSE IF h[i].seq > ack THEN Append(g[i - 1], h[i]) ELSE g[i - 1]
    <3> HIDE DEF lead, g
    <3> QED
      BY <1>1, <2>1
  <2>3. DOMAIN g = 0..Len(h) /\ g = [i \in 0..Len(h) |-> g[i]]
    OBVIOUS
  <2> HIDE DEF lead, g
  <2> QED
    BY <2>2, <2>3 DEF Filters
<1>3. PICK kept : Filters(h, ack, kept) /\ Above(h, ack) = kept[Len(h)]
  <2>1. Above(h, ack) = (CHOOSE f : Filters(h, ack, f))[Len(h)]
    BY DEF Above, Filters
  <2> HIDE DEF g
  <2> QED
    BY <1>2, <2>1
<1> DEFINE G == {i \in 0..Len(h) : kept[i] = g[i]}
<1>4. 0 \in G
  BY <1>3 DEF Filters
<1>5. ASSUME NEW i \in 0..Len(h), i < Len(h), i \in G
      PROVE  i + 1 \in G
  <2>1. i + 1 \in 0..Len(h) /\ i + 1 # 0 /\ (i + 1) - 1 = i /\ kept[i] = g[i]
    BY <1>5
  <2> HIDE DEF g
  <2>2. kept[i + 1] = IF h[i + 1].seq > ack THEN Append(kept[i], h[i + 1]) ELSE kept[i]
    BY <1>3, <2>1 DEF Filters
  <2>3. g[i + 1] = IF h[i + 1].seq > ack THEN Append(g[i], h[i + 1]) ELSE g[i]
    BY <1>2, <2>1 DEF Filters
  <2> QED
    BY <2>1, <2>2, <2>3
<1> HIDE DEF G
<1>6. Len(h) \in Nat
  OBVIOUS
<1>7. 0..Len(h) \subseteq G
  BY <1>4, <1>5, <1>6, UpTo
<1>8. Len(h) \in 0..Len(h)
  BY <1>6
<1>9. Len(h) \in G
  BY <1>7, <1>8
<1>10. Above(h, ack) = lead(Len(h))
  BY <1>3, <1>9 DEF G
<1>11. (IF Len(h) <= d THEN 0 ELSE Len(h) - d) = Len(h) - d
  OBVIOUS
<1> HIDE DEF lead, g
<1>12. /\ lead(Len(h)) \in Seq(PredictedFrame)
       /\ Len(lead(Len(h))) = IF Len(h) <= d THEN 0 ELSE Len(h) - d
       /\ \A j \in 1..Len(lead(Len(h))) : lead(Len(h))[j] = h[d + j]
  BY <1>0, <1>8
<1>13. \A j \in 1..Len(h) - d : d + j = j + d
  OBVIOUS
<1>14. Len(lead(Len(h))) = Len(h) - d
  BY <1>11, <1>12
<1> QED
  BY <1>10, <1>12, <1>13, <1>14

\* Sorting keeps the frames, and orders them.
Rising(q) == \A i, j \in 1..Len(q) : i < j => q[i].seq < q[j].seq

LEMMA SortedIs ==
  ASSUME NEW q \in Seq(SentFrame), Rising(q)
  PROVE  /\ Sorted(q) \in Seq(SentFrame) /\ Len(Sorted(q)) = Len(q)
         /\ \A i \in 1..Len(q) : \E j \in 1..Len(q) : Sorted(q)[i] = q[j]
         /\ \A j \in 1..Len(q) : \E i \in 1..Len(q) : Sorted(q)[i] = q[j]
         /\ Rising(Sorted(q))
<1> DEFINE D == 1..Len(q)
           Sorts(p) == \A i, j \in D : i <= j => q[p[i]].seq <= q[p[j]].seq
           order == CHOOSE p \in Bijection(D, D) : Sorts(p)
<1>1. DOMAIN q = D
  OBVIOUS
<1>2. \A i \in D : q[i].seq \in Nat
  <2>1. \A i \in D : q[i] \in SentFrame
    OBVIOUS
  <2> QED
    BY <2>1 DEF SentFrame
<1>3. order \in Bijection(D, D) /\ Sorts(order)
  <2>1. [i \in D |-> i] \in Bijection(D, D)
    BY DEF Bijection, Injection, Surjection, IsInjective
  <2>2. \A i, j \in D : i <= j => q[i].seq <= q[j].seq
    BY <1>2 DEF Rising
  <2>3. Sorts([i \in D |-> i])
    BY <2>2
  <2> HIDE DEF Sorts, D
  <2> QED
    BY <2>1, <2>3
<1>4. Sorted(q) = [i \in D |-> q[order[i]]]
  BY <1>1 DEF Sorted
<1>5. /\ order \in [D -> D]
      /\ \A i, j \in D : order[i] = order[j] => i = j
      /\ \A j \in D : \E i \in D : order[i] = j
  BY <1>3 DEF Bijection, Injection, Surjection, IsInjective
<1> HIDE DEF order
<1>6. \A i \in D : order[i] \in D /\ q[order[i]] \in SentFrame
  BY <1>5
<1>7. Sorted(q) \in Seq(SentFrame) /\ Len(Sorted(q)) = Len(q)
  BY <1>4, <1>6
<1>8. ASSUME NEW i \in D, NEW j \in D, i < j
      PROVE  Sorted(q)[i].seq < Sorted(q)[j].seq
  <2>1. q[order[i]].seq <= q[order[j]].seq /\ order[i] # order[j] /\ order[i] \in D /\ order[j] \in D
    BY <1>3, <1>5, <1>6, <1>8
  <2>2. order[i] < order[j] \/ order[j] < order[i]
    BY <2>1
  <2>3. q[order[i]].seq # q[order[j]].seq
    BY <1>2, <2>1, <2>2 DEF Rising
  <2> QED
    BY <1>2, <1>4, <2>1, <2>3
<1>9. Rising(Sorted(q))
  BY <1>7, <1>8 DEF Rising
<1>10. \A i \in D : Sorted(q)[i] = q[order[i]]
  BY <1>4
<1>11. \A i \in D : \E j \in D : Sorted(q)[i] = q[j]
  BY <1>6, <1>10
<1>12. \A j \in D : \E i \in D : Sorted(q)[i] = q[j]
  BY <1>5, <1>10
<1> QED
  BY <1>7, <1>9, <1>11, <1>12

LEMMA FreshIs ==
  ASSUME NetcodeTypeOK, FramesOK
  PROVE  Fresh = frames
<1> DEFINE Starts(i) == /\ i = Len(frames) + 1 \/ frames[i].seq > lastAck
                        /\ \A j \in 1..i - 1 : frames[j].seq <= lastAck
           first == CHOOSE i \in 1..Len(frames) + 1 : Starts(i)
<1>1. frames \in Seq(SentFrame) /\ lastAck \in Nat /\ \A j \in 1..Len(frames) : frames[j].seq \in Nat
  <2>1. frames \in Seq(SentFrame) /\ lastAck \in Nat
    BY DEF NetcodeTypeOK
  <2>2. \A j \in 1..Len(frames) : frames[j] \in SentFrame
    BY <2>1
  <2> QED
    BY <2>1, <2>2 DEF SentFrame
<1>2. \A j \in 1..Len(frames) : frames[j].seq > lastAck /\ ~(frames[j].seq <= lastAck)
  BY <1>1 DEF FramesOK
<1>3. 1 \in 1..Len(frames) + 1 /\ Starts(1)
  BY <1>1, <1>2
<1>4. first \in 1..Len(frames) + 1 /\ Starts(first)
  <2> HIDE DEF Starts
  <2> QED
    BY <1>3
<1>5. Fresh = SubSeq(frames, first, Len(frames))
  BY DEF Fresh
<1> HIDE DEF first
<1>6. first = 1
  <2> SUFFICES ASSUME first # 1 PROVE FALSE
    OBVIOUS
  <2>1. 1 \in 1..first - 1 /\ 1 \in 1..Len(frames)
    BY <1>1, <1>4
  <2> QED
    BY <1>2, <1>4, <2>1
<1>7. SubSeq(frames, 1, Len(frames)) = frames
  BY <1>1
<1> QED
  BY <1>5, <1>6, <1>7

-----------------------------------------------------------------------------
(* The snapshots of another car.                                            *)
LEMMA PartOf ==
  ASSUME NEW s \in Seq(Nat), NEW a \in 1..Len(s)
  PROVE  /\ SubSeq(s, a, Len(s)) \in Seq(Nat)
         /\ Len(SubSeq(s, a, Len(s))) = Len(s) - a + 1
         /\ \A i \in 1..Len(s) - a + 1 : SubSeq(s, a, Len(s))[i] = s[a + i - 1]
OBVIOUS

\* r is what s has from a to e.
IsPart(r, s, a, e) ==
  /\ r \in Seq(Nat) /\ Len(r) = e - a + 1
  /\ \A i \in 1..e - a + 1 : r[i] = s[a + i - 1]

LEMMA PartUpTo ==
  ASSUME NEW s \in Seq(Nat), NEW e, e = Len(s), NEW a \in 1..e
  PROVE  IsPart(SubSeq(s, a, e), s, a, e)
BY PartOf DEF IsPart

LEMMA TrimmedIs ==
  ASSUME NEW b \in Seq(Nat), Len(b) > 0
  PROVE  \E i \in 1..Len(b) :
           /\ Trimmed(b) = SubSeq(b, i, Len(b))
           /\ i > 1 => i < Len(b) /\ b[i - 1] < b[Len(b)] - KeepFor
<1> DEFINE Stays(i) == i = Len(b) \/ i = Len(b) - 1 \/ b[i] >= b[Len(b)] - KeepFor
           Starts(i) == /\ Stays(i)
                        /\ \A j \in 1..i - 1 : j < Len(b) - 1 /\ b[j] < b[Len(b)] - KeepFor
           T == {i \in 1..Len(b) : Stays(i)}
<1>1. DOMAIN b = 1..Len(b) /\ Last(b) = b[Len(b)] /\ Len(b) \in 1..Len(b) /\ KeepFor \in Nat
  BY NetcodeAssumption DEF Last
<1>2. \A i \in 1..Len(b) : b[i] \in Nat
  OBVIOUS
<1>3. T \in SUBSET Nat /\ T # {}
  BY <1>1
<1>4. PICK m \in T : \A i \in T : m <= i
  <2> HIDE DEF T
  <2> QED
    BY <1>3, LeastOf
<1>5. m \in 1..Len(b) /\ Starts(m)
  <2>1. m \in 1..Len(b) /\ Stays(m)
    BY <1>4
  <2>2. ASSUME NEW j \in 1..m - 1
        PROVE  j < Len(b) - 1 /\ b[j] < b[Len(b)] - KeepFor
    <3>1. j \in 1..Len(b) /\ j \notin T
      BY <1>4, <2>1
    <3>2. j # Len(b) - 1 /\ ~(b[j] >= b[Len(b)] - KeepFor) /\ j # Len(b)
      BY <3>1
    <3> HIDE DEF T, Stays, Starts
    <3>3. m \in 1..Len(b) /\ Len(b) \in Nat /\ j < Len(b)
      BY <2>1
    <3>4. j < Len(b) - 1
      BY <3>2, <3>3
    <3>5. PICK x \in Nat, y \in Nat : b[j] = x /\ b[Len(b)] = y
      BY <1>1, <1>2, <3>1
    <3>6. PICK f \in Nat : KeepFor = f
      BY <1>1
    <3>7. ~(x >= y - f)
      BY <3>2, <3>5, <3>6
    <3>8. x < y - f
      BY <3>7
    <3> QED
      BY <3>4, <3>5, <3>6, <3>8
  <2> QED
    BY <2>1, <2>2
<1>6. Trimmed(b) = SubSeq(b, CHOOSE i \in 1..Len(b) : Starts(i), Len(b))
  BY <1>1 DEF Trimmed
<1>7. PICK i \in 1..Len(b) : Starts(i) /\ Trimmed(b) = SubSeq(b, i, Len(b))
  <2> HIDE DEF Starts, T
  <2> QED
    BY <1>5, <1>6
<1>8. i > 1 => i < Len(b) /\ b[i - 1] < b[Len(b)] - KeepFor
  <2> SUFFICES ASSUME i > 1 PROVE i < Len(b) /\ b[i - 1] < b[Len(b)] - KeepFor
    OBVIOUS
  <2>1. i - 1 \in 1..i - 1
    OBVIOUS
  <2>2. i - 1 < Len(b) - 1 /\ b[i - 1] < b[Len(b)] - KeepFor
    BY <1>7, <2>1
  <2> QED
    BY <2>2
<1> QED
  BY <1>7, <1>8

LEMMA InitRemote ==
  ASSUME InitNetcode
  PROVE  RemoteOK
BY DEF InitNetcode, RemoteOK

LEMMA PushStep ==
  ASSUME RemoteOK, NEW dt \in 1..MaxGap, Push(dt)
  PROVE  RemoteOK'
<1>1. pushes \in Seq(Nat) /\ MaxGap \in Nat /\ KeepFor \in Nat
  BY NetcodeAssumption DEF RemoteOK
<1>2. PICK n \in Nat : n = Len(pushes)
  BY <1>1
<1>3. PICK t \in Nat : /\ pushes' = Append(pushes, t) /\ buffer' = Trimmed(Append(buffer, t))
                       /\ n > 0 => t > pushes[n]
  <2>1. CASE pushes = <<>>
    <3>1. pushes' = Append(pushes, dt + 0) /\ buffer' = Trimmed(Append(buffer, dt + 0)) /\ n = 0
      BY <1>2, <2>1 DEF Push
    <3> QED
      BY <3>1
  <2>2. CASE pushes # <<>>
    <3>1. Last(pushes) = pushes[n] /\ n > 0 /\ n \in 1..Len(pushes)
      BY <1>1, <1>2, <2>2 DEF Last
    <3>2. pushes[n] \in Nat
      BY <1>1, <3>1
    <3>3. pushes' = Append(pushes, dt + pushes[n]) /\ buffer' = Trimmed(Append(buffer, dt + pushes[n]))
      BY <2>2, <3>1 DEF Push
    <3> QED
      BY <3>2, <3>3
  <2> QED
    BY <2>1, <2>2
<1>4. /\ pushes' \in Seq(Nat) /\ Len(pushes') = n + 1 /\ pushes'[n + 1] = t
      /\ \A i \in 1..n : pushes'[i] = pushes[i]
  BY <1>1, <1>2, <1>3
<1>5. \A i \in 1..n : pushes[i] \in Nat /\ pushes[i] <= pushes[n]
  <2> TAKE i \in 1..n
  <2>1. pushes[i] \in Nat /\ pushes[n] \in Nat
    BY <1>1, <1>2
  <2> QED
    BY <1>2, <2>1 DEF RemoteOK
<1>6. \A i, j \in 1..n + 1 : i < j => pushes'[i] < pushes'[j]
  <2> SUFFICES ASSUME NEW i \in 1..n + 1, NEW j \in 1..n + 1, i < j
               PROVE  pushes'[i] < pushes'[j]
    OBVIOUS
  <2>1. CASE j = n + 1
    <3>1. i \in 1..n /\ n > 0 /\ n \in 1..n
      BY <2>1
    <3>2. pushes[i] <= pushes[n] /\ pushes[i] \in Nat /\ pushes[n] \in Nat /\ pushes[n] < t
      BY <1>3, <1>5, <3>1
    <3> QED
      BY <1>4, <2>1, <3>1, <3>2
  <2>2. CASE j # n + 1
    <3>1. i \in 1..n /\ j \in 1..n
      BY <2>2
    <3> QED
      BY <1>2, <1>4, <3>1 DEF RemoteOK
  <2> QED
    BY <2>1, <2>2
<1>7. PICK k \in 1..n + 1 : /\ Append(buffer, t) = SubSeq(pushes', k, n + 1)
                            /\ k > 1 => k < n + 1 /\ pushes'[k - 1] < t - KeepFor
  <2>1. CASE n = 0
    <3>1. buffer = <<>> /\ pushes = <<>>
      <4>1. Len(pushes) = 0
        BY <1>2, <2>1
      <4>2. pushes = <<>>
        BY <1>1, <4>1
      <4> QED
        BY <4>1, <4>2 DEF RemoteOK
    <3>2. Append(buffer, t) = pushes' /\ 1 \in 1..n + 1
      BY <1>3, <2>1, <3>1
    <3>3. SubSeq(pushes', 1, n + 1) = pushes'
      BY <1>4
    <3> QED
      BY <3>2, <3>3
  <2>2. CASE n > 0
    <3>1. PICK k \in 1..n : /\ buffer = SubSeq(pushes, k, n)
                            /\ k > 1 => k < n /\ pushes[k - 1] < pushes[n] - KeepFor
      BY <1>2, <2>2 DEF RemoteOK
    <3>2. /\ buffer \in Seq(Nat) /\ Len(buffer) = n - k + 1
          /\ \A i \in 1..n - k + 1 : buffer[i] = pushes[k + i - 1]
      <4>1. k \in 1..n /\ n = Len(pushes) /\ pushes \in Seq(Nat)
        BY <1>1, <1>2, <3>1
      <4>2. IsPart(SubSeq(pushes, k, n), pushes, k, n)
        BY <4>1, PartUpTo
      <4> QED
        BY <3>1, <4>2 DEF IsPart
    <3>3. /\ SubSeq(pushes', k, n + 1) \in Seq(Nat) /\ Len(SubSeq(pushes', k, n + 1)) = n + 1 - k + 1
          /\ \A i \in 1..n + 1 - k + 1 : SubSeq(pushes', k, n + 1)[i] = pushes'[k + i - 1]
      <4>1. k \in 1..n + 1 /\ n + 1 = Len(pushes') /\ pushes' \in Seq(Nat)
        BY <1>4
      <4>2. IsPart(SubSeq(pushes', k, n + 1), pushes', k, n + 1)
        BY <4>1, PartUpTo
      <4> QED
        BY <4>2 DEF IsPart
    <3>4. /\ Append(buffer, t) \in Seq(Nat) /\ Len(Append(buffer, t)) = n - k + 2
          /\ \A i \in 1..n - k + 1 : Append(buffer, t)[i] = buffer[i]
          /\ Append(buffer, t)[n - k + 2] = t
      BY <3>2
    <3>5. \A i \in 1..n - k + 2 : Append(buffer, t)[i] = SubSeq(pushes', k, n + 1)[i]
      <4> SUFFICES ASSUME NEW i \in 1..n - k + 2
                   PROVE  Append(buffer, t)[i] = SubSeq(pushes', k, n + 1)[i]
        OBVIOUS
      <4>1. SubSeq(pushes', k, n + 1)[i] = pushes'[k + i - 1]
        BY <3>3
      <4>2. CASE i = n - k + 2
        <5>1. k + i - 1 = n + 1
          BY <4>2
        <5> QED
          BY <1>4, <3>4, <4>1, <4>2, <5>1
      <4>3. CASE i # n - k + 2
        <5>1. i \in 1..n - k + 1 /\ k + i - 1 \in 1..n
          BY <4>3
        <5> QED
          BY <1>4, <3>2, <3>4, <4>1, <5>1
      <4> QED
        BY <4>2, <4>3
    <3>6. Append(buffer, t) = SubSeq(pushes', k, n + 1)
      <4>1. n + 1 - k + 1 = n - k + 2
        OBVIOUS
      <4> QED
        BY <3>3, <3>4, <3>5, <4>1, SameSeq
    <3>7. k > 1 => k < n + 1 /\ pushes'[k - 1] < t - KeepFor
      <4> SUFFICES ASSUME k > 1 PROVE k < n + 1 /\ pushes'[k - 1] < t - KeepFor
        OBVIOUS
      <4>1. k - 1 \in 1..n /\ n \in 1..n /\ pushes[k - 1] < pushes[n] - KeepFor /\ pushes[n] < t
        BY <1>3, <2>2, <3>1
      <4>2. pushes[k - 1] \in Nat /\ pushes[n] \in Nat /\ pushes'[k - 1] = pushes[k - 1]
        BY <1>4, <1>5, <4>1
      <4> QED
        BY <1>1, <4>1, <4>2
    <3>8. k \in 1..n + 1
      OBVIOUS
    <3> QED
      BY <3>6, <3>7, <3>8
  <2> QED
    BY <2>1, <2>2
<1> DEFINE b == Append(buffer, t)
<1>8. /\ b \in Seq(Nat) /\ Len(b) = n + 1 - k + 1 /\ Len(b) > 0
      /\ \A i \in 1..n + 1 - k + 1 : b[i] = pushes'[k + i - 1]
  <2>1. k \in 1..n + 1 /\ n + 1 = Len(pushes') /\ pushes' \in Seq(Nat)
    BY <1>4
  <2>2. /\ SubSeq(pushes', k, n + 1) \in Seq(Nat) /\ Len(SubSeq(pushes', k, n + 1)) = n + 1 - k + 1
        /\ \A i \in 1..n + 1 - k + 1 : SubSeq(pushes', k, n + 1)[i] = pushes'[k + i - 1]
    <3>1. IsPart(SubSeq(pushes', k, n + 1), pushes', k, n + 1)
      BY <2>1, PartUpTo
    <3> QED
      BY <3>1 DEF IsPart
  <2> QED
    BY <1>7, <2>2
<1> HIDE DEF b
<1>9. PICK i \in 1..Len(b) : /\ Trimmed(b) = SubSeq(b, i, Len(b))
                             /\ i > 1 => i < Len(b) /\ b[i - 1] < b[Len(b)] - KeepFor
  BY <1>8, TrimmedIs
<1>10. PICK m \in 1..n + 1 : m = k + i - 1
  BY <1>8
<1>11. buffer' = SubSeq(pushes', m, n + 1)
  <2>1. buffer' = SubSeq(b, i, Len(b))
    BY <1>3, <1>9 DEF b
  <2>2. /\ SubSeq(b, i, Len(b)) \in Seq(Nat) /\ Len(SubSeq(b, i, Len(b))) = Len(b) - i + 1
        /\ \A j \in 1..Len(b) - i + 1 : SubSeq(b, i, Len(b))[j] = b[i + j - 1]
    <3>1. b \in Seq(Nat) /\ i \in 1..Len(b)
      BY <1>8, <1>9
    <3> QED
      BY <3>1, PartOf
  <2>3. /\ SubSeq(pushes', m, n + 1) \in Seq(Nat) /\ Len(SubSeq(pushes', m, n + 1)) = n + 1 - m + 1
        /\ \A j \in 1..n + 1 - m + 1 : SubSeq(pushes', m, n + 1)[j] = pushes'[m + j - 1]
    <3>1. m \in 1..n + 1 /\ n + 1 = Len(pushes') /\ pushes' \in Seq(Nat)
      BY <1>4
    <3>2. IsPart(SubSeq(pushes', m, n + 1), pushes', m, n + 1)
      BY <3>1, PartUpTo
    <3> QED
      BY <3>2 DEF IsPart
  <2>4. Len(b) - i + 1 = n + 1 - m + 1
    BY <1>8, <1>10
  <2>5. ASSUME NEW j \in 1..Len(b) - i + 1
        PROVE  SubSeq(b, i, Len(b))[j] = SubSeq(pushes', m, n + 1)[j]
    <3>1. i + j - 1 \in 1..n + 1 - k + 1 /\ k + (i + j - 1) - 1 = m + j - 1
      <4>1. PICK w \in Nat : w = n + 1 - k + 1 /\ Len(b) = w
        BY <1>8
      <4>2. PICK x \in 1..w, y \in 1..w : x = i /\ y = j /\ y <= w - x + 1
        BY <1>9, <2>5, <4>1
      <4>3. x + y - 1 \in 1..w
        BY <4>1, <4>2
      <4>4. k + (x + y - 1) - 1 = (k + x - 1) + y - 1
        BY <4>1, <4>2
      <4> QED
        BY <1>10, <4>1, <4>2, <4>3, <4>4
    <3>2. b[i + j - 1] = pushes'[m + j - 1]
      BY <1>8, <3>1
    <3> QED
      BY <2>2, <2>3, <2>4, <3>2
  <2> QED
    BY <2>1, <2>2, <2>3, <2>4, <2>5, SameSeq
<1>12. m > 1 => m < n + 1 /\ pushes'[m - 1] < pushes'[n + 1] - KeepFor
  <2>1. CASE i = 1
    BY <1>4, <1>7, <1>10, <2>1
  <2>2. CASE i > 1
    <3>1. i < Len(b) /\ b[i - 1] < b[Len(b)] - KeepFor
      BY <1>9, <2>2
    <3>2. i - 1 \in 1..n + 1 - k + 1 /\ k + (i - 1) - 1 = m - 1 /\ Len(b) \in 1..n + 1 - k + 1
          /\ k + Len(b) - 1 = n + 1
      BY <1>8, <1>10, <2>2
    <3>3. b[i - 1] = pushes'[m - 1] /\ b[Len(b)] = pushes'[n + 1]
      BY <1>8, <3>2
    <3> QED
      BY <1>8, <1>10, <3>1, <3>3
  <2> QED
    BY <2>1, <2>2
<1> QED
  BY <1>4, <1>6, <1>11, <1>12 DEF RemoteOK

Between(b, t) == {i \in 1..Len(b) - 1 : b[i] <= t /\ t <= b[i + 1]}
Earliest(b, t) == CHOOSE k \in Between(b, t) : \A j \in Between(b, t) : k <= j
Ends(b, t, i) == IF t = b[i + 1] THEN {b[i + 1]} ELSE {b[i], b[i + 1]}

LEMMA SampleIs ==
  ASSUME NEW b, NEW t, Len(b) # 1, ~(t <= b[1])
  PROVE  Sample(b, t) = IF Between(b, t) = {} THEN {Last(b)} ELSE Ends(b, t, Earliest(b, t))
BY DEF Sample, Between, Earliest, Ends

\* Snapshots that are older than the render time make no difference.
LEMMA SampleOfRest ==
  ASSUME NEW s \in Seq(Nat), NEW n \in Nat, Len(s) = n,
         \A i, j \in 1..n : i < j => s[i] < s[j],
         NEW k \in 2..n - 1, NEW t \in Int, s[k] < t
  PROVE  Sample(SubSeq(s, k, n), t) = Sample(s, t)
<1> DEFINE b == SubSeq(s, k, n)
<1>1. \A i \in 1..n : s[i] \in Nat
  OBVIOUS
<1>2. b \in Seq(Nat) /\ Len(b) = n - k + 1 /\ \A i \in 1..n - k + 1 : b[i] = s[k + i - 1]
  <2>1. k \in 1..Len(s)
    OBVIOUS
  <2> QED
    BY <2>1, PartOf
<1> HIDE DEF b
<1>3. \A i \in 1..k : s[i] < t
  <2> TAKE i \in 1..k
  <2>1. i \in 1..n /\ k \in 1..n /\ (i = k \/ i < k)
    OBVIOUS
  <2>2. s[i] \in Nat /\ s[k] \in Nat /\ (i = k \/ s[i] < s[k])
    BY <1>1, <2>1
  <2> QED
    BY <2>2
<1>4. Sample(s, t) = IF Between(s, t) = {} THEN {Last(s)} ELSE Ends(s, t, Earliest(s, t))
  <2>1. 1 \in 1..k /\ 1 \in 1..n
    OBVIOUS
  <2>2. ~(t <= s[1]) /\ Len(s) # 1
    BY <1>1, <1>3, <2>1
  <2> QED
    BY <2>2, SampleIs
<1>5. Sample(b, t) = IF Between(b, t) = {} THEN {Last(b)} ELSE Ends(b, t, Earliest(b, t))
  <2>1. k \in 1..n /\ 1 \in 1..n - k + 1 /\ k + 1 - 1 = k /\ Len(b) # 1
    BY <1>2
  <2>2. b[1] = s[k] /\ s[k] \in Nat
    BY <1>1, <1>2, <2>1
  <2>3. ~(t <= b[1])
    BY <2>2
  <2> QED
    BY <2>1, <2>3, SampleIs
<1>6. Last(b) = Last(s)
  <2>1. Last(b) = b[n - k + 1] /\ Last(s) = s[n] /\ n - k + 1 \in 1..n - k + 1 /\ k + (n - k + 1) - 1 = n
    BY <1>2 DEF Last
  <2> QED
    BY <1>2, <2>1
<1>7. \A i \in Between(s, t) : i - (k - 1) \in Between(b, t)
  <2> TAKE i \in Between(s, t)
  <2>1. i \in 1..n - 1 /\ s[i] <= t /\ t <= s[i + 1]
    BY DEF Between
  <2>2. i >= k
    <3> SUFFICES ASSUME i < k PROVE FALSE
      BY <2>1
    <3>1. i + 1 \in 1..k /\ i + 1 \in 1..n
      BY <2>1
    <3>2. s[i + 1] < t /\ s[i + 1] \in Nat
      BY <1>1, <1>3, <3>1
    <3> QED
      BY <2>1, <3>2
  <2>3. PICK j \in 1..n - k : j = i - (k - 1)
    BY <2>1, <2>2
  <2>4. b[j] = s[i] /\ b[j + 1] = s[i + 1]
    <3>1. j \in 1..n - k + 1 /\ j + 1 \in 1..n - k + 1 /\ k + j - 1 = i /\ k + (j + 1) - 1 = i + 1
      BY <2>1, <2>3
    <3> QED
      BY <1>2, <3>1
  <2>5. j \in 1..Len(b) - 1
    BY <1>2
  <2> QED
    BY <2>1, <2>3, <2>4, <2>5 DEF Between
<1>8. \A j \in Between(b, t) : j + (k - 1) \in Between(s, t)
  <2> TAKE j \in Between(b, t)
  <2>1. j \in 1..n - k /\ b[j] <= t /\ t <= b[j + 1]
    BY <1>2 DEF Between
  <2>2. PICK i \in 1..n - 1 : i = j + (k - 1)
    BY <2>1
  <2>3. b[j] = s[i] /\ b[j + 1] = s[i + 1]
    <3>1. j \in 1..n - k + 1 /\ j + 1 \in 1..n - k + 1 /\ k + j - 1 = i /\ k + (j + 1) - 1 = i + 1
      BY <2>1, <2>2
    <3> QED
      BY <1>2, <3>1
  <2> QED
    BY <2>1, <2>2, <2>3 DEF Between
<1>9. CASE Between(s, t) = {}
  <2>1. Between(b, t) = {}
    BY <1>8, <1>9
  <2> QED
    BY <1>4, <1>5, <1>6, <1>9, <2>1 DEF b
<1>10. CASE Between(s, t) # {}
  <2>1. Between(b, t) # {}
    BY <1>7, <1>10
  <2>2. Between(s, t) \in SUBSET Nat /\ Between(b, t) \in SUBSET Nat
    BY <1>2 DEF Between
  <2>3. /\ Earliest(s, t) \in Between(s, t)
        /\ \A j \in Between(s, t) : Earliest(s, t) <= j
    <3>1. \E m \in Between(s, t) : \A j \in Between(s, t) : m <= j
      BY <1>10, <2>2, LeastOf
    <3> QED
      BY <3>1 DEF Earliest
  <2>4. /\ Earliest(b, t) \in Between(b, t)
        /\ \A j \in Between(b, t) : Earliest(b, t) <= j
    <3>1. \E m \in Between(b, t) : \A j \in Between(b, t) : m <= j
      BY <2>1, <2>2, LeastOf
    <3> QED
      BY <3>1 DEF Earliest
  <2>5. PICK i \in Nat, j \in Nat : i = Earliest(s, t) /\ j = Earliest(b, t)
    BY <2>2, <2>3, <2>4
  <2>6. i = j + (k - 1)
    <3>1. i <= j + (k - 1)
      BY <1>8, <2>3, <2>4, <2>5
    <3>2. j <= i - (k - 1)
      BY <1>7, <2>3, <2>4, <2>5
    <3> QED
      BY <3>1, <3>2
  <2>7. j \in 1..n - k
    BY <1>2, <2>4, <2>5 DEF Between
  <2>8. b[j] = s[i] /\ b[j + 1] = s[i + 1]
    <3>1. j \in 1..n - k + 1 /\ j + 1 \in 1..n - k + 1 /\ k + j - 1 = i /\ k + (j + 1) - 1 = i + 1
      BY <2>6, <2>7
    <3> QED
      BY <1>2, <3>1
  <2>9. Ends(s, t, i) = Ends(b, t, j)
    BY <2>8 DEF Ends
  <2> QED
    BY <1>4, <1>5, <1>10, <2>1, <2>5, <2>9 DEF b
<1> QED
  BY <1>9, <1>10

LEMMA DrawnRightly ==
  ASSUME RemoteOK
  PROVE  DrawnBetween
<1> SUFFICES ASSUME pushes # <<>>,
                    \A i \in 2..Len(pushes) : pushes[i] - pushes[i - 1] <= KeepFor - Delay,
                    NEW t \in Last(pushes) - Delay..Last(pushes)
             PROVE  Sample(buffer, t) = Sample(pushes, t)
  BY DEF DrawnBetween
<1>1. pushes \in Seq(Nat) /\ KeepFor \in Nat /\ Delay \in Nat
  BY NetcodeAssumption DEF RemoteOK
<1>2. PICK n \in Nat : n = Len(pushes) /\ n > 0
  <2>1. Len(pushes) \in Nat /\ Len(pushes) > 0
    BY <1>1
  <2> QED
    BY <2>1
<1>3. Last(pushes) = pushes[n] /\ n \in 1..n /\ \A i \in 1..n : pushes[i] \in Nat
  BY <1>1, <1>2 DEF Last
<1>4. PICK k \in 1..n : /\ buffer = SubSeq(pushes, k, n)
                        /\ k > 1 => k < n /\ pushes[k - 1] < pushes[n] - KeepFor
  BY <1>2 DEF RemoteOK
<1>5. CASE k = 1
  <2>1. SubSeq(pushes, 1, Len(pushes)) = pushes
    BY <1>1
  <2>2. buffer = pushes
    BY <1>2, <1>4, <1>5, <2>1
  <2> QED
    BY <2>2
<1>6. CASE k > 1
  <2>1. k \in 2..n - 1 /\ k \in 2..n /\ k - 1 \in 1..n /\ k \in 1..n
    BY <1>4, <1>6
  <2>2. pushes[k] - pushes[k - 1] <= KeepFor - Delay
    BY <1>2, <2>1
  <2>3. PICK x \in Nat, y \in Nat, z \in Nat, f \in Nat, d \in Nat :
          /\ pushes[k - 1] = x /\ pushes[k] = y /\ pushes[n] = z
          /\ KeepFor = f /\ Delay = d
    BY <1>1, <1>3, <2>1
  <2>4. x < z - f /\ y - x <= f - d
    BY <1>4, <1>6, <2>2, <2>3
  <2>5. t \in z - d..z /\ t \in Int
    BY <1>3, <2>3
  <2>6. y < t
    BY <2>4, <2>5
  <2>7. \A i, j \in 1..n : i < j => pushes[i] < pushes[j]
    BY <1>2 DEF RemoteOK
  <2>8. pushes[k] < t
    BY <2>3, <2>6
  <2> QED
    BY <1>1, <1>2, <1>4, <2>1, <2>5, <2>7, <2>8, SampleOfRest
<1> QED
  BY <1>5, <1>6

-----------------------------------------------------------------------------
(* The client's steps.                                                     *)
LEMMA NetcodeBounds ==
  /\ MaxHistory \in Nat /\ MaxQueue \in Nat \ {0} /\ Neutral \in Inputs
  /\ Origin \in CarStates /\ Start \in CarStates
  /\ \A s \in CarStates, input \in Inputs : Drive(s, input) \in CarStates
  /\ \A s \in CarStates : Bank(s) \in CarStates
BY NetcodeAssumption

LEMMA HeardAckIs ==
  ASSUME NetcodeTypeOK
  PROVE  HeardAck \in Nat /\ (heard.ack >= 0 => HeardAck = heard.ack) /\ heard.ack \in Int
         /\ heard.car \in CarStates
BY DEF NetcodeTypeOK, HeardAck

\* The frame of a tick is recorded, and the oldest one goes when there are too many.
LEMMA TickRecords ==
  ASSUME NetcodeTypeOK, HistoryOK, NEW input \in Inputs, ClientTick(input)
  PROVE  \E e \in {0, 1} :
           /\ history' \in Seq(PredictedFrame) /\ Len(history') = Len(history) + 1 - e
           /\ \A i \in 1..Len(history) - e : history'[i] = history[i + e]
           /\ Len(history) + 1 - e > 0 =>
                history'[Len(history) + 1 - e] = [seq |-> seqNo + 1, input |-> input, after |-> predicted']
           /\ e = 0 => Len(history) < MaxHistory /\ smooth' = smooth
           /\ e = 1 => Len(history) = MaxHistory /\ smooth' = FALSE
<1> DEFINE x == [seq |-> seqNo + 1, input |-> input, after |-> predicted']
           h == Append(history, x)
<1>1. /\ predicted' = Drive(predicted, input) /\ seqNo' = seqNo + 1
      /\ history' = IF Len(h) > MaxHistory THEN Tail(h) ELSE h
      /\ smooth' = (smooth /\ Len(h) <= MaxHistory)
  BY DEF ClientTick
<1>2. x \in PredictedFrame
  <2>1. predicted' \in CarStates /\ seqNo + 1 \in Nat \ {0}
    BY <1>1, NetcodeBounds DEF NetcodeTypeOK
  <2> QED
    BY <2>1 DEF PredictedFrame
<1>3. history \in Seq(PredictedFrame) /\ Len(history) \in Nat /\ Len(history) <= MaxHistory /\ MaxHistory \in Nat
  BY NetcodeBounds DEF NetcodeTypeOK, HistoryOK
<1> HIDE DEF x
<1>4. h \in Seq(PredictedFrame) /\ Len(h) = Len(history) + 1 /\ h[Len(history) + 1] = x
      /\ \A i \in 1..Len(history) : h[i] = history[i]
  BY <1>2, <1>3
<1> HIDE DEF h
<1>5. CASE Len(history) < MaxHistory
  <2>0. ~(Len(h) > MaxHistory) /\ Len(h) <= MaxHistory
    BY <1>3, <1>4, <1>5
  <2>1. history' = h /\ smooth' = smooth
    BY <1>1, <2>0 DEF NetcodeTypeOK
  <2> QED
    BY <1>3, <1>4, <1>5, <2>1 DEF x
<1>6. CASE Len(history) = MaxHistory
  <2>0. Len(h) > MaxHistory /\ ~(Len(h) <= MaxHistory)
    BY <1>3, <1>4, <1>6
  <2>1. history' = Tail(h) /\ smooth' = FALSE
    BY <1>1, <2>0
  <2>2. /\ Tail(h) \in Seq(PredictedFrame) /\ Len(Tail(h)) = Len(history)
        /\ \A i \in 1..Len(history) : Tail(h)[i] = h[i + 1]
    BY <1>3, <1>4
  <2>3. \A i \in 1..Len(history) - 1 : history'[i] = history[i + 1]
    <3> TAKE i \in 1..Len(history) - 1
    <3>1. i \in 1..Len(history) /\ i + 1 \in 1..Len(history)
      BY <1>3
    <3> QED
      BY <1>4, <2>1, <2>2, <3>1
  <2>4. Len(history) > 0 => history'[Len(history)] = x
    <3>1. Len(history) > 0 => Len(history) \in 1..Len(history)
      BY <1>3
    <3> QED
      BY <1>4, <2>1, <2>2, <3>1
  <2>5. Len(history) + 1 - 1 = Len(history)
    BY <1>3
  <2> QED
    BY <1>6, <2>1, <2>2, <2>3, <2>4, <2>5 DEF x
<1>7. Len(history) < MaxHistory \/ Len(history) = MaxHistory
  BY <1>3
<1> QED
  BY <1>5, <1>6, <1>7

LEMMA TickHistory ==
  ASSUME NetcodeTypeOK, HistoryOK, NEW input \in Inputs, ClientTick(input)
  PROVE  HistoryOK'
<1>1. /\ seqNo \in Nat /\ seqNo' = seqNo + 1 /\ heard' = heard /\ base' = base
      /\ predicted' = Drive(predicted, input)
      /\ pressed \in Seq(Inputs) /\ Len(pressed) = seqNo /\ pressed' = Append(pressed, input)
      /\ history \in Seq(PredictedFrame)
  BY DEF ClientTick, NetcodeTypeOK
<1>2. HeardAck \in Nat /\ HeardAck' = HeardAck
  BY <1>1, HeardAckIs DEF HeardAck
<1>3. PICK H \in Nat : H = Len(history)
  BY <1>1
<1>4. PICK e \in {0, 1} :
        /\ history' \in Seq(PredictedFrame) /\ Len(history') = H + 1 - e
        /\ \A i \in 1..H - e : history'[i] = history[i + e]
        /\ H + 1 - e > 0 =>
             history'[H + 1 - e] = [seq |-> seqNo + 1, input |-> input, after |-> predicted']
        /\ e = 0 => H < MaxHistory
        /\ e = 1 => H = MaxHistory
  BY <1>3, TickRecords
<1>5. /\ H <= seqNo - HeardAck /\ H <= MaxHistory /\ MaxHistory \in Nat
      /\ H = seqNo - HeardAck \/ H = MaxHistory
      /\ \A i \in 1..H : history[i].seq = seqNo - H + i /\ history[i].input = pressed[seqNo - H + i]
      /\ \A i \in 1..H - 1 : history[i + 1].after = Drive(history[i].after, history[i + 1].input)
      /\ H > 0 => predicted = history[H].after
      /\ H = seqNo - HeardAck =>
           /\ H = 0 => predicted = base
           /\ H > 0 => history[1].after = Drive(base, history[1].input)
      /\ heard.ack >= 0 => Pose(base) = Pose(heard.car)
  BY <1>3, NetcodeBounds DEF HistoryOK
<1>6. /\ \A i \in 1..seqNo : pressed'[i] = pressed[i]
      /\ pressed'[seqNo + 1] = input
  BY <1>1
<1>7. PICK M \in Nat : M = H + 1 - e /\ M = Len(history')
  BY <1>4
<1>8. /\ M <= seqNo' - HeardAck' /\ M <= MaxHistory
      /\ M = seqNo' - HeardAck' \/ M = MaxHistory
  BY <1>1, <1>2, <1>4, <1>5, <1>7
<1>9. ASSUME NEW i \in 1..M
      PROVE  /\ history'[i].seq = seqNo' - M + i
             /\ history'[i].input = pressed'[seqNo' - M + i]
  <2>1. CASE i = M
    <3>0. PICK n \in Nat : n = seqNo
      BY <1>1
    <3>1. seqNo' - M + i = seqNo + 1 /\ M > 0
      <4>1. PICK k \in 1..M : k = i
        OBVIOUS
      <4>2. (n + 1) - M + k = n + 1 /\ M > 0
        BY <2>1, <4>1
      <4> QED
        BY <1>1, <3>0, <4>1, <4>2
    <3>2. history'[i] = [seq |-> seqNo + 1, input |-> input, after |-> predicted']
      BY <1>4, <1>7, <2>1, <3>1
    <3> QED
      BY <1>6, <3>1, <3>2
  <2>2. CASE i # M
    <3>0. i \in 1..H - e /\ i + e \in 1..H
      BY <1>4, <1>7, <2>2
    <3>1. i \in 1..H - e /\ i + e \in 1..H /\ seqNo - H + (i + e) \in 1..seqNo
      <4>1. PICK k \in 1..H : k = i + e
        BY <3>0
      <4>2. PICK n \in Nat : n = seqNo
        BY <1>1
      <4>3. H <= n
        BY <1>2, <1>5, <4>2
      <4>4. n - H + k \in 1..n
        BY <4>3
      <4> QED
        BY <3>0, <4>1, <4>2, <4>4
    <3>2. seqNo' - M + i = seqNo - H + (i + e)
      BY <1>1, <1>7, <1>4
    <3>3. history'[i] = history[i + e]
      BY <1>4, <3>1
    <3>4. history[i + e].seq = seqNo - H + (i + e) /\ history[i + e].input = pressed[seqNo - H + (i + e)]
      BY <1>5, <3>1
    <3>5. pressed'[seqNo - H + (i + e)] = pressed[seqNo - H + (i + e)]
      BY <1>6, <3>1
    <3> QED
      BY <3>2, <3>3, <3>4, <3>5
  <2> QED
    BY <2>1, <2>2
<1>10. ASSUME NEW i \in 1..M - 1
       PROVE  history'[i + 1].after = Drive(history'[i].after, history'[i + 1].input)
  <2>1. i \in 1..H - e /\ i + e \in 1..H /\ history'[i] = history[i + e]
    BY <1>4, <1>7
  <2>2. CASE i + 1 = M
    <3>1. i + e = H /\ H > 0
      BY <1>4, <1>7, <2>1, <2>2
    <3>2. history'[i].after = predicted
      BY <1>5, <2>1, <3>1
    <3>3. history'[i + 1].after = predicted' /\ history'[i + 1].input = input
      BY <1>4, <1>7, <2>2
    <3> QED
      BY <1>1, <3>2, <3>3
  <2>3. CASE i + 1 # M
    <3>1. i + 1 \in 1..H - e /\ i + e \in 1..H - 1 /\ (i + 1) + e = (i + e) + 1
      BY <1>4, <1>7, <2>3
    <3>2. history'[i + 1] = history[(i + 1) + e]
      BY <1>4, <3>1
    <3>3. history'[i + 1] = history[(i + e) + 1]
      BY <3>1, <3>2
    <3>4. history[(i + e) + 1].after = Drive(history[i + e].after, history[(i + e) + 1].input)
      BY <1>5, <3>1
    <3> QED
      BY <2>1, <3>3, <3>4
  <2> QED
    BY <2>2, <2>3
<1>11. M > 0 => predicted' = history'[M].after
  BY <1>4, <1>7
<1>12. ASSUME M = seqNo' - HeardAck'
       PROVE  /\ M = 0 => predicted' = base'
              /\ M > 0 => history'[1].after = Drive(base', history'[1].input)
  <2>1. H = seqNo - HeardAck /\ e = 0 /\ M = H + 1
    BY <1>1, <1>2, <1>4, <1>5, <1>7, <1>12
  <2>2. CASE H = 0
    <3>1. predicted = base /\ M = 1
      BY <1>5, <2>1, <2>2
    <3>2. history'[1].after = predicted' /\ history'[1].input = input
      BY <1>4, <1>7, <3>1
    <3> QED
      BY <1>1, <3>1, <3>2
  <2>3. CASE H > 0
    <3>1. history[1].after = Drive(base, history[1].input)
      BY <1>5, <2>1, <2>3
    <3>2. 1 \in 1..H - e /\ 1 + e = 1
      BY <2>1, <2>3
    <3>3. history'[1] = history[1]
      BY <1>4, <3>2
    <3> QED
      BY <1>1, <2>1, <3>1, <3>3
  <2> QED
    BY <2>2, <2>3
<1>13. heard'.ack >= 0 => Pose(base') = Pose(heard'.car)
  BY <1>1, <1>5
<1> QED
  BY <1>7, <1>8, <1>9, <1>10, <1>11, <1>12, <1>13 DEF HistoryOK

\* The numbers of what is queued, under way and used.
LEMMA Numbered ==
  ASSUME NetcodeTypeOK
  PROVE  /\ \A i \in 1..Len(frames) : frames[i] \in SentFrame /\ frames[i].seq \in Nat \ {0}
         /\ \A i \in 1..Len(up) : up[i] \in SentFrame /\ up[i].seq \in Nat \ {0}
         /\ \A i \in 1..Len(replayed) : replayed[i].seq \in Nat \ {0}
         /\ \A i \in 1..Len(history) : history[i] \in PredictedFrame /\ history[i].seq \in Nat \ {0}
         /\ Len(history) \in Nat /\ Len(up) \in Nat /\ seqNo \in Nat /\ lastAck \in Nat
<1>1. /\ frames \in Seq(SentFrame) /\ up \in Seq(SentFrame) /\ replayed \in Seq(SentFrame)
      /\ history \in Seq(PredictedFrame) /\ seqNo \in Nat /\ lastAck \in Nat
  BY DEF NetcodeTypeOK
<1>2. /\ \A i \in 1..Len(frames) : frames[i] \in SentFrame
      /\ \A i \in 1..Len(up) : up[i] \in SentFrame
      /\ \A i \in 1..Len(replayed) : replayed[i] \in SentFrame
      /\ \A i \in 1..Len(history) : history[i] \in PredictedFrame
  BY <1>1
<1>3. (\A f \in SentFrame : f.seq \in Nat \ {0}) /\ \A f \in PredictedFrame : f.seq \in Nat \ {0}
  BY DEF SentFrame, PredictedFrame
<1> QED
  BY <1>1, <1>2, <1>3

LEMMA TickTyped ==
  ASSUME NetcodeTypeOK, HistoryOK, NEW input \in Inputs, ClientTick(input)
  PROVE  NetcodeTypeOK'
<1>1. /\ seqNo' = seqNo + 1 /\ pressed' = Append(pressed, input)
      /\ predicted' = Drive(predicted, input)
      /\ up' = Append(up, [seq |-> seqNo + 1, input |-> input])
      /\ UNCHANGED <<base, heard, sim, frames, replayed, down, lastAck, crossed>>
  BY DEF ClientTick, serverVars
<1>2. predicted' \in CarStates
  BY <1>1, NetcodeBounds DEF NetcodeTypeOK
<1>3. pressed' \in Seq(Inputs) /\ Len(pressed') = seqNo' /\ seqNo' \in Nat
  BY <1>1 DEF NetcodeTypeOK
<1>4. up' \in Seq(SentFrame)
  <2>1. [seq |-> seqNo + 1, input |-> input] \in SentFrame
    BY DEF NetcodeTypeOK, SentFrame
  <2> QED
    BY <1>1, <2>1 DEF NetcodeTypeOK
<1>5. history' \in Seq(PredictedFrame) /\ smooth' \in BOOLEAN
  BY TickRecords DEF NetcodeTypeOK
<1> QED
  BY <1>1, <1>2, <1>3, <1>4, <1>5 DEF NetcodeTypeOK

\* What the player presses next leaves what he has pressed alone.
LEMMA TickPresses ==
  ASSUME NetcodeTypeOK, NEW input \in Inputs, ClientTick(input)
  PROVE  /\ seqNo' = seqNo + 1 /\ \A i \in 1..seqNo : pressed'[i] = pressed[i]
         /\ pressed'[seqNo + 1] = input
         /\ \A i \in 0..seqNo : /\ Course(Start, pressed')[i] = Course(Start, pressed)[i]
                                /\ Course(First, pressed')[i] = Course(First, pressed)[i]
         /\ First' = First
         /\ Course(First, pressed')[seqNo + 1] = Drive(Course(First, pressed)[seqNo], input)
<1>1. /\ seqNo' = seqNo + 1 /\ pressed' = Append(pressed, input) /\ pressed \in Seq(Inputs)
      /\ seqNo \in Nat /\ Len(pressed) = seqNo /\ heard' = heard
  BY DEF ClientTick, NetcodeTypeOK
<1>2. \A i \in 0..Len(pressed) : /\ Course(Start, pressed')[i] = Course(Start, pressed)[i]
                                 /\ Course(First, pressed')[i] = Course(First, pressed)[i]
  BY <1>1, CourseGrows
<1>3. Course(First, pressed')[Len(pressed) + 1] = Drive(Course(First, pressed)[Len(pressed)], input)
  BY <1>1, CourseGrows
<1> QED
  BY <1>1, <1>2, <1>3 DEF First

LEMMA TickAcks ==
  ASSUME AcksOK, NEW input \in Inputs, ClientTick(input)
  PROVE  AcksOK'
BY DEF AcksOK, ClientTick, serverVars, HeardAck

LEMMA TickFrames ==
  ASSUME NetcodeTypeOK, FramesOK, NEW input \in Inputs, ClientTick(input)
  PROVE  FramesOK'
<1> DEFINE f == [seq |-> seqNo + 1, input |-> input]
<1>1. /\ up' = Append(up, f) /\ frames' = frames /\ lastAck' = lastAck
  BY DEF ClientTick, serverVars
<1>2. /\ seqNo \in Nat /\ up \in Seq(SentFrame) /\ frames \in Seq(SentFrame) /\ lastAck \in Nat
  BY DEF NetcodeTypeOK
<1>3. /\ seqNo' = seqNo + 1 /\ \A i \in 1..seqNo : pressed'[i] = pressed[i]
      /\ pressed'[seqNo + 1] = input
  BY TickPresses
<1>4. PICK n \in Nat, H \in Nat, k \in Nat : n = seqNo /\ H = Len(up) /\ k = lastAck
  BY <1>2
<1>5. f.seq = n + 1 /\ f.input = input
  BY <1>4
<1> HIDE DEF f
<1>6. Len(up') = H + 1 /\ up'[H + 1] = f /\ \A i \in 1..H : up'[i] = up[i]
  BY <1>1, <1>2, <1>4
<1>7. k + H <= n /\ \A i \in 1..H : up[i].seq = n - H + i /\ up[i].input = pressed[n - H + i]
  BY <1>4 DEF FramesOK
<1>8. ASSUME NEW i \in 1..H + 1
      PROVE  up'[i].seq = seqNo' - Len(up') + i /\ up'[i].input = pressed'[seqNo' - Len(up') + i]
  <2>1. seqNo' - Len(up') + i = n - H + i
    <3>1. (n + 1) - (H + 1) + i = n - H + i
      OBVIOUS
    <3> QED
      BY <1>3, <1>4, <1>6, <3>1
  <2>2. CASE i = H + 1
    <3>1. n - H + i = n + 1
      BY <2>2
    <3> QED
      BY <1>3, <1>4, <1>5, <1>6, <2>1, <2>2, <3>1
  <2>3. CASE i \in 1..H
    <3>1. n - H + i \in 1..n
      BY <1>7, <2>3
    <3> QED
      BY <1>3, <1>4, <1>6, <1>7, <2>1, <2>3, <3>1
  <2> QED
    BY <2>2, <2>3
<1>9. lastAck' + Len(up') <= seqNo'
  BY <1>1, <1>3, <1>4, <1>6, <1>7
<1>10. /\ Len(frames') <= MaxQueue
       /\ \A i \in 1..Len(frames') :
            /\ lastAck' < frames'[i].seq /\ frames'[i].seq <= seqNo' - Len(up')
            /\ frames'[i].input = pressed'[frames'[i].seq]
            /\ \A j \in 1..Len(frames') : i < j => frames'[i].seq < frames'[j].seq
  <2>1. seqNo' - Len(up') = seqNo - Len(up)
    BY <1>3, <1>4, <1>6
  <2>2. \A i \in 1..Len(frames) : frames[i].seq \in 1..seqNo
    <3> TAKE i \in 1..Len(frames)
    <3>1. frames[i].seq \in Nat \ {0}
      BY Numbered
    <3>2. PICK s \in Nat \ {0} : s = frames[i].seq
      BY <3>1
    <3>3. s <= n - H
      BY <1>4, <3>2 DEF FramesOK
    <3> QED
      BY <1>4, <3>2, <3>3
  <2> QED
    BY <1>1, <1>3, <2>1, <2>2 DEF FramesOK
<1> QED
  BY <1>6, <1>8, <1>9, <1>10 DEF FramesOK

LEMMA TickReplayed ==
  ASSUME NetcodeTypeOK, FramesOK, ReplayedOK, NEW input \in Inputs, ClientTick(input)
  PROVE  ReplayedOK'
<1>1. replayed' = replayed /\ lastAck' = lastAck
  BY DEF ClientTick, serverVars
<1>2. \A i \in 1..seqNo : pressed'[i] = pressed[i]
  BY TickPresses
<1>3. \A i \in 1..Len(replayed) : replayed[i].seq \in 1..seqNo
  <2> TAKE i \in 1..Len(replayed)
  <2>1. replayed[i].seq \in Nat \ {0} /\ lastAck \in Nat /\ seqNo \in Nat /\ Len(up) \in Nat
    BY Numbered
  <2>2. PICK s \in Nat \ {0}, k \in Nat, n \in Nat, H \in Nat :
          s = replayed[i].seq /\ k = lastAck /\ n = seqNo /\ H = Len(up)
    BY <2>1
  <2>3. s <= k /\ k + H <= n
    BY <2>2 DEF ReplayedOK, FramesOK
  <2> QED
    BY <2>2, <2>3
<1> QED
  BY <1>1, <1>2, <1>3 DEF ReplayedOK

LEMMA TickSmooth ==
  ASSUME OnlineIInv, NEW input \in Inputs, ClientTick(input)
  PROVE  SmoothOK'
<1> SUFFICES ASSUME smooth', ~crossed'
             PROVE  /\ \A n \in lastAck' + 1..seqNo' - Len(up') : \E i \in 1..Len(frames') : frames'[i].seq = n
                    /\ sim' = Course(Start, pressed')[lastAck']
                    /\ \A i \in 1..Len(down') : down'[i].kind = "state" =>
                         down'[i].car = Course(Start, pressed')[down'[i].ack]
                    /\ Len(history') = seqNo' - HeardAck'
                    /\ \A i \in 1..Len(history') : history'[i].after = Course(First', pressed')[history'[i].seq]
                    /\ predicted' = Course(First', pressed')[seqNo']
                    /\ heard'.ack >= 0 => base' = heard'.car /\ base' = Course(Start, pressed')[heard'.ack]
  BY DEF SmoothOK, Room
<1>1. NetcodeTypeOK /\ HistoryOK /\ AcksOK /\ FramesOK /\ SmoothOK
  BY DEF OnlineIInv
<1>2. /\ UNCHANGED <<base, heard, sim, frames, lastAck, crossed, down>>
      /\ up' = Append(up, [seq |-> seqNo + 1, input |-> input])
      /\ predicted' = Drive(predicted, input)
  BY DEF ClientTick, serverVars
<1>3. PICK e \in {0, 1} :
        /\ history' \in Seq(PredictedFrame) /\ Len(history') = Len(history) + 1 - e
        /\ \A i \in 1..Len(history) - e : history'[i] = history[i + e]
        /\ Len(history) + 1 - e > 0 =>
             history'[Len(history) + 1 - e] = [seq |-> seqNo + 1, input |-> input, after |-> predicted']
        /\ e = 0 => smooth' = smooth
        /\ e = 1 => smooth' = FALSE
  BY <1>1, TickRecords
<1>4. e = 0 /\ smooth
  BY <1>3
<1>5. PICK H \in Nat, n \in Nat, k \in Nat, h \in Nat, u \in Nat :
        H = Len(history) /\ n = seqNo /\ k = lastAck /\ h = HeardAck /\ u = Len(up)
  BY <1>1, HeardAckIs, Numbered
<1>6. /\ Len(history') = H + 1
      /\ \A i \in 1..H : history'[i] = history[i]
      /\ history'[H + 1] = [seq |-> n + 1, input |-> input, after |-> predicted']
  BY <1>3, <1>4, <1>5
<1>7. /\ seqNo' = n + 1
      /\ \A i \in 0..n : /\ Course(Start, pressed')[i] = Course(Start, pressed)[i]
                         /\ Course(First, pressed')[i] = Course(First, pressed)[i]
      /\ First' = First
      /\ Course(First, pressed')[n + 1] = Drive(Course(First, pressed)[n], input)
  BY <1>1, <1>5, TickPresses
<1>8. /\ \A j \in k + 1..n - u : \E i \in 1..Len(frames) : frames[i].seq = j
      /\ sim = Course(Start, pressed)[k]
      /\ \A i \in 1..Len(down) : down[i].kind = "state" => down[i].car = Course(Start, pressed)[down[i].ack]
      /\ H = n - h
      /\ \A i \in 1..H : history[i].after = Course(First, pressed)[history[i].seq]
      /\ predicted = Course(First, pressed)[n]
      /\ heard.ack >= 0 => base = heard.car /\ base = Course(Start, pressed)[heard.ack]
  BY <1>1, <1>2, <1>4, <1>5 DEF SmoothOK, Room
<1>9. k + u <= n /\ h <= k /\ k \in 0..n /\ h \in 0..n
  BY <1>1, <1>5 DEF FramesOK, AcksOK
<1>10. Len(up') = u + 1 /\ seqNo' - Len(up') = n - u
  <2>1. Len(up') = u + 1
    BY <1>1, <1>2, <1>5 DEF NetcodeTypeOK
  <2> QED
    BY <1>7, <2>1
<1>11. \A j \in lastAck' + 1..seqNo' - Len(up') : \E i \in 1..Len(frames') : frames'[i].seq = j
  BY <1>2, <1>5, <1>8, <1>10
<1>12. sim' = Course(Start, pressed')[lastAck']
  BY <1>2, <1>5, <1>7, <1>8, <1>9
<1>13. ASSUME NEW i \in 1..Len(down'), down'[i].kind = "state"
       PROVE  down'[i].car = Course(Start, pressed')[down'[i].ack]
  <2>1. i \in 1..Len(down) /\ down'[i] = down[i] /\ down[i].kind = "state"
    BY <1>2, <1>13
  <2>2. down[i] \in [kind : {"state"}, car : CarStates, ack : Nat]
    BY <1>1, <2>1 DEF NetcodeTypeOK, Message
  <2>3. down[i].ack \in 0..n
    <3>1. PICK a \in Nat : a = down[i].ack
      BY <2>2
    <3>2. a <= k
      BY <1>1, <1>5, <2>1, <3>1 DEF AcksOK
    <3> QED
      BY <1>9, <3>1, <3>2
  <2>4. down[i].car = Course(Start, pressed)[down[i].ack]
    BY <1>8, <2>1
  <2>5. Course(Start, pressed')[down[i].ack] = Course(Start, pressed)[down[i].ack]
    BY <1>7, <2>3
  <2> QED
    BY <2>1, <2>4, <2>5
<1>14. Len(history') = seqNo' - HeardAck'
  <2>1. HeardAck' = HeardAck
    BY <1>2 DEF HeardAck
  <2> QED
    BY <1>5, <1>6, <1>7, <1>8, <2>1
<1>15. predicted' = Course(First', pressed')[seqNo']
  BY <1>2, <1>7, <1>8
<1>16. ASSUME NEW i \in 1..Len(history')
       PROVE  history'[i].after = Course(First', pressed')[history'[i].seq]
  <2>1. CASE i = H + 1
    BY <1>6, <1>7, <1>15, <2>1
  <2>2. CASE i \in 1..H
    <3>1. history[i].seq = n - H + i
      BY <1>1, <1>5, <2>2 DEF HistoryOK
    <3>2. n - H + i \in 0..n
      BY <1>8, <1>9, <2>2
    <3> QED
      BY <1>6, <1>7, <1>8, <2>2, <3>1, <3>2
  <2> QED
    BY <1>6, <2>1, <2>2
<1>17. heard'.ack >= 0 => base' = heard'.car /\ base' = Course(Start, pressed')[heard'.ack]
  <2>1. heard.ack >= 0 => heard.ack \in 0..n
    BY <1>1, <1>5, <1>9, HeardAckIs
  <2> QED
    BY <1>2, <1>7, <1>8, <2>1
<1> QED
  BY <1>11, <1>12, <1>13, <1>14, <1>15, <1>16, <1>17

LEMMA TickKeeps ==
  ASSUME OnlineIInv, NEW input \in Inputs, ClientTick(input)
  PROVE  OnlineIInv'
<1>1. NetcodeTypeOK /\ StartOK /\ HistoryOK /\ AcksOK /\ FramesOK /\ ReplayedOK
  BY DEF OnlineIInv
<1>2. StartOK'
  BY <1>1 DEF StartOK, ClientTick
<1> QED
  BY <1>1, <1>2, TickTyped, TickHistory, TickAcks, TickFrames, TickReplayed, TickSmooth DEF OnlineIInv

-----------------------------------------------------------------------------
(* The room's steps.                                                       *)
Listens == UNCHANGED <<predicted, history, seqNo, pressed, base, heard, mayDrive>>

\* A message to the client tells him of the car as it is.
LEMMA TellKeeps ==
  ASSUME OnlineIInv, NEW m \in Message, m.kind = "state" => m.ack = lastAck /\ m.car = sim,
         down' = Append(down, m), Listens,
         UNCHANGED <<up, sim, frames, lastAck, replayed, crossed, smooth>>
  PROVE  OnlineIInv'
<1>1. NetcodeTypeOK /\ HistoryOK /\ AcksOK /\ FramesOK /\ ReplayedOK /\ SmoothOK
  BY DEF OnlineIInv
<1>2. HeardAck' = HeardAck /\ First' = First /\ pressed' = pressed
  BY DEF Listens, HeardAck, First
<1>3. PICK H \in Nat : H = Len(down)
  BY <1>1 DEF NetcodeTypeOK
<1>4. down' \in Seq(Message) /\ Len(down') = H + 1 /\ down'[H + 1] = m /\ \A i \in 1..H : down'[i] = down[i]
  BY <1>1, <1>3 DEF NetcodeTypeOK
<1>5. NetcodeTypeOK' /\ StartOK'
  <2>1. StartOK'
    BY <1>3, <1>4 DEF OnlineIInv, StartOK, Listens
  <2> QED
    BY <1>1, <1>4, <2>1 DEF NetcodeTypeOK, Listens
<1>6. HistoryOK' /\ FramesOK' /\ ReplayedOK'
  BY <1>1, <1>2 DEF HistoryOK, FramesOK, ReplayedOK, Listens
<1>7. AcksOK'
  <2>1. \A i \in 1..H : down[i].kind = "state" =>
          /\ HeardAck <= down[i].ack /\ down[i].ack <= lastAck
          /\ \A j \in i..H : down[j].kind = "state" => down[i].ack <= down[j].ack
    BY <1>1, <1>3 DEF AcksOK
  <2>2. HeardAck <= lastAck /\ lastAck \in Nat
    BY <1>1 DEF AcksOK, NetcodeTypeOK
  <2>3. ASSUME NEW i \in 1..H + 1, down'[i].kind = "state"
        PROVE  /\ HeardAck <= down'[i].ack /\ down'[i].ack <= lastAck
               /\ \A j \in i..H + 1 : down'[j].kind = "state" => down'[i].ack <= down'[j].ack
    <3>1. CASE i = H + 1
      <4>1. down'[i].ack = lastAck
        BY <1>4, <2>3, <3>1
      <4>2. \A j \in i..H + 1 : j = i
        BY <1>3, <3>1
      <4> QED
        <5>1. HeardAck <= down'[i].ack /\ down'[i].ack <= lastAck
          BY <2>2, <4>1
        <5>2. \A j \in i..H + 1 : down'[i].ack <= down'[j].ack
          <6> TAKE j \in i..H + 1
          <6>1. down'[j] = down'[i]
            BY <4>2
          <6>2. PICK k \in Nat : k = lastAck
            BY <2>2
          <6>3. down'[i].ack = k
            BY <4>1, <6>2
          <6>4. down'[j].ack = k
            BY <6>1, <6>3
          <6>5. k <= k
            BY <6>2
          <6> QED
            BY <6>3, <6>4, <6>5, Zenon
        <5> QED
          BY <5>1, <5>2
    <3>2. CASE i \in 1..H
      <4>1. down'[i] = down[i]
        BY <1>4, <3>2
      <4>2. ASSUME NEW j \in i..H + 1, down'[j].kind = "state"
            PROVE  down'[i].ack <= down'[j].ack
        <5>1. CASE j = H + 1
          BY <1>4, <2>1, <2>3, <3>2, <4>1, <4>2, <5>1
        <5>2. CASE j \in i..H
          <6>1. down'[j] = down[j]
            BY <1>4, <3>2, <5>2
          <6> QED
            BY <2>1, <2>3, <3>2, <4>1, <4>2, <5>2, <6>1
        <5>3. j = H + 1 \/ j \in i..H
          BY <1>3, <3>2
        <5> QED
          BY <5>1, <5>2, <5>3
      <4> QED
        BY <2>1, <2>3, <3>2, <4>1, <4>2
    <3>3. i = H + 1 \/ i \in 1..H
      BY <1>3
    <3> QED
      BY <3>1, <3>2, <3>3
  <2> QED
    BY <1>2, <1>4, <2>2, <2>3 DEF AcksOK
<1>8. SmoothOK'
  <2>1. \A n : Room(n)' = Room(n)
    BY <1>2 DEF Room
  <2>2. ASSUME smooth, ~crossed, NEW i \in 1..H + 1, down'[i].kind = "state"
        PROVE  down'[i].car = Course(Start, pressed)[down'[i].ack]
    <3>1. sim = Course(Start, pressed)[lastAck]
      BY <1>1, <2>2 DEF SmoothOK, Room
    <3>2. i = H + 1 => down'[i].car = sim /\ down'[i].ack = lastAck
      BY <1>4, <2>2
    <3>3. ASSUME i \in 1..H
          PROVE  down'[i].car = Course(Start, pressed)[down'[i].ack]
      BY <1>1, <1>3, <1>4, <2>2, <3>3 DEF SmoothOK, Room
    <3>4. i = H + 1 \/ i \in 1..H
      BY <1>3
    <3> QED
      BY <3>1, <3>2, <3>3, <3>4
  <2>3. ASSUME smooth, ~crossed
        PROVE  /\ \A n \in lastAck + 1..seqNo - Len(up) : \E i \in 1..Len(frames) : frames[i].seq = n
               /\ sim = Course(Start, pressed)[lastAck]
               /\ Len(history) = seqNo - HeardAck
               /\ \A i \in 1..Len(history) : history[i].after = Course(First, pressed)[history[i].seq]
               /\ predicted = Course(First, pressed)[seqNo]
               /\ heard.ack >= 0 => base = heard.car /\ base = Course(Start, pressed)[heard.ack]
    BY <1>1, <2>3 DEF SmoothOK, Room
  <2> QED
    BY <1>2, <1>4, <2>2, <2>3 DEF SmoothOK, Room, Listens
<1> QED
  BY <1>5, <1>6, <1>7, <1>8 DEF OnlineIInv

LEMMA PhaseKeeps ==
  ASSUME OnlineIInv, GoRacing \/ CloseRace
  PROVE  OnlineIInv'
<1>1. PICK p \in {"RACING", "FINISHED"} : down' = Append(down, [kind |-> "phase", phase |-> p])
  BY DEF GoRacing, CloseRace, Tell
<1>2. [kind |-> "phase", phase |-> p] \in Message /\ [kind |-> "phase", phase |-> p].kind # "state"
  BY DEF Message
<1>3. Listens /\ UNCHANGED <<up, sim, frames, lastAck, replayed, crossed, smooth>>
  BY DEF GoRacing, CloseRace, clientVars, Listens
<1> QED
  BY <1>1, <1>2, <1>3, TellKeeps

LEMMA ReplicateKeeps ==
  ASSUME OnlineIInv, Replicate
  PROVE  OnlineIInv'
<1> DEFINE m == [kind |-> "state", car |-> sim, ack |-> lastAck]
<1>1. m \in Message /\ m.ack = lastAck /\ m.car = sim
  BY DEF Message, OnlineIInv, NetcodeTypeOK
<1>2. down' = Append(down, m)
  BY DEF Replicate, Tell
<1>3. Listens /\ UNCHANGED <<up, sim, frames, lastAck, replayed, crossed, smooth>>
  BY DEF Replicate, clientVars, serverVars, Listens
<1> HIDE DEF m
<1> QED
  BY <1>1, <1>2, <1>3, TellKeeps

\* The burst of frames that are queued keeps the newest.
LEMMA BurstIs ==
  ASSUME NetcodeTypeOK, FramesOK, NEW f \in SentFrame,
         \A i \in 1..Len(frames) : frames[i].seq < f.seq
  PROVE  /\ Burst(f) \in Seq(SentFrame) /\ Len(Burst(f)) <= MaxQueue
         /\ Rising(Burst(f))
         /\ \A i \in 1..Len(Burst(f)) :
              Burst(f)[i] = f \/ \E j \in 1..Len(frames) : Burst(f)[i] = frames[j]
         /\ Len(frames) < MaxQueue =>
              /\ \A j \in 1..Len(frames) : \E i \in 1..Len(Burst(f)) : Burst(f)[i] = frames[j]
              /\ \E i \in 1..Len(Burst(f)) : Burst(f)[i] = f
<1> DEFINE kept == IF Len(frames) >= MaxQueue THEN Tail(frames) ELSE frames
           q == Append(kept, f)
<1>1. frames \in Seq(SentFrame) /\ MaxQueue \in Nat \ {0} /\ Len(frames) <= MaxQueue
      /\ \A i, j \in 1..Len(frames) : i < j => frames[i].seq < frames[j].seq
  BY NetcodeBounds DEF NetcodeTypeOK, FramesOK
<1>2. PICK H \in Nat, d \in {0, 1} :
        /\ H + d = Len(frames) /\ H < MaxQueue /\ kept \in Seq(SentFrame) /\ Len(kept) = H
        /\ \A i \in 1..H : kept[i] = frames[i + d]
        /\ Len(frames) < MaxQueue => d = 0
  <2>1. CASE Len(frames) >= MaxQueue
    <3>1. PICK n \in Nat : n + 1 = Len(frames)
      <4>1. Len(frames) - 1 \in Nat /\ (Len(frames) - 1) + 1 = Len(frames)
        BY <1>1, <2>1
      <4> QED
        BY <4>1
    <3>2. /\ Tail(frames) \in Seq(SentFrame) /\ Len(Tail(frames)) = n
          /\ \A i \in 1..n : Tail(frames)[i] = frames[i + 1]
      BY <1>1, <3>1
    <3>3. n < MaxQueue /\ ~(Len(frames) < MaxQueue)
      BY <1>1, <2>1, <3>1
    <3> QED
      BY <2>1, <3>1, <3>2, <3>3
  <2>2. CASE ~(Len(frames) >= MaxQueue)
    <3>1. PICK n \in Nat : n = Len(frames) /\ n + 0 = n
      BY <1>1
    <3>2. n < MaxQueue
      BY <1>1, <2>2, <3>1
    <3>3. \A i \in 1..n : frames[i] = frames[i + 0]
      OBVIOUS
    <3> QED
      BY <1>1, <2>2, <3>1, <3>2, <3>3
  <2> QED
    BY <2>1, <2>2
<1>3. Burst(f) = Sorted(q)
  BY DEF Burst
<1> HIDE DEF kept
<1>4. /\ q \in Seq(SentFrame) /\ Len(q) = H + 1 /\ q[H + 1] = f
      /\ \A i \in 1..H : q[i] = kept[i]
  BY <1>2
<1> HIDE DEF q
<1>5. \A i \in 1..H : i + d \in 1..Len(frames) /\ q[i] = frames[i + d]
  BY <1>2, <1>4
<1>6. Rising(q)
  <2> SUFFICES ASSUME NEW i \in 1..H + 1, NEW j \in 1..H + 1, i < j
               PROVE  q[i].seq < q[j].seq
    BY <1>4 DEF Rising
  <2>1. i \in 1..H
    OBVIOUS
  <2>2. CASE j = H + 1
    BY <1>4, <1>5, <2>1, <2>2
  <2>3. CASE j \in 1..H
    <3>1. i + d < j + d
      BY <2>1, <2>3
    <3> QED
      BY <1>1, <1>5, <2>1, <2>3, <3>1
  <2> QED
    BY <2>2, <2>3
<1>7. /\ Sorted(q) \in Seq(SentFrame) /\ Len(Sorted(q)) = Len(q)
      /\ \A i \in 1..Len(q) : \E j \in 1..Len(q) : Sorted(q)[i] = q[j]
      /\ \A j \in 1..Len(q) : \E i \in 1..Len(q) : Sorted(q)[i] = q[j]
      /\ Rising(Sorted(q))
  BY <1>4, <1>6, SortedIs
<1>8. PICK b : b = Burst(f)
  OBVIOUS
<1>9. /\ b \in Seq(SentFrame) /\ Len(b) = H + 1 /\ Rising(b)
      /\ \A i \in 1..H + 1 : \E j \in 1..H + 1 : b[i] = q[j]
      /\ \A j \in 1..H + 1 : \E i \in 1..H + 1 : b[i] = q[j]
  BY <1>3, <1>4, <1>7, <1>8
<1>10. \A i \in 1..H + 1 : b[i] = f \/ \E j \in 1..Len(frames) : b[i] = frames[j]
  <2> TAKE i \in 1..H + 1
  <2>1. PICK j \in 1..H + 1 : b[i] = q[j]
    BY <1>9
  <2>2. CASE j = H + 1
    BY <1>4, <2>1, <2>2
  <2>3. CASE j \in 1..H
    BY <1>5, <2>1, <2>3
  <2>4. j = H + 1 \/ j \in 1..H
    BY <1>2, <2>1
  <2> QED
    BY <2>2, <2>3, <2>4
<1>11. ASSUME Len(frames) < MaxQueue
       PROVE  /\ \A j \in 1..Len(frames) : \E i \in 1..H + 1 : b[i] = frames[j]
              /\ \E i \in 1..H + 1 : b[i] = f
  <2>1. d = 0 /\ Len(frames) = H
    BY <1>2, <1>11
  <2>2. \A j \in 1..H : q[j] = frames[j] /\ j \in 1..H + 1
    BY <1>5, <2>1
  <2>3. H + 1 \in 1..H + 1
    BY <1>2
  <2>4. \E i \in 1..H + 1 : b[i] = f
    BY <1>4, <1>9, <2>3
  <2>5. ASSUME NEW j \in 1..Len(frames)
        PROVE  \E i \in 1..H + 1 : b[i] = frames[j]
    <3>1. q[j] = frames[j] /\ j \in 1..H + 1
      BY <2>1, <2>2
    <3> QED
      BY <1>9, <3>1
  <2> QED
    BY <2>4, <2>5
<1>12. H + 1 <= MaxQueue
  BY <1>1, <1>2
<1> QED
  BY <1>8, <1>9, <1>10, <1>11, <1>12

\* The frame that arrives comes after all that have.
LEMMA NextFrame ==
  ASSUME NetcodeTypeOK, FramesOK, up # <<>>
  PROVE  /\ Head(up) \in SentFrame /\ Head(up).seq = seqNo - Len(up) + 1
         /\ Head(up).input = pressed[Head(up).seq]
         /\ Head(up).seq > lastAck /\ Head(up).seq \in Nat /\ Head(up).seq <= seqNo
         /\ \A i \in 1..Len(frames) : frames[i].seq < Head(up).seq
<1>1. up \in Seq(SentFrame) /\ Len(up) \in Nat \ {0}
  BY DEF NetcodeTypeOK
<1>2. 1 \in 1..Len(up) /\ Head(up) = up[1]
  BY <1>1
<1>3. Head(up) \in SentFrame /\ Head(up).seq \in Nat /\ Head(up).seq = seqNo - Len(up) + 1
      /\ Head(up).input = pressed[seqNo - Len(up) + 1]
  BY <1>2, Numbered DEF FramesOK
<1>4. PICK n \in Nat, u \in Nat \ {0}, k \in Nat, s \in Nat :
        n = seqNo /\ u = Len(up) /\ k = lastAck /\ s = Head(up).seq
  BY <1>1, <1>3, Numbered
<1>5. s = n - u + 1 /\ k + u <= n
  BY <1>3, <1>4 DEF FramesOK
<1>6. k < s /\ s <= n /\ s > k
  BY <1>4, <1>5
<1>7. ASSUME NEW i \in 1..Len(frames)
      PROVE  frames[i].seq < s
  <2>1. PICK t \in Nat : t = frames[i].seq
    BY Numbered
  <2>2. t <= n - u
    BY <1>4, <2>1 DEF FramesOK
  <2>3. t < s
    BY <1>4, <1>5, <2>1, <2>2
  <2> QED
    BY <2>1, <2>3
<1> QED
  BY <1>3, <1>4, <1>6, <1>7

LEMMA RoomHearsKeeps ==
  ASSUME OnlineIInv, RoomHears
  PROVE  OnlineIInv'
<1> DEFINE f == Head(up)
           valid == IsValidFrame(f)
<1>1. NetcodeTypeOK /\ HistoryOK /\ AcksOK /\ FramesOK /\ ReplayedOK /\ SmoothOK
  BY DEF OnlineIInv
<1>2. /\ up # <<>> /\ up' = Tail(up)
      /\ frames' = IF valid THEN Burst(f) ELSE frames
      /\ smooth' = (smooth /\ valid /\ Len(frames) < MaxQueue)
      /\ UNCHANGED <<predicted, history, seqNo, pressed, base, heard, mayDrive>>
      /\ UNCHANGED <<sim, lastAck, replayed, crossed, down>>
  BY DEF RoomHears, clientVars
<1>3. /\ f \in SentFrame /\ f.seq = seqNo - Len(up) + 1 /\ f.input = pressed[f.seq]
      /\ f.seq > lastAck /\ f.seq \in Nat
      /\ \A i \in 1..Len(frames) : frames[i].seq < f.seq
  BY <1>1, <1>2, NextFrame
<1>4. /\ Burst(f) \in Seq(SentFrame) /\ Len(Burst(f)) <= MaxQueue
      /\ Rising(Burst(f))
      /\ \A i \in 1..Len(Burst(f)) :
           Burst(f)[i] = f \/ \E j \in 1..Len(frames) : Burst(f)[i] = frames[j]
      /\ Len(frames) < MaxQueue =>
           /\ \A j \in 1..Len(frames) : \E i \in 1..Len(Burst(f)) : Burst(f)[i] = frames[j]
           /\ \E i \in 1..Len(Burst(f)) : Burst(f)[i] = f
  BY <1>1, <1>3, BurstIs
<1> HIDE DEF f, valid
<1>5. PICK n \in Nat, u \in Nat, k \in Nat, s \in Nat :
        n = seqNo /\ u + 1 = Len(up) /\ k = lastAck /\ s = f.seq
  <2>1. up \in Seq(SentFrame) /\ Len(up) \in Nat \ {0}
    BY <1>1, <1>2 DEF NetcodeTypeOK
  <2>2. Len(up) - 1 \in Nat /\ (Len(up) - 1) + 1 = Len(up)
    BY <2>1
  <2> QED
    BY <1>1, <1>3, <2>2, Numbered
<1>6. /\ up' \in Seq(SentFrame) /\ Len(up') = u /\ \A i \in 1..u : up'[i] = up[i + 1]
  BY <1>1, <1>2, <1>5 DEF NetcodeTypeOK
<1>7. s = n - u /\ k + (u + 1) <= n
  <2>1. s = n - (u + 1) + 1 /\ k + (u + 1) <= n
    BY <1>1, <1>3, <1>5 DEF FramesOK
  <2> QED
    BY <1>5, <2>1
<1>8. NetcodeTypeOK'
  <2>1. frames' \in Seq(SentFrame) /\ smooth' \in BOOLEAN
    BY <1>1, <1>2, <1>4 DEF NetcodeTypeOK
  <2> QED
    BY <1>1, <1>2, <1>6, <2>1 DEF NetcodeTypeOK
<1>9. HistoryOK' /\ AcksOK' /\ ReplayedOK'
  <2>1. HeardAck' = HeardAck
    BY <1>2 DEF HeardAck
  <2> QED
    BY <1>1, <1>2, <2>1 DEF HistoryOK, AcksOK, ReplayedOK
<1>10. FramesOK'
  <2>1. lastAck' + Len(up') <= seqNo'
    BY <1>2, <1>5, <1>6, <1>7
  <2>2. ASSUME NEW i \in 1..Len(up')
        PROVE  up'[i].seq = seqNo' - Len(up') + i /\ up'[i].input = pressed'[seqNo' - Len(up') + i]
    <3>1. i \in 1..u /\ i + 1 \in 1..Len(up) /\ up'[i] = up[i + 1]
      BY <1>5, <1>6
    <3>2. seqNo - Len(up) + (i + 1) = seqNo' - Len(up') + i
      <4>1. n - (u + 1) + (i + 1) = n - u + i
        BY <1>5
      <4> QED
        BY <1>2, <1>5, <1>6, <4>1
    <3> QED
      BY <1>1, <1>2, <3>1, <3>2 DEF FramesOK
  <2>3. /\ Len(frames) <= MaxQueue
        /\ \A i \in 1..Len(frames) :
             /\ lastAck < frames[i].seq /\ frames[i].seq <= seqNo - Len(up)
             /\ frames[i].input = pressed[frames[i].seq]
             /\ \A j \in 1..Len(frames) : i < j => frames[i].seq < frames[j].seq
    BY <1>1 DEF FramesOK
  <2>4. \A i \in 1..Len(frames) : frames[i].seq <= n - u
    <3> TAKE i \in 1..Len(frames)
    <3>1. PICK t \in Nat : t = frames[i].seq
      BY <1>1, Numbered
    <3>2. t <= n - (u + 1)
      BY <1>5, <2>3, <3>1
    <3>3. t <= n - u
      BY <1>5, <3>1, <3>2
    <3> QED
      BY <3>1, <3>3
  <2>5. /\ seqNo' - Len(up') = n - u /\ lastAck' = lastAck /\ pressed' = pressed
    BY <1>2, <1>5, <1>6
  <2>6. CASE ~valid
    <3>1. frames' = frames
      BY <1>2, <2>6
    <3> QED
      BY <2>1, <2>2, <2>3, <2>4, <2>5, <3>1 DEF FramesOK
  <2>7. CASE valid
    <3>1. PICK b : b = Burst(f) /\ frames' = b
      BY <1>2, <2>7
    <3>2. /\ Len(b) <= MaxQueue
          /\ \A i, j \in 1..Len(b) : i < j => b[i].seq < b[j].seq
          /\ \A i \in 1..Len(b) : b[i] = f \/ \E j \in 1..Len(frames) : b[i] = frames[j]
      BY <1>4, <3>1 DEF Rising
    <3>3. lastAck < f.seq /\ f.seq <= n - u /\ f.input = pressed[f.seq]
      BY <1>3, <1>5, <1>7
    <3>4. \A i \in 1..Len(b) : /\ lastAck < b[i].seq /\ b[i].seq <= n - u
                               /\ b[i].input = pressed[b[i].seq]
      BY <2>3, <2>4, <3>2, <3>3
    <3> QED
      BY <2>1, <2>2, <2>5, <3>1, <3>2, <3>4 DEF FramesOK
  <2> QED
    BY <2>6, <2>7
<1>11. SmoothOK'
  <2> SUFFICES ASSUME smooth', ~crossed'
               PROVE  /\ \A m \in lastAck + 1..n - u : \E i \in 1..Len(frames') : frames'[i].seq = m
                      /\ sim = Course(Start, pressed)[lastAck]
                      /\ \A i \in 1..Len(down) : down[i].kind = "state" =>
                           down[i].car = Course(Start, pressed)[down[i].ack]
                      /\ Len(history) = seqNo - HeardAck
                      /\ \A i \in 1..Len(history) : history[i].after = Course(First, pressed)[history[i].seq]
                      /\ predicted = Course(First, pressed)[seqNo]
                      /\ heard.ack >= 0 => base = heard.car /\ base = Course(Start, pressed)[heard.ack]
    <3>1. HeardAck' = HeardAck /\ First' = First /\ pressed' = pressed
      BY <1>2 DEF HeardAck, First
    <3>2. seqNo' - Len(up') = n - u
      BY <1>2, <1>5, <1>6
    <3> QED
      BY <1>2, <3>1, <3>2 DEF SmoothOK, Room
  <2>1. smooth /\ valid /\ Len(frames) < MaxQueue /\ ~crossed
    BY <1>2
  <2>2. frames' = Burst(f)
    BY <1>2, <2>1
  <2>3. ASSUME NEW m \in lastAck + 1..n - u
        PROVE  \E i \in 1..Len(frames') : frames'[i].seq = m
    <3>1. CASE m = s
      BY <1>4, <1>5, <2>1, <2>2, <3>1
    <3>2. CASE m # s
      <4>1. m \in lastAck + 1..seqNo - Len(up)
        <5>1. m \in k + 1..n - u
          BY <1>5
        <5>2. m \in k + 1..n - (u + 1)
          BY <1>5, <1>7, <3>2, <5>1
        <5> QED
          BY <1>5, <5>2
      <4>2. PICK j \in 1..Len(frames) : frames[j].seq = m
        BY <1>1, <2>1, <4>1 DEF SmoothOK
      <4> QED
        BY <1>4, <2>1, <2>2, <4>2
    <3> QED
      BY <3>1, <3>2
  <2> QED
    BY <1>1, <2>1, <2>3 DEF SmoothOK, Room
<1>12. StartOK'
  BY <1>2 DEF OnlineIInv, StartOK
<1> QED
  BY <1>8, <1>9, <1>10, <1>11, <1>12 DEF OnlineIInv

-----------------------------------------------------------------------------
(* The first frame of the queue is used.                                   *)
LEMMA FirstFrame ==
  ASSUME NetcodeTypeOK, FramesOK, frames # <<>>
  PROVE  /\ 1 \in 1..Len(frames) /\ Head(frames) = frames[1] /\ Head(frames) \in SentFrame
         /\ Head(frames).seq \in Nat \ {0} /\ lastAck < Head(frames).seq
         /\ Head(frames).seq + Len(up) <= seqNo
         /\ Head(frames).input = pressed[Head(frames).seq]
         /\ \A i \in 1..Len(frames) : Head(frames).seq <= frames[i].seq
         /\ Tail(frames) \in Seq(SentFrame)
         /\ \A i \in 1..Len(Tail(frames)) : i + 1 \in 1..Len(frames) /\ Tail(frames)[i] = frames[i + 1]
         /\ Len(Tail(frames)) + 1 = Len(frames)
<1>1. frames \in Seq(SentFrame) /\ Len(frames) \in Nat \ {0}
  BY DEF NetcodeTypeOK
<1>2. 1 \in 1..Len(frames) /\ Head(frames) = frames[1]
  BY <1>1
<1>3. Head(frames) \in SentFrame /\ Head(frames).seq \in Nat \ {0}
  BY <1>2, Numbered
<1>4. /\ lastAck < frames[1].seq /\ frames[1].seq <= seqNo - Len(up)
      /\ frames[1].input = pressed[frames[1].seq]
      /\ \A j \in 1..Len(frames) : 1 < j => frames[1].seq < frames[j].seq
  BY <1>2 DEF FramesOK
<1>5. Head(frames).seq + Len(up) <= seqNo
  <2>1. PICK n \in Nat, u \in Nat, s \in Nat : n = seqNo /\ u = Len(up) /\ s = Head(frames).seq
    BY <1>3, Numbered
  <2>2. s <= n - u
    BY <1>2, <1>4, <2>1
  <2>3. s + u <= n
    BY <2>1, <2>2
  <2> QED
    BY <2>1, <2>3
<1>6. ASSUME NEW i \in 1..Len(frames)
      PROVE  Head(frames).seq <= frames[i].seq
  <2>1. PICK s \in Nat, t \in Nat : s = Head(frames).seq /\ t = frames[i].seq
    BY <1>3, Numbered
  <2>2. s = t \/ s < t
    BY <1>1, <1>2, <1>4, <2>1
  <2>3. s <= t
    BY <2>1, <2>2
  <2> QED
    BY <2>1, <2>3
<1>7. /\ Tail(frames) \in Seq(SentFrame)
      /\ \A i \in 1..Len(Tail(frames)) : i + 1 \in 1..Len(frames) /\ Tail(frames)[i] = frames[i + 1]
      /\ Len(Tail(frames)) + 1 = Len(frames)
  BY <1>1
<1> QED
  BY <1>2, <1>3, <1>4, <1>5, <1>6, <1>7

\* A tick leaves the queue, or what comes after its first frame.
LEMMA TickQueue ==
  ASSUME NetcodeTypeOK, FramesOK, RoomTick
  PROVE  /\ UNCHANGED <<predicted, history, seqNo, pressed, base, heard, mayDrive, up, down>>
         /\ frames' = IF frames = <<>> THEN <<>> ELSE Tail(frames)
         /\ crossed => UNCHANGED <<sim, lastAck, replayed, crossed, smooth>>
         /\ ~crossed /\ frames = <<>> =>
              lastAck' = lastAck /\ replayed' = replayed /\ smooth' = FALSE
         /\ ~crossed /\ frames # <<>> =>
              /\ lastAck' = Head(frames).seq /\ replayed' = Append(replayed, Head(frames))
              /\ smooth' = smooth
              /\ ~crossed' => sim' = Drive(sim, Head(frames).input)
         /\ crossed' \in BOOLEAN /\ smooth' \in BOOLEAN /\ sim' \in CarStates
<1>1. Fresh = frames
  BY FreshIs
<1>2. /\ UNCHANGED <<predicted, history, seqNo, pressed, base, heard, mayDrive, up, down>>
      /\ frames' = IF frames = <<>> THEN <<>> ELSE Tail(frames)
  BY <1>1 DEF RoomTick, clientVars
<1>3. sim \in CarStates /\ crossed \in BOOLEAN /\ smooth \in BOOLEAN
  BY DEF NetcodeTypeOK
<1>4. CASE crossed
  <2>1. UNCHANGED <<sim, lastAck, replayed, crossed, smooth>>
    BY <1>4 DEF RoomTick
  <2> QED
    BY <1>2, <1>3, <1>4, <2>1
<1>5. CASE ~crossed
  <2>1. PICK input : input = IF frames = <<>> THEN Neutral ELSE Head(frames).input
    OBVIOUS
  <2>2. PICK after : after = Drive(sim, input)
    OBVIOUS
  <2>3. /\ crossed' \in BOOLEAN
        /\ sim' = IF crossed' THEN Bank(after) ELSE after
        /\ lastAck' = IF frames = <<>> THEN lastAck ELSE Head(frames).seq
        /\ replayed' = IF frames = <<>> THEN replayed ELSE Append(replayed, Head(frames))
        /\ smooth' = (smooth /\ frames # <<>>)
    BY <1>1, <1>5, <2>1, <2>2 DEF RoomTick, Used
  <2>4. input \in Inputs
    <3>1. frames # <<>> => Head(frames).input \in Inputs
      BY FirstFrame DEF SentFrame
    <3> QED
      BY <2>1, <3>1, NetcodeBounds
  <2>5. sim' \in CarStates /\ smooth' \in BOOLEAN
    BY <1>3, <2>2, <2>3, <2>4, NetcodeBounds
  <2>6. frames = <<>> => lastAck' = lastAck /\ replayed' = replayed /\ smooth' = FALSE
    BY <2>3
  <2>7. frames # <<>> => /\ lastAck' = Head(frames).seq /\ replayed' = Append(replayed, Head(frames))
                         /\ smooth' = smooth
                         /\ ~crossed' => sim' = Drive(sim, Head(frames).input)
    BY <1>3, <2>1, <2>2, <2>3
  <2> QED
    BY <1>2, <1>5, <2>3, <2>5, <2>6, <2>7
<1> QED
  BY <1>4, <1>5

LEMMA RoomTickKeeps ==
  ASSUME OnlineIInv, RoomTick
  PROVE  OnlineIInv'
<1>1. NetcodeTypeOK /\ HistoryOK /\ AcksOK /\ FramesOK /\ ReplayedOK /\ SmoothOK
  BY DEF OnlineIInv
<1>2. /\ UNCHANGED <<predicted, history, seqNo, pressed, base, heard, mayDrive, up, down>>
      /\ frames' = IF frames = <<>> THEN <<>> ELSE Tail(frames)
      /\ crossed => UNCHANGED <<sim, lastAck, replayed, crossed, smooth>>
      /\ ~crossed /\ frames = <<>> =>
           lastAck' = lastAck /\ replayed' = replayed /\ smooth' = FALSE
      /\ ~crossed /\ frames # <<>> =>
           /\ lastAck' = Head(frames).seq /\ replayed' = Append(replayed, Head(frames))
           /\ smooth' = smooth
           /\ ~crossed' => sim' = Drive(sim, Head(frames).input)
      /\ crossed' \in BOOLEAN /\ smooth' \in BOOLEAN /\ sim' \in CarStates
  BY <1>1, TickQueue
<1>3. HeardAck' = HeardAck /\ First' = First
  BY <1>2 DEF HeardAck, First
<1>4. HistoryOK' /\ StartOK'
  BY <1>1, <1>2, <1>3 DEF HistoryOK, OnlineIInv, StartOK
<1>5. CASE frames = <<>>
  <2>1. lastAck' = lastAck /\ replayed' = replayed /\ frames' = frames /\ (smooth' /\ ~crossed' => FALSE)
    BY <1>2, <1>5
  <2>2. NetcodeTypeOK'
    BY <1>1, <1>2, <2>1 DEF NetcodeTypeOK
  <2>3. AcksOK' /\ FramesOK' /\ ReplayedOK'
    BY <1>1, <1>2, <1>3, <2>1 DEF AcksOK, FramesOK, ReplayedOK
  <2>4. SmoothOK'
    BY <2>1 DEF SmoothOK
  <2> QED
    BY <1>4, <2>2, <2>3, <2>4 DEF OnlineIInv
<1>6. CASE frames # <<>>
  <2> DEFINE f == Head(frames)
  <2>1. /\ 1 \in 1..Len(frames) /\ f = frames[1] /\ f \in SentFrame
        /\ f.seq \in Nat \ {0} /\ lastAck < f.seq /\ f.seq + Len(up) <= seqNo
        /\ f.input = pressed[f.seq]
        /\ \A i \in 1..Len(frames) : f.seq <= frames[i].seq
        /\ Tail(frames) \in Seq(SentFrame)
        /\ \A i \in 1..Len(Tail(frames)) : i + 1 \in 1..Len(frames) /\ Tail(frames)[i] = frames[i + 1]
        /\ Len(Tail(frames)) + 1 = Len(frames)
    BY <1>1, <1>6, FirstFrame
  <2>2. PICK q : q = Tail(frames) /\ frames' = q
    BY <1>2, <1>6
  <2>3. PICK M \in Nat : M = Len(q) /\ M + 1 = Len(frames)
    <3>1. Len(q) \in Nat /\ Len(q) + 1 = Len(frames)
      BY <2>1, <2>2
    <3> QED
      BY <3>1
  <2>4. q \in Seq(SentFrame) /\ \A i \in 1..M : i + 1 \in 1..Len(frames) /\ q[i] = frames[i + 1]
    BY <2>1, <2>2, <2>3
  <2> HIDE DEF f
  <2>5. /\ Len(frames) <= MaxQueue
        /\ \A i \in 1..Len(frames) :
             /\ lastAck < frames[i].seq /\ frames[i].seq <= seqNo - Len(up)
             /\ frames[i].input = pressed[frames[i].seq]
             /\ \A j \in 1..Len(frames) : i < j => frames[i].seq < frames[j].seq
    BY <1>1 DEF FramesOK
  <2>6. \A i \in 1..M :
             /\ f.seq < q[i].seq /\ lastAck < q[i].seq /\ q[i].seq <= seqNo - Len(up)
             /\ q[i].input = pressed[q[i].seq]
             /\ \A j \in 1..M : i < j => q[i].seq < q[j].seq
    <3> TAKE i \in 1..M
    <3>1. i + 1 \in 1..Len(frames) /\ q[i] = frames[i + 1] /\ 1 < i + 1
      BY <2>3, <2>4
    <3>2. \A j \in 1..M : i < j => q[i].seq < q[j].seq
      <4> TAKE j \in 1..M
      <4>1. j + 1 \in 1..Len(frames) /\ q[j] = frames[j + 1] /\ (i < j => i + 1 < j + 1)
        BY <2>3, <2>4
      <4> QED
        BY <2>5, <3>1, <4>1
    <3>3. f.seq < q[i].seq
      BY <2>1, <2>5, <3>1
    <3> QED
      BY <2>5, <3>1, <3>2, <3>3
  <2>7. Len(q) <= MaxQueue
    BY <2>3, <2>5, NetcodeBounds
  <2>8. lastAck \in Nat /\ replayed \in Seq(SentFrame)
    BY <1>1 DEF NetcodeTypeOK
  <2>9. CASE crossed
    <3>1. lastAck' = lastAck /\ replayed' = replayed /\ crossed' = crossed
      BY <1>2, <2>9
    <3>2. NetcodeTypeOK'
      BY <1>1, <1>2, <2>2, <2>4, <3>1 DEF NetcodeTypeOK
    <3>3. AcksOK' /\ ReplayedOK'
      BY <1>1, <1>2, <1>3, <3>1 DEF AcksOK, ReplayedOK
    <3>4. FramesOK'
      BY <1>1, <1>2, <2>2, <2>3, <2>6, <2>7, <3>1 DEF FramesOK
    <3>5. SmoothOK'
      BY <2>9, <3>1 DEF SmoothOK
    <3> QED
      BY <1>4, <3>2, <3>3, <3>4, <3>5 DEF OnlineIInv
  <2>10. CASE ~crossed
    <3>1. /\ lastAck' = f.seq /\ replayed' = Append(replayed, f) /\ smooth' = smooth
          /\ ~crossed' => sim' = Drive(sim, f.input)
      BY <1>2, <1>6, <2>10 DEF f
    <3>2. lastAck' \in Nat /\ replayed' \in Seq(SentFrame)
      BY <2>1, <2>8, <3>1
    <3>3. NetcodeTypeOK'
      BY <1>1, <1>2, <2>2, <2>4, <3>2 DEF NetcodeTypeOK
    <3>4. PICK k \in Nat, s \in Nat \ {0}, n \in Nat, u \in Nat, h \in Nat :
            k = lastAck /\ s = f.seq /\ n = seqNo /\ u = Len(up) /\ h = HeardAck
      BY <1>1, <2>1, <2>8, Numbered, HeardAckIs
    <3>5. k < s /\ s + u <= n
      BY <2>1, <3>4
    <3>6. AcksOK'
      <4>1. /\ HeardAck <= lastAck
            /\ \A i \in 1..Len(down) : down[i].kind = "state" =>
                 /\ HeardAck <= down[i].ack /\ down[i].ack <= lastAck
                 /\ \A j \in i..Len(down) : down[j].kind = "state" => down[i].ack <= down[j].ack
        BY <1>1 DEF AcksOK
      <4>2. HeardAck <= f.seq
        <5>1. h <= k
          BY <3>4, <4>1
        <5>2. h <= s
          BY <3>4, <3>5, <5>1
        <5> QED
          BY <3>4, <5>2
      <4>3. ASSUME NEW i \in 1..Len(down), down[i].kind = "state"
            PROVE  down[i].ack <= f.seq
        <5>1. down[i] \in Message
          BY <1>1 DEF NetcodeTypeOK
        <5>2. down[i].ack \in Nat
          BY <4>3, <5>1 DEF Message
        <5>3. PICK a \in Nat : a = down[i].ack
          BY <5>2
        <5>4. a <= k
          BY <3>4, <4>1, <4>3, <5>3
        <5>5. a <= s
          BY <3>4, <3>5, <5>3, <5>4
        <5> QED
          BY <3>4, <5>3, <5>5
      <4> QED
        BY <1>2, <1>3, <3>1, <4>1, <4>2, <4>3 DEF AcksOK
    <3>7. FramesOK'
      BY <1>1, <1>2, <2>1, <2>2, <2>3, <2>6, <2>7, <3>1 DEF FramesOK
    <3>8. ReplayedOK'
      <4>1. PICK R \in Nat : R = Len(replayed)
        BY <2>8
      <4>2. PICK r : r = Append(replayed, f) /\ replayed' = r
        BY <3>1
      <4>3. Len(r) = R + 1 /\ r[R + 1] = f /\ \A i \in 1..R : r[i] = replayed[i]
        BY <2>8, <4>1, <4>2
      <4>4. \A i \in 1..R : /\ replayed[i].seq < s
                            /\ replayed[i].input = pressed[replayed[i].seq]
                            /\ \A j \in 1..R : i < j => replayed[i].seq < replayed[j].seq
        <5> TAKE i \in 1..R
        <5>1. PICK t \in Nat : t = replayed[i].seq
          BY <1>1, <4>1, Numbered
        <5>2. t <= k
          BY <1>1, <3>4, <4>1, <5>1 DEF ReplayedOK
        <5>3. t < s
          BY <3>4, <3>5, <5>1, <5>2
        <5> QED
          BY <1>1, <4>1, <5>1, <5>3 DEF ReplayedOK
      <4>5. ASSUME NEW i \in 1..R + 1
            PROVE  /\ r[i].seq <= s /\ r[i].input = pressed[r[i].seq]
                   /\ \A j \in 1..R + 1 : i < j => r[i].seq < r[j].seq
        <5>1. CASE i = R + 1
          <6>1. \A j \in 1..R + 1 : ~(i < j)
            BY <4>1, <5>1
          <6>2. r[i] = f /\ s <= s /\ f.seq = s
            BY <3>4, <4>3, <5>1
          <6> QED
            BY <2>1, <6>1, <6>2
        <5>2. CASE i \in 1..R
          <6>1. r[i] = replayed[i] /\ r[i].seq < s /\ r[i].seq \in Nat
            BY <1>1, <4>1, <4>3, <4>4, <5>2, Numbered
          <6>2. PICK t \in Nat : t = r[i].seq
            BY <6>1
          <6>3. t <= s
            BY <3>4, <6>1, <6>2
          <6>4. ASSUME NEW j \in 1..R + 1, i < j
                PROVE  r[i].seq < r[j].seq
            <7>1. j = R + 1 \/ j \in 1..R
              BY <4>1
            <7>2. j = R + 1 => r[j].seq = s
              BY <3>4, <4>3
            <7>3. j \in 1..R => r[j] = replayed[j]
              BY <4>3
            <7> QED
              BY <4>4, <5>2, <6>1, <6>4, <7>1, <7>2, <7>3
          <6> QED
            BY <4>4, <5>2, <6>1, <6>2, <6>3, <6>4
        <5>3. i = R + 1 \/ i \in 1..R
          BY <4>1
        <5> QED
          BY <5>1, <5>2, <5>3
      <4>6. lastAck' = r[R + 1].seq /\ R + 1 # 0
        BY <3>1, <4>1, <4>3
      <4> QED
        BY <1>2, <3>1, <3>4, <4>2, <4>3, <4>5, <4>6 DEF ReplayedOK
    <3>9. SmoothOK'
      <4> SUFFICES ASSUME smooth', ~crossed'
                   PROVE  /\ \A m \in lastAck' + 1..seqNo' - Len(up') : \E i \in 1..Len(frames') : frames'[i].seq = m
                          /\ sim' = Course(Start, pressed')[lastAck']
                          /\ \A i \in 1..Len(down') : down'[i].kind = "state" =>
                               down'[i].car = Course(Start, pressed')[down'[i].ack]
                          /\ Len(history') = seqNo' - HeardAck'
                          /\ \A i \in 1..Len(history') : history'[i].after = Course(First', pressed')[history'[i].seq]
                          /\ predicted' = Course(First', pressed')[seqNo']
                          /\ heard'.ack >= 0 => base' = heard'.car /\ base' = Course(Start, pressed')[heard'.ack]
        BY DEF SmoothOK, Room
      <4>0. smooth
        BY <3>1
      <4>1. /\ \A m \in lastAck + 1..seqNo - Len(up) : \E i \in 1..Len(frames) : frames[i].seq = m
            /\ sim = Course(Start, pressed)[lastAck]
        BY <1>1, <2>10, <4>0 DEF SmoothOK, Room
      <4>2. s = k + 1
        <5>1. k + 1 \in k + 1..n - u
          BY <3>4, <3>5
        <5>2. PICK i \in 1..Len(frames) : frames[i].seq = k + 1
          BY <3>4, <4>1, <5>1
        <5>3. f.seq <= frames[i].seq
          BY <2>1
        <5>4. s <= k + 1
          BY <3>4, <5>2, <5>3
        <5> QED
          BY <3>4, <3>5, <5>4
      <4>3. ASSUME NEW m \in f.seq + 1..seqNo - Len(up)
            PROVE  \E i \in 1..M : q[i].seq = m
        <5>1. m \in s + 1..n - u
          BY <3>4
        <5>2. m \in k + 1..n - u /\ m # s
          BY <3>4, <3>5, <5>1
        <5>3. PICK i \in 1..Len(frames) : frames[i].seq = m
          BY <3>4, <4>1, <5>2
        <5>4. i # 1
          BY <2>1, <3>4, <5>2, <5>3
        <5>5. PICK j \in 1..M : i = j + 1
          <6>1. i - 1 \in 1..M /\ i = (i - 1) + 1
            BY <2>3, <5>3, <5>4
          <6> QED
            BY <6>1
        <5>6. q[j] = frames[i]
          BY <2>4, <5>5
        <5> QED
          BY <5>3, <5>5, <5>6
      <4>4. sim' = Course(Start, pressed)[f.seq]
        <5>1. pressed \in Seq(Inputs) /\ Len(pressed) = n
          BY <1>1, <3>4 DEF NetcodeTypeOK
        <5>2. k + 1 \in 1..Len(pressed)
          BY <3>4, <3>5, <5>1
        <5>3. PICK c : c = Course(Start, pressed)
          OBVIOUS
        <5>4. c[k + 1] = Drive(c[(k + 1) - 1], pressed[k + 1])
          BY <5>1, <5>2, <5>3, CourseDef
        <5>5. (k + 1) - 1 = k
          BY <3>4
        <5>6. sim' = Drive(sim, f.input) /\ f.input = pressed[k + 1]
          BY <2>1, <3>1, <3>4, <4>2
        <5> QED
          BY <3>4, <4>1, <4>2, <5>3, <5>4, <5>5, <5>6
      <4>5. /\ \A i \in 1..Len(down) : down[i].kind = "state" =>
                 down[i].car = Course(Start, pressed)[down[i].ack]
            /\ Len(history) = seqNo - HeardAck
            /\ \A i \in 1..Len(history) : history[i].after = Course(First, pressed)[history[i].seq]
            /\ predicted = Course(First, pressed)[seqNo]
            /\ heard.ack >= 0 => base = heard.car /\ base = Course(Start, pressed)[heard.ack]
        BY <1>1, <2>10, <4>0 DEF SmoothOK, Room
      <4>6. \A m \in lastAck' + 1..seqNo' - Len(up') : \E i \in 1..Len(frames') : frames'[i].seq = m
        BY <1>2, <2>2, <2>3, <3>1, <4>3
      <4>7. sim' = Course(Start, pressed')[lastAck']
        BY <1>2, <3>1, <4>4
      <4> QED
        BY <1>2, <1>3, <4>5, <4>6, <4>7
    <3> QED
      BY <1>4, <3>3, <3>6, <3>7, <3>8, <3>9 DEF OnlineIInv
  <2> QED
    BY <2>9, <2>10
<1> QED
  BY <1>5, <1>6

-----------------------------------------------------------------------------
(* The client hears of its car.                                             *)

\* What a snapshot leaves pending are the last frames of the history: those after the
\* d-th, which is the one acknowledged if it is still there.
Leaves(ack, d, H, n, M) ==
  /\ M + d = H
  /\ Pending(ack) \in Seq(PredictedFrame) /\ Len(Pending(ack)) = M
  /\ \A i \in 1..M : Pending(ack)[i] = history[i + d]
  /\ \A i \in 1..H : history[i].seq = ack => i = d
  /\ M = n - ack \/ (M = MaxHistory /\ M < n - ack)
  /\ d > 0 => ack = n - H + d

LEMMA PendingIs ==
  ASSUME NetcodeTypeOK, HistoryOK, NEW ack \in Nat, HeardAck <= ack, ack <= seqNo,
         NEW H \in Nat, H = Len(history), NEW n \in Nat, n = seqNo
  PROVE  \E d \in 0..H, M \in Nat : Leaves(ack, d, H, n, M)
<1>1. history \in Seq(PredictedFrame) /\ MaxHistory \in Nat
      /\ \A i \in 1..H : history[i].seq = n - H + i
  BY NetcodeBounds DEF NetcodeTypeOK, HistoryOK
<1>2. PICK h \in Nat : h = HeardAck
  BY HeardAckIs
<1>3. H <= n - h /\ H <= MaxHistory /\ (H = n - h \/ H = MaxHistory) /\ h <= ack /\ ack <= n
  BY <1>2 DEF HistoryOK
<1>4. PICK d \in 0..H : /\ ack >= n - H => d = ack - (n - H)
                        /\ ack < n - H => d = 0
  <2>1. CASE ack >= n - H
    <3>1. ack - (n - H) \in 0..H /\ ~(ack < n - H)
      BY <1>3, <2>1
    <3> QED
      BY <2>1, <3>1
  <2>2. CASE ack < n - H
    <3>1. 0 \in 0..H /\ ~(ack >= n - H)
      BY <2>2
    <3> QED
      BY <3>1
  <2> QED
    BY <2>1, <2>2
<1>5. PICK M \in Nat : M + d = H
  <2>1. H - d \in Nat /\ (H - d) + d = H
    BY <1>4
  <2> QED
    BY <2>1
<1>6. \A i \in 1..H : n - H + i > ack <=> i > d
  BY <1>4
<1>7. \A i \in 1..H : n - H + i = ack => i = d
  BY <1>4
<1>8. d > 0 => ack = n - H + d
  BY <1>4
<1>9. M = n - ack \/ (M = MaxHistory /\ M < n - ack)
  BY <1>1, <1>3, <1>4, <1>5
<1>10. d \in 0..Len(history) /\ \A i \in 1..Len(history) : history[i].seq > ack <=> i > d
  BY <1>1, <1>4, <1>6
<1>11. /\ Above(history, ack) \in Seq(PredictedFrame)
       /\ Len(Above(history, ack)) = Len(history) - d
       /\ \A i \in 1..Len(history) - d : Above(history, ack)[i] = history[i + d]
  BY <1>1, <1>10, AboveIs
<1>12. Len(history) - d = M
  BY <1>4, <1>5
<1>13. /\ Pending(ack) \in Seq(PredictedFrame) /\ Len(Pending(ack)) = M
       /\ \A i \in 1..M : Pending(ack)[i] = history[i + d]
  BY <1>11, <1>12 DEF Pending
<1>14. \A i \in 1..H : history[i].seq = ack => i = d
  BY <1>1, <1>7
<1> QED
  BY <1>4, <1>5, <1>8, <1>9, <1>13, <1>14 DEF Leaves

\* What the client hears is of a car that the room has acknowledged.
LEMMA HeadHeard ==
  ASSUME NetcodeTypeOK, AcksOK, FramesOK, down # <<>>
  PROVE  /\ Tail(down) \in Seq(Message) /\ Head(down) \in Message /\ Len(Tail(down)) + 1 = Len(down)
         /\ \A i \in 1..Len(Tail(down)) : i + 1 \in 1..Len(down) /\ Tail(down)[i] = down[i + 1]
         /\ Head(down).kind = "state" =>
              /\ Head(down).car \in CarStates /\ Head(down).ack \in Nat
              /\ HeardAck <= Head(down).ack /\ Head(down).ack <= lastAck /\ Head(down).ack <= seqNo
              /\ \A i \in 1..Len(down) : down[i].kind = "state" => Head(down).ack <= down[i].ack
<1>1. down \in Seq(Message) /\ Len(down) \in Nat \ {0}
  BY DEF NetcodeTypeOK
<1>2. 1 \in 1..Len(down) /\ Head(down) = down[1] /\ down[1] \in Message
  BY <1>1
<1>3. /\ Tail(down) \in Seq(Message) /\ Len(Tail(down)) + 1 = Len(down)
      /\ \A i \in 1..Len(Tail(down)) : i + 1 \in 1..Len(down) /\ Tail(down)[i] = down[i + 1]
  BY <1>1
<1>4. ASSUME Head(down).kind = "state"
      PROVE  /\ Head(down).car \in CarStates /\ Head(down).ack \in Nat
             /\ HeardAck <= Head(down).ack /\ Head(down).ack <= lastAck /\ Head(down).ack <= seqNo
             /\ \A i \in 1..Len(down) : down[i].kind = "state" => Head(down).ack <= down[i].ack
  <2>1. Head(down).car \in CarStates /\ Head(down).ack \in Nat
    BY <1>2, <1>4 DEF Message
  <2>2. /\ HeardAck <= Head(down).ack /\ Head(down).ack <= lastAck
        /\ \A i \in 1..Len(down) : down[i].kind = "state" => Head(down).ack <= down[i].ack
    BY <1>2, <1>4 DEF AcksOK
  <2>3. PICK a \in Nat, k \in Nat, n \in Nat, u \in Nat :
          a = Head(down).ack /\ k = lastAck /\ n = seqNo /\ u = Len(up)
    BY <2>1, Numbered
  <2>4. a <= k /\ k + u <= n
    BY <2>2, <2>3 DEF FramesOK
  <2>5. a <= n
    BY <2>3, <2>4
  <2> QED
    BY <2>1, <2>2, <2>3, <2>5
<1> QED
  BY <1>2, <1>3, <1>4

\* The two ways to go on from a snapshot.
Kept(snap, ack, d, H, n, M) ==
  /\ d > 0 /\ ack = n - H + d
  /\ base' = history[d].after /\ Pose(base') = Pose(snap) /\ predicted' = predicted
  /\ \A i \in 1..M : history'[i] = history[i + d]

Replays(snap, d, M, p) ==
  /\ base' = snap /\ p \in Seq(Inputs) /\ Len(p) = M
  /\ \A i \in 1..M : p[i] = history[i + d].input
  /\ predicted' = Course(snap, p)[M]
  /\ \A i \in 1..M : /\ history'[i].after = Course(snap, p)[i]
                     /\ history'[i].seq = history[i + d].seq
                     /\ history'[i].input = history[i + d].input

LEMMA ReconcileIs ==
  ASSUME NetcodeTypeOK, HistoryOK, NEW snap \in CarStates, NEW ack \in Nat,
         HeardAck <= ack, ack <= seqNo, Reconcile(snap, ack),
         NEW H \in Nat, H = Len(history), NEW n \in Nat, n = seqNo
  PROVE  \E d \in 0..H, M \in Nat :
           /\ M + d = H
           /\ M = n - ack \/ (M = MaxHistory /\ M < n - ack)
           /\ history' \in Seq(PredictedFrame) /\ Len(history') = M
           /\ {base', predicted'} \subseteq CarStates
           /\ Kept(snap, ack, d, H, n, M) \/ \E p : Replays(snap, d, M, p)
<1>0. PICK d \in 0..H, M \in Nat : Leaves(ack, d, H, n, M)
  BY PendingIs
<1>1. /\ d \in 0..H /\ M \in Nat
      /\ M + d = H
      /\ Pending(ack) \in Seq(PredictedFrame) /\ Len(Pending(ack)) = M
      /\ \A i \in 1..M : Pending(ack)[i] = history[i + d]
      /\ \A i \in 1..H : history[i].seq = ack => i = d
      /\ M = n - ack \/ (M = MaxHistory /\ M < n - ack)
      /\ d > 0 => ack = n - H + d
  BY <1>0 DEF Leaves
<1>2. PICK h : h = Pending(ack)
  OBVIOUS
<1>3. h \in Seq(PredictedFrame) /\ Len(h) = M /\ \A i \in 1..M : h[i] = history[i + d]
  BY <1>1, <1>2
<1>4. history \in Seq(PredictedFrame) /\ predicted \in CarStates
  BY DEF NetcodeTypeOK
<1>5. CASE Held(snap, ack)
  <2>1. PICK i \in 1..H : history[i].seq = ack /\ Pose(history[i].after) = Pose(snap)
    BY <1>4, <1>5 DEF Held
  <2>2. i = d
    BY <1>1, <2>1
  <2>3. history' = h /\ predicted' = predicted
        /\ base' = (CHOOSE f \in Range(history) : f.seq = ack).after
    BY <1>2, <1>5 DEF Reconcile
  <2>4. (CHOOSE f \in Range(history) : f.seq = ack) = history[d]
    <3>1. Range(history) = {history[j] : j \in 1..H}
      BY <1>4 DEF Range
    <3>2. \A f \in Range(history) : f.seq = ack <=> f = history[d]
      BY <1>1, <2>1, <2>2, <3>1
    <3>3. history[d] \in Range(history)
      BY <2>1, <2>2, <3>1
    <3> QED
      BY <3>2, <3>3
  <2>5. history[d].after \in CarStates
    <3>1. history[d] \in PredictedFrame
      BY <1>4, <2>1, <2>2
    <3> QED
      BY <3>1 DEF PredictedFrame
  <2>6. d > 0
    BY <2>1, <2>2
  <2>7. Kept(snap, ack, d, H, n, M)
    BY <1>1, <1>3, <2>1, <2>2, <2>3, <2>4, <2>6 DEF Kept
  <2> QED
    BY <1>1, <1>3, <1>4, <2>3, <2>4, <2>5, <2>7
<1>6. CASE ~Held(snap, ack)
  <2>1. PICK p : p = InputsOf(h)
    OBVIOUS
  <2>2. PICK c : c = Course(snap, p)
    OBVIOUS
  <2>3. /\ predicted' = c[M] /\ base' = snap
        /\ history' = [i \in DOMAIN h |-> [h[i] EXCEPT !.after = c[i]]]
    BY <1>2, <1>3, <1>6, <2>1, <2>2 DEF Reconcile
  <2>4. \A i \in 1..M : h[i] \in PredictedFrame /\ h[i].input \in Inputs
    <3>1. \A f \in PredictedFrame : f.input \in Inputs
      BY DEF PredictedFrame
    <3> QED
      BY <1>3, <3>1
  <2>5. p \in Seq(Inputs) /\ Len(p) = M /\ \A i \in 1..M : p[i] = h[i].input
    BY <1>3, <2>1, <2>4 DEF InputsOf
  <2>6. \A i \in 0..M : c[i] \in CarStates
    BY <2>2, <2>5, CourseType
  <2>7. DOMAIN h = 1..M
    BY <1>3
  <2>8. ASSUME NEW i \in 1..M
        PROVE  /\ history'[i] \in PredictedFrame /\ history'[i].after = c[i]
               /\ history'[i].seq = h[i].seq /\ history'[i].input = h[i].input
    <3>1. history'[i] = [h[i] EXCEPT !.after = c[i]]
      BY <2>3, <2>7
    <3>2. c[i] \in CarStates
      BY <2>6
    <3> QED
      BY <2>4, <3>1, <3>2 DEF PredictedFrame
  <2>9. history' \in Seq(PredictedFrame) /\ Len(history') = M
    BY <2>3, <2>7, <2>8
  <2>10. M \in 0..M
    BY <1>1
  <2>11. Replays(snap, d, M, p)
    BY <1>3, <2>2, <2>3, <2>5, <2>8 DEF Replays
  <2> QED
    BY <1>1, <2>3, <2>6, <2>9, <2>10, <2>11
<1> QED
  BY <1>5, <1>6

\* Nothing that the client hears moves his history away from what he has pressed.
LEMMA ReconcileHistory ==
  ASSUME NetcodeTypeOK, HistoryOK, NEW snap \in CarStates, NEW ack \in Nat,
         HeardAck <= ack, ack <= seqNo, Reconcile(snap, ack), Pose(base') = Pose(snap),
         heard' = [car |-> snap, ack |-> ack], UNCHANGED <<seqNo, pressed>>
  PROVE  HistoryOK'
<1>1. PICK H \in Nat, n \in Nat : H = Len(history) /\ n = seqNo
  BY Numbered
<1>2. PICK d \in 0..H, M \in Nat :
        /\ M + d = H
        /\ M = n - ack \/ (M = MaxHistory /\ M < n - ack)
        /\ history' \in Seq(PredictedFrame) /\ Len(history') = M
        /\ {base', predicted'} \subseteq CarStates
        /\ Kept(snap, ack, d, H, n, M) \/ \E p : Replays(snap, d, M, p)
  BY <1>1, ReconcileIs
<1>3. HeardAck' = ack /\ heard'.ack = ack /\ heard'.car = snap
  BY DEF HeardAck
<1>4. /\ \A i \in 1..H : history[i].seq = n - H + i /\ history[i].input = pressed[n - H + i]
      /\ \A i \in 1..H - 1 : history[i + 1].after = Drive(history[i].after, history[i + 1].input)
      /\ H > 0 => predicted = history[H].after
      /\ H <= MaxHistory /\ MaxHistory \in Nat
  BY <1>1, NetcodeBounds DEF HistoryOK
<1>5. /\ M <= n - ack /\ M <= MaxHistory /\ (M = n - ack \/ M = MaxHistory)
  BY <1>1, <1>2, <1>4
<1>6. \A i \in 1..M : /\ i + d \in 1..H /\ n - H + (i + d) = n - M + i
                      /\ i < M => i + d \in 1..H - 1 /\ (i + d) + 1 = (i + 1) + d /\ i + 1 \in 1..M
                      /\ i = M => i + d = H
  BY <1>1, <1>2
<1>7. \A i \in 1..M : history'[i].seq = history[i + d].seq /\ history'[i].input = history[i + d].input
  BY <1>2 DEF Kept, Replays
<1>8. \A i \in 1..M : history'[i].seq = n - M + i /\ history'[i].input = pressed[n - M + i]
  <2> TAKE i \in 1..M
  <2>1. history[i + d].seq = n - H + (i + d) /\ history[i + d].input = pressed[n - H + (i + d)]
    BY <1>4, <1>6
  <2> QED
    BY <1>6, <1>7, <2>1
<1>9. /\ \A i \in 1..M - 1 : history'[i + 1].after = Drive(history'[i].after, history'[i + 1].input)
      /\ M > 0 => predicted' = history'[M].after
      /\ M = 0 /\ M = n - ack => predicted' = base'
      /\ M > 0 /\ M = n - ack => history'[1].after = Drive(base', history'[1].input)
  <2>1. CASE Kept(snap, ack, d, H, n, M)
    <3>1. /\ d > 0 /\ base' = history[d].after /\ predicted' = predicted
          /\ \A i \in 1..M : history'[i] = history[i + d]
      BY <2>1 DEF Kept
    <3>2. ASSUME NEW i \in 1..M - 1
          PROVE  history'[i + 1].after = Drive(history'[i].after, history'[i + 1].input)
      <4>1. i \in 1..M /\ i + 1 \in 1..M /\ i < M
        BY <1>2
      <4>2. i + d \in 1..H - 1 /\ (i + d) + 1 = (i + 1) + d
        BY <1>6, <4>1
      <4>3. history'[i] = history[i + d] /\ history'[i + 1] = history[(i + d) + 1]
        BY <3>1, <4>1, <4>2
      <4> QED
        BY <1>4, <4>2, <4>3
    <3>3. ASSUME M > 0
          PROVE  /\ predicted' = history'[M].after
                 /\ history'[1].after = Drive(base', history'[1].input)
      <4>1. 1 \in 1..M /\ M \in 1..M /\ M + d = H /\ H > 0 /\ d \in 1..H - 1 /\ 1 + d = d + 1
        BY <1>2, <3>1, <3>3
      <4>2. history'[M] = history[H] /\ history'[1] = history[d + 1]
        BY <3>1, <4>1
      <4> QED
        BY <1>4, <3>1, <4>1, <4>2
    <3>4. ASSUME M = 0
          PROVE  predicted' = base'
      <4>1. d = H /\ H > 0
        BY <1>2, <3>1, <3>4
      <4> QED
        BY <1>4, <3>1, <4>1
    <3> QED
      BY <3>2, <3>3, <3>4
  <2>2. ASSUME NEW p, Replays(snap, d, M, p)
        PROVE  /\ \A i \in 1..M - 1 : history'[i + 1].after = Drive(history'[i].after, history'[i + 1].input)
               /\ M > 0 => predicted' = history'[M].after
               /\ M = 0 => predicted' = base'
               /\ M > 0 => history'[1].after = Drive(base', history'[1].input)
    <3>1. /\ base' = snap /\ p \in Seq(Inputs) /\ Len(p) = M /\ predicted' = Course(snap, p)[M]
          /\ \A i \in 1..M : p[i] = history'[i].input /\ history'[i].after = Course(snap, p)[i]
      BY <1>7, <2>2 DEF Replays
    <3>2. PICK c : c = Course(snap, p)
      OBVIOUS
    <3>3. c[0] = snap /\ \A i \in 1..M : c[i] = Drive(c[i - 1], p[i])
      BY <3>1, <3>2, CourseDef
    <3>4. ASSUME NEW i \in 1..M - 1
          PROVE  history'[i + 1].after = Drive(history'[i].after, history'[i + 1].input)
      <4>1. i \in 1..M /\ i + 1 \in 1..M /\ (i + 1) - 1 = i
        BY <1>2
      <4>2. c[i + 1] = Drive(c[(i + 1) - 1], p[i + 1])
        BY <3>3, <4>1
      <4> QED
        BY <3>1, <3>2, <4>1, <4>2
    <3>5. ASSUME M > 0
          PROVE  /\ predicted' = history'[M].after
                 /\ history'[1].after = Drive(base', history'[1].input)
      <4>1. 1 \in 1..M /\ M \in 1..M /\ 1 - 1 = 0
        BY <1>2, <3>5
      <4>2. c[1] = Drive(c[1 - 1], p[1])
        BY <3>3, <4>1
      <4>3. history'[1].after = c[1] /\ p[1] = history'[1].input /\ history'[M].after = c[M]
        BY <3>1, <3>2, <4>1
      <4> QED
        BY <3>1, <3>2, <3>3, <4>1, <4>2, <4>3
    <3>6. M = 0 => predicted' = base'
      BY <3>1, <3>2, <3>3
    <3> QED
      BY <3>4, <3>5, <3>6
  <2> QED
    BY <1>2, <2>1, <2>2
<1> QED
  BY <1>1, <1>2, <1>3, <1>5, <1>8, <1>9 DEF HistoryOK

\* The acknowledged prediction was near enough, or is replaced.
LEMMA ReconciledPose ==
  ASSUME NetcodeTypeOK, HistoryOK, NEW snap \in CarStates, NEW ack \in Nat,
         HeardAck <= ack, ack <= seqNo, Reconcile(snap, ack)
  PROVE  /\ Pose(base') = Pose(snap) /\ history' \in Seq(PredictedFrame)
         /\ base' \in CarStates /\ predicted' \in CarStates
<1>1. PICK H \in Nat, n \in Nat : H = Len(history) /\ n = seqNo
  BY Numbered
<1>2. PICK d \in 0..H, M \in Nat :
        /\ history' \in Seq(PredictedFrame)
        /\ {base', predicted'} \subseteq CarStates
        /\ Kept(snap, ack, d, H, n, M) \/ \E p : Replays(snap, d, M, p)
  BY <1>1, ReconcileIs
<1> QED
  BY <1>2 DEF Kept, Replays

\* As long as nothing is lost, the client is brought to where the room is, or is there.
LEMMA ReconcileSmooth ==
  ASSUME OnlineIInv, smooth, ~crossed, NEW snap \in CarStates, NEW ack \in Nat,
         HeardAck <= ack, ack <= seqNo, Reconcile(snap, ack), snap = Course(Start, pressed)[ack]
  PROVE  /\ Len(history') = seqNo - ack
         /\ \A i \in 1..Len(history') : history'[i].after = Course(Start, pressed)[history'[i].seq]
         /\ predicted' = Course(Start, pressed)[seqNo]
         /\ base' = snap
<1>1. PICK H \in Nat, n \in Nat, h \in Nat : H = Len(history) /\ n = seqNo /\ h = HeardAck
  BY Numbered, HeardAckIs DEF OnlineIInv
<1>2. PICK d \in 0..H, M \in Nat :
        /\ M + d = H
        /\ M = n - ack \/ (M = MaxHistory /\ M < n - ack)
        /\ history' \in Seq(PredictedFrame) /\ Len(history') = M
        /\ Kept(snap, ack, d, H, n, M) \/ \E p : Replays(snap, d, M, p)
  BY <1>1, ReconcileIs DEF OnlineIInv
<1>3. /\ H = n - h /\ h <= ack /\ ack <= n
      /\ \A i \in 1..H : history[i].after = Course(First, pressed)[history[i].seq]
      /\ predicted = Course(First, pressed)[n]
  BY <1>1 DEF OnlineIInv, SmoothOK
<1>4. /\ pressed \in Seq(Inputs) /\ Len(pressed) = n
      /\ H <= MaxHistory /\ MaxHistory \in Nat
      /\ \A i \in 1..H : history[i].seq = n - H + i /\ history[i].input = pressed[n - H + i]
  BY <1>1, NetcodeBounds DEF OnlineIInv, NetcodeTypeOK, HistoryOK
<1>5. M = n - ack
  BY <1>1, <1>2, <1>3, <1>4
<1>6. \A i \in 1..M : i + d \in 1..H /\ n - H + (i + d) = ack + i /\ ack + i \in ack..n
  BY <1>1, <1>2, <1>3, <1>5
<1>7. \A i \in 1..M : history[i + d].seq = ack + i /\ history[i + d].input = pressed[ack + i]
  BY <1>4, <1>6
<1>8. CASE Kept(snap, ack, d, H, n, M)
  <2>1. /\ d > 0 /\ ack = n - H + d
        /\ base' = history[d].after /\ Pose(base') = Pose(snap) /\ predicted' = predicted
        /\ \A i \in 1..M : history'[i] = history[i + d]
    BY <1>8 DEF Kept
  <2>2. d \in 1..H /\ ack \in 0..Len(pressed)
    BY <1>2, <1>3, <1>4, <2>1
  <2>3. base' = Course(First, pressed)[ack]
    BY <1>3, <1>4, <2>1, <2>2
  <2>4. Course(First, pressed)[ack] = Course(Start, pressed)[ack]
    <3>1. CASE First = Start
      BY <3>1
    <3>2. heard.ack >= 0
      <4>1. heard.ack < 0 => n = 0
        BY <1>1 DEF OnlineIInv, StartOK
      <4>2. n # 0
        BY <1>1, <1>3, <2>2
      <4>3. heard.ack \in Int
        BY HeardAckIs DEF OnlineIInv
      <4> QED
        BY <4>1, <4>2, <4>3
    <3> QED
      BY <3>1, <3>2 DEF First
  <2>5. \A j \in ack..Len(pressed) : Course(First, pressed)[j] = Course(Start, pressed)[j]
    BY <1>4, <2>2, <2>4, CourseMeets
  <2>6. predicted' = Course(Start, pressed)[n]
    <3>1. n \in ack..Len(pressed)
      BY <1>1, <1>3, <1>4
    <3> QED
      BY <1>3, <2>1, <2>5, <3>1
  <2>7. ASSUME NEW i \in 1..M
        PROVE  history'[i].after = Course(Start, pressed)[history'[i].seq]
    <3>1. history'[i] = history[i + d] /\ history[i + d].seq = ack + i /\ ack + i \in ack..Len(pressed)
      BY <1>4, <1>6, <1>7, <2>1
    <3>2. history[i + d].after = Course(First, pressed)[ack + i]
      BY <1>3, <1>6, <3>1
    <3> QED
      BY <2>5, <3>1, <3>2
  <2> QED
    BY <1>1, <1>2, <1>5, <2>3, <2>4, <2>6, <2>7
<1>9. ASSUME NEW p, Replays(snap, d, M, p)
      PROVE  /\ predicted' = Course(Start, pressed)[n] /\ base' = snap
             /\ \A i \in 1..M : history'[i].after = Course(Start, pressed)[history'[i].seq]
  <2>1. /\ base' = snap /\ p \in Seq(Inputs) /\ Len(p) = M
        /\ \A i \in 1..M : p[i] = history[i + d].input
        /\ predicted' = Course(snap, p)[M]
        /\ \A i \in 1..M : history'[i].after = Course(snap, p)[i] /\ history'[i].seq = history[i + d].seq
    BY <1>9 DEF Replays
  <2>2. ack \in 0..Len(pressed) /\ ack + Len(p) <= Len(pressed) /\ ack + M = n
    BY <1>1, <1>2, <1>3, <1>4, <1>5, <2>1
  <2>3. \A j \in 1..Len(p) : p[j] = pressed[ack + j]
    BY <1>7, <2>1
  <2>4. \A j \in 0..Len(p) : Course(Course(Start, pressed)[ack], p)[j] = Course(Start, pressed)[ack + j]
    <3>1. p \in Seq(Inputs) /\ pressed \in Seq(Inputs)
      BY <1>4, <2>1
    <3> QED
      BY <2>2, <2>3, <3>1, CourseTail
  <2>5. \A j \in 0..M : Course(snap, p)[j] = Course(Start, pressed)[ack + j]
    BY <2>1, <2>4
  <2>6. M \in 0..M
    BY <1>2
  <2>7. predicted' = Course(Start, pressed)[n]
    BY <2>1, <2>2, <2>5, <2>6
  <2>8. ASSUME NEW i \in 1..M
        PROVE  history'[i].after = Course(Start, pressed)[history'[i].seq]
    <3>1. i \in 0..M
      OBVIOUS
    <3>2. history'[i].seq = ack + i
      BY <1>7, <2>1
    <3> QED
      BY <2>1, <2>5, <3>1, <3>2
  <2> QED
    BY <2>1, <2>7, <2>8
<1> QED
  BY <1>1, <1>2, <1>5, <1>8, <1>9

LEMMA HearsStateKeeps ==
  ASSUME OnlineIInv, ClientHears, Head(down).kind = "state"
  PROVE  OnlineIInv'
<1> DEFINE m == Head(down)
<1>1. NetcodeTypeOK /\ HistoryOK /\ AcksOK /\ FramesOK /\ ReplayedOK /\ SmoothOK
  BY DEF OnlineIInv
<1>2. /\ down # <<>> /\ down' = Tail(down) /\ Reconcile(m.car, m.ack)
      /\ heard' = [car |-> m.car, ack |-> m.ack]
      /\ UNCHANGED <<seqNo, pressed, up, smooth>>
      /\ UNCHANGED <<sim, frames, lastAck, replayed, crossed>>
  BY DEF ClientHears, serverVars
<1>3. /\ Tail(down) \in Seq(Message) /\ m \in Message /\ Len(Tail(down)) + 1 = Len(down)
      /\ \A i \in 1..Len(Tail(down)) : i + 1 \in 1..Len(down) /\ Tail(down)[i] = down[i + 1]
      /\ m.car \in CarStates /\ m.ack \in Nat
      /\ HeardAck <= m.ack /\ m.ack <= lastAck /\ m.ack <= seqNo
      /\ \A i \in 1..Len(down) : down[i].kind = "state" => m.ack <= down[i].ack
  BY <1>1, <1>2, HeadHeard
<1>4. PICK snap \in CarStates, ack \in Nat : snap = m.car /\ ack = m.ack
  BY <1>3
<1>5. PICK q \in Seq(Message), M \in Nat : q = Tail(down) /\ M = Len(q) /\ down' = q
  <2>1. Tail(down) \in Seq(Message) /\ down' = Tail(down)
    BY <1>2, <1>3
  <2>2. Len(Tail(down)) \in Nat
    BY <2>1
  <2> QED
    BY <2>1, <2>2
<1>6. down[1] = m /\ 1 \in 1..Len(down)
  <2>1. down \in Seq(Message)
    BY <1>1 DEF NetcodeTypeOK
  <2> QED
    BY <1>2, <2>1
<1> HIDE DEF m
<1>7. /\ HeardAck <= ack /\ ack <= lastAck /\ ack <= seqNo /\ Reconcile(snap, ack)
      /\ heard' = [car |-> snap, ack |-> ack]
  BY <1>2, <1>3, <1>4
<1>8. /\ Pose(base') = Pose(snap) /\ history' \in Seq(PredictedFrame)
      /\ base' \in CarStates /\ predicted' \in CarStates
  BY <1>1, <1>4, <1>7, ReconciledPose
<1>9. HistoryOK'
  BY <1>1, <1>2, <1>4, <1>7, <1>8, ReconcileHistory
<1>10. NetcodeTypeOK'
  <2>1. heard' \in [car : CarStates, ack : Nat \cup {-1}] /\ down' \in Seq(Message)
    BY <1>2, <1>3, <1>4, <1>7
  <2> QED
    BY <1>1, <1>2, <1>8, <2>1 DEF NetcodeTypeOK
<1>11. FramesOK' /\ ReplayedOK'
  BY <1>1, <1>2 DEF FramesOK, ReplayedOK
<1>12. HeardAck' = ack
  BY <1>4, <1>7 DEF HeardAck
<1>13. \A i \in 1..M : i + 1 \in 1..Len(down) /\ q[i] = down[i + 1]
  BY <1>3, <1>5
<1>14. AcksOK'
  <2>1. \A i \in 1..Len(down) : down[i].kind = "state" =>
          /\ ack <= down[i].ack /\ down[i].ack <= lastAck
          /\ \A j \in i..Len(down) : down[j].kind = "state" => down[i].ack <= down[j].ack
    BY <1>1, <1>3, <1>4 DEF AcksOK
  <2>2. ASSUME NEW i \in 1..M, q[i].kind = "state"
        PROVE  /\ ack <= q[i].ack /\ q[i].ack <= lastAck
               /\ \A j \in i..M : q[j].kind = "state" => q[i].ack <= q[j].ack
    <3>1. i + 1 \in 1..Len(down) /\ q[i] = down[i + 1]
      BY <1>13
    <3>2. ASSUME NEW j \in i..M, q[j].kind = "state"
          PROVE  q[i].ack <= q[j].ack
      <4>1. j \in 1..M /\ j + 1 \in i + 1..Len(down)
        <5>1. j \in 1..M
          BY <1>5
        <5>2. M + 1 = Len(down)
          BY <1>3, <1>5
        <5> QED
          BY <1>5, <5>1, <5>2
      <4>2. q[j] = down[j + 1]
        BY <1>13, <4>1
      <4> QED
        BY <2>1, <2>2, <3>1, <3>2, <4>1, <4>2
    <3> QED
      BY <2>1, <2>2, <3>1, <3>2
  <2> QED
    BY <1>2, <1>5, <1>7, <1>12, <2>2 DEF AcksOK
<1>15. SmoothOK'
  <2> SUFFICES ASSUME smooth', ~crossed'
               PROVE  /\ \A n \in lastAck' + 1..seqNo' - Len(up') : \E i \in 1..Len(frames') : frames'[i].seq = n
                      /\ sim' = Course(Start, pressed')[lastAck']
                      /\ \A i \in 1..Len(down') : down'[i].kind = "state" =>
                           down'[i].car = Course(Start, pressed')[down'[i].ack]
                      /\ Len(history') = seqNo' - HeardAck'
                      /\ \A i \in 1..Len(history') : history'[i].after = Course(First', pressed')[history'[i].seq]
                      /\ predicted' = Course(First', pressed')[seqNo']
                      /\ heard'.ack >= 0 => base' = heard'.car /\ base' = Course(Start, pressed')[heard'.ack]
    BY DEF SmoothOK, Room
  <2>1. smooth /\ ~crossed
    BY <1>2
  <2>2. /\ \A n \in lastAck + 1..seqNo - Len(up) : \E i \in 1..Len(frames) : frames[i].seq = n
        /\ sim = Course(Start, pressed)[lastAck]
        /\ \A i \in 1..Len(down) : down[i].kind = "state" => down[i].car = Course(Start, pressed)[down[i].ack]
    BY <1>1, <2>1 DEF SmoothOK, Room
  <2>3. snap = Course(Start, pressed)[ack]
    <3>1. down[1].kind = "state"
      BY <1>6 DEF m
    <3>2. down[1].car = snap /\ down[1].ack = ack
      BY <1>4, <1>6
    <3> QED
      BY <1>6, <2>2, <3>1, <3>2
  <2>4. /\ Len(history') = seqNo - ack
        /\ \A i \in 1..Len(history') : history'[i].after = Course(Start, pressed)[history'[i].seq]
        /\ predicted' = Course(Start, pressed)[seqNo]
        /\ base' = snap
    BY <1>4, <1>7, <2>1, <2>3, ReconcileSmooth
  <2>5. First' = Start
    BY <1>4, <1>7 DEF First
  <2>6. \A i \in 1..M : q[i].kind = "state" => q[i].car = Course(Start, pressed)[q[i].ack]
    BY <1>13, <2>2
  <2>7. heard'.car = snap /\ heard'.ack = ack
    BY <1>7
  <2> QED
    BY <1>2, <1>5, <1>12, <2>2, <2>3, <2>4, <2>5, <2>6, <2>7
<1>16. StartOK'
  <2>1. ~(heard'.ack < 0)
    BY <1>4, <1>7
  <2> QED
    BY <2>1 DEF StartOK
<1> QED
  BY <1>9, <1>10, <1>11, <1>14, <1>15, <1>16 DEF OnlineIInv

LEMMA HearsPhaseKeeps ==
  ASSUME OnlineIInv, ClientHears, Head(down).kind # "state"
  PROVE  OnlineIInv'
<1>1. NetcodeTypeOK /\ HistoryOK /\ AcksOK /\ FramesOK /\ ReplayedOK /\ SmoothOK
  BY DEF OnlineIInv
<1>2. /\ down # <<>> /\ down' = Tail(down)
      /\ UNCHANGED <<predicted, history, base, heard, seqNo, pressed, up, smooth>>
      /\ UNCHANGED <<sim, frames, lastAck, replayed, crossed>>
  BY DEF ClientHears, serverVars
<1>3. /\ Tail(down) \in Seq(Message) /\ Len(Tail(down)) + 1 = Len(down)
      /\ \A i \in 1..Len(Tail(down)) : i + 1 \in 1..Len(down) /\ Tail(down)[i] = down[i + 1]
  BY <1>1, <1>2, HeadHeard
<1>4. PICK q \in Seq(Message), M \in Nat : q = Tail(down) /\ M = Len(q) /\ down' = q
  BY <1>2, <1>3
<1>5. HeardAck' = HeardAck /\ First' = First
  BY <1>2 DEF HeardAck, First
<1>6. NetcodeTypeOK' /\ HistoryOK' /\ FramesOK' /\ ReplayedOK'
  BY <1>1, <1>2, <1>3, <1>5 DEF NetcodeTypeOK, HistoryOK, FramesOK, ReplayedOK
<1>7. \A i \in 1..M : i + 1 \in 1..Len(down) /\ q[i] = down[i + 1]
  BY <1>3, <1>4
<1>8. AcksOK'
  <2>1. /\ HeardAck <= lastAck
        /\ \A i \in 1..Len(down) : down[i].kind = "state" =>
             /\ HeardAck <= down[i].ack /\ down[i].ack <= lastAck
             /\ \A j \in i..Len(down) : down[j].kind = "state" => down[i].ack <= down[j].ack
    BY <1>1 DEF AcksOK
  <2>2. ASSUME NEW i \in 1..M, q[i].kind = "state"
        PROVE  /\ HeardAck <= q[i].ack /\ q[i].ack <= lastAck
               /\ \A j \in i..M : q[j].kind = "state" => q[i].ack <= q[j].ack
    <3>1. i + 1 \in 1..Len(down) /\ q[i] = down[i + 1]
      BY <1>7
    <3>2. ASSUME NEW j \in i..M, q[j].kind = "state"
          PROVE  q[i].ack <= q[j].ack
      <4>1. j \in 1..M /\ j + 1 \in i + 1..Len(down)
        <5>1. j \in 1..M
          BY <1>4
        <5>2. M + 1 = Len(down)
          BY <1>3, <1>4
        <5> QED
          BY <1>4, <5>1, <5>2
      <4>2. q[j] = down[j + 1]
        BY <1>7, <4>1
      <4> QED
        BY <2>1, <2>2, <3>1, <3>2, <4>1, <4>2
    <3> QED
      BY <2>1, <2>2, <3>1, <3>2
  <2> QED
    BY <1>2, <1>4, <1>5, <2>1, <2>2 DEF AcksOK
<1>9. SmoothOK'
  <2>1. ASSUME smooth, ~crossed, NEW i \in 1..M, q[i].kind = "state"
        PROVE  q[i].car = Course(Start, pressed)[q[i].ack]
    BY <1>1, <1>7, <2>1 DEF SmoothOK, Room
  <2>2. ASSUME smooth, ~crossed
        PROVE  /\ \A n \in lastAck + 1..seqNo - Len(up) : \E i \in 1..Len(frames) : frames[i].seq = n
               /\ sim = Course(Start, pressed)[lastAck]
               /\ Len(history) = seqNo - HeardAck
               /\ \A i \in 1..Len(history) : history[i].after = Course(First, pressed)[history[i].seq]
               /\ predicted = Course(First, pressed)[seqNo]
               /\ heard.ack >= 0 => base = heard.car /\ base = Course(Start, pressed)[heard.ack]
    BY <1>1, <2>2 DEF SmoothOK, Room
  <2> QED
    BY <1>2, <1>4, <1>5, <2>1, <2>2 DEF SmoothOK, Room
<1>10. StartOK'
  <2>1. down \in Seq(Message) /\ StartOK
    BY DEF OnlineIInv, NetcodeTypeOK
  <2>2. ~(heard.ack < 0)
    BY <1>2, <2>1 DEF StartOK
  <2> QED
    BY <1>2, <2>2 DEF StartOK
<1> QED
  BY <1>6, <1>8, <1>9, <1>10 DEF OnlineIInv

-----------------------------------------------------------------------------
(* What the player sees.                                                   *)
LEMMA PredictionFollows ==
  ASSUME OnlineIInv
  PROVE  PredictionHolds
<1> SUFFICES ASSUME heard.ack >= 0
             PROVE  /\ Pose(base) = Pose(heard.car)
                    /\ seqNo - heard.ack <= MaxHistory =>
                         predicted = Course(base, SubSeq(pressed, heard.ack + 1, seqNo))[seqNo - heard.ack]
                    /\ smooth /\ ~crossed => base = heard.car
  BY DEF PredictionHolds
<1>1. NetcodeTypeOK /\ HistoryOK /\ AcksOK /\ FramesOK /\ SmoothOK
  BY DEF OnlineIInv
<1>2. PICK a \in Nat, n \in Nat, H \in Nat, k \in Nat, u \in Nat :
        a = heard.ack /\ n = seqNo /\ H = Len(history) /\ k = lastAck /\ u = Len(up) /\ HeardAck = a
  BY <1>1, Numbered, HeardAckIs
<1>3. a <= k /\ k + u <= n
  BY <1>1, <1>2 DEF AcksOK, FramesOK
<1>4. a <= n
  BY <1>2, <1>3
<1>5. ASSUME n - a <= MaxHistory
      PROVE  predicted = Course(base, SubSeq(pressed, a + 1, n))[n - a]
  <2> DEFINE p == SubSeq(pressed, a + 1, n)
  <2>1. /\ H <= n - a /\ H <= MaxHistory /\ MaxHistory \in Nat /\ (H = n - a \/ H = MaxHistory)
        /\ \A i \in 1..H : history[i].seq = n - H + i /\ history[i].input = pressed[n - H + i]
        /\ \A i \in 1..H - 1 : history[i + 1].after = Drive(history[i].after, history[i + 1].input)
        /\ H > 0 => predicted = history[H].after
        /\ H = n - a => /\ H = 0 => predicted = base
                        /\ H > 0 => history[1].after = Drive(base, history[1].input)
    BY <1>1, <1>2, NetcodeBounds DEF HistoryOK
  <2>2. H = n - a
    BY <1>2, <1>4, <1>5, <2>1
  <2>3. pressed \in Seq(Inputs) /\ Len(pressed) = n
    BY <1>1, <1>2 DEF NetcodeTypeOK
  <2>4. p \in Seq(Inputs) /\ Len(p) = H /\ \A i \in 1..H : p[i] = pressed[a + i]
    <3>1. a + 1 \in 1..Len(pressed) + 1 /\ n \in 0..Len(pressed) /\ n - (a + 1) + 1 = H
      BY <1>2, <1>4, <2>2, <2>3
    <3>2. p \in Seq(Inputs) /\ Len(p) = H
      BY <2>3, <3>1
    <3>3. ASSUME NEW i \in 1..H
          PROVE  p[i] = pressed[a + i]
      <4>1. p[i] = pressed[(a + 1) + i - 1]
        BY <2>3, <3>1
      <4>2. (a + 1) + i - 1 = a + i
        BY <1>2
      <4> QED
        BY <4>1, <4>2
    <3> QED
      BY <3>2, <3>3
  <2> HIDE DEF p
  <2>5. \A i \in 1..H : n - H + i = a + i
    BY <1>2, <2>2
  <2>6. \A i \in 1..H : history[i].input = p[i]
    <3> TAKE i \in 1..H
    <3>1. history[i].input = pressed[n - H + i]
      BY <2>1
    <3>2. n - H + i = a + i
      BY <2>5
    <3>3. p[i] = pressed[a + i]
      BY <2>4
    <3> QED
      BY <3>1, <3>2, <3>3
  <2>7. PICK c : c = Course(base, p)
    OBVIOUS
  <2>8. c[0] = base /\ \A i \in 1..H : c[i] = Drive(c[i - 1], p[i])
    BY <2>4, <2>7, CourseDef
  <2> DEFINE G == {i \in 0..H : i > 0 => history[i].after = c[i]}
  <2>9. 0 \in G
    BY <1>2
  <2>10. ASSUME NEW i \in 0..H, i < H, i \in G
         PROVE  i + 1 \in G
    <3>1. i + 1 \in 1..H /\ i + 1 \in 0..H /\ (i + 1) - 1 = i
      BY <1>2, <2>10
    <3>2. c[i + 1] = Drive(c[(i + 1) - 1], p[i + 1])
      BY <2>8, <3>1
    <3>3. c[i + 1] = Drive(c[i], p[i + 1])
      BY <3>1, <3>2
    <3>4. CASE i = 0
      <4>1. history[1].after = Drive(base, history[1].input) /\ i + 1 = 1
        BY <2>1, <2>2, <2>10, <3>4
      <4> QED
        BY <2>6, <2>8, <3>1, <3>3, <3>4, <4>1
    <3>5. CASE i > 0
      <4>1. i \in 1..H - 1
        BY <1>2, <2>10, <3>5
      <4>2. history[i + 1].after = Drive(history[i].after, history[i + 1].input)
        BY <2>1, <4>1
      <4> QED
        BY <2>6, <2>10, <3>1, <3>3, <3>5, <4>2
    <3> QED
      BY <3>4, <3>5
  <2> HIDE DEF G
  <2>11. 0..H \subseteq G
    BY <1>2, <2>9, <2>10, UpTo
  <2>12. H \in 0..H
    BY <1>2
  <2>13. H > 0 => history[H].after = c[H]
    BY <2>11, <2>12 DEF G
  <2>14. H = 0 => predicted = c[H]
    BY <2>1, <2>2, <2>8
  <2>15. H > 0 => predicted = c[H]
    BY <2>1, <2>13
  <2>16. H = 0 \/ H > 0
    BY <1>2
  <2> QED
    BY <2>2, <2>7, <2>14, <2>15, <2>16 DEF p
<1>6. Pose(base) = Pose(heard.car)
  BY <1>1 DEF HistoryOK
<1>7. smooth /\ ~crossed => base = heard.car
  BY <1>1 DEF SmoothOK
<1> QED
  BY <1>2, <1>5, <1>6, <1>7

LEMMA InputsFollow ==
  ASSUME OnlineIInv
  PROVE  InputsOnce
<1>1. NetcodeTypeOK /\ AcksOK /\ FramesOK /\ ReplayedOK
  BY DEF OnlineIInv
<1>2. replayed \in Seq(SentFrame) /\ down \in Seq(Message)
  BY <1>1 DEF NetcodeTypeOK
<1>3. DOMAIN replayed = 1..Len(replayed) /\ DOMAIN down = 1..Len(down)
      /\ (replayed = <<>> <=> Len(replayed) = 0)
  BY <1>2
<1>4. \A i, j \in DOMAIN replayed : i < j => replayed[i].seq < replayed[j].seq
  BY <1>1, <1>3 DEF ReplayedOK
<1>5. \A i \in DOMAIN replayed : replayed[i].input = pressed[replayed[i].seq]
  BY <1>1, <1>3 DEF ReplayedOK
<1>6. lastAck = IF replayed = <<>> THEN 0 ELSE Last(replayed).seq
  BY <1>1, <1>3 DEF ReplayedOK, Last
<1>7. Len(frames) <= MaxQueue /\ \A i \in DOMAIN down : down[i].kind = "state" => down[i].ack <= lastAck
  BY <1>1, <1>3 DEF FramesOK, AcksOK
<1> QED
  BY <1>4, <1>5, <1>6, <1>7 DEF InputsOnce

-----------------------------------------------------------------------------
LEMMA InitOnline ==
  ASSUME InitNetcode
  PROVE  OnlineIInv
<1> DEFINE m == [kind |-> "state", car |-> Start, ack |-> 0]
<1>1. /\ predicted = Origin /\ base = Origin /\ heard = [car |-> Start, ack |-> -1]
      /\ history = <<>> /\ seqNo = 0 /\ pressed = <<>> /\ up = <<>> /\ down = <<m>>
      /\ sim = Start /\ frames = <<>> /\ lastAck = 0 /\ replayed = <<>>
      /\ mayDrive = FALSE /\ crossed = FALSE /\ smooth = TRUE
  BY DEF InitNetcode
<1>2. m \in Message /\ m.kind = "state" /\ m.car = Start /\ m.ack = 0
  BY NetcodeBounds DEF Message
<1> HIDE DEF m
<1>3. HeardAck = 0 /\ First = Origin /\ ~(heard.ack >= 0)
  BY <1>1 DEF HeardAck, First
<1>4. <<>> \in Seq(Inputs) /\ Len(<<>>) = 0
  OBVIOUS
<1>5. Course(Origin, pressed)[0] = Origin /\ Course(Start, pressed)[0] = Start
  BY <1>1, <1>4, CourseDef
<1>6. down \in Seq(Message) /\ Len(down) = 1 /\ down[1] = m /\ \A i \in 1..Len(down) : down[i] = m
  BY <1>1, <1>2
<1>7. NetcodeTypeOK
  <2>1. heard \in [car : CarStates, ack : Nat \cup {-1}]
    BY <1>1, NetcodeBounds
  <2>2. /\ history \in Seq(PredictedFrame) /\ pressed \in Seq(Inputs) /\ Len(pressed) = seqNo
        /\ up \in Seq(SentFrame) /\ frames \in Seq(SentFrame) /\ replayed \in Seq(SentFrame)
    BY <1>1, <1>4
  <2>3. /\ {predicted, base, sim} \subseteq CarStates /\ seqNo \in Nat /\ lastAck \in Nat
        /\ crossed \in BOOLEAN /\ smooth \in BOOLEAN
    BY <1>1, NetcodeBounds
  <2> QED
    BY <1>6, <2>1, <2>2, <2>3 DEF NetcodeTypeOK
<1>8. HistoryOK /\ StartOK
  BY <1>1, <1>2, <1>3, <1>6, NetcodeBounds DEF HistoryOK, StartOK
<1>9. AcksOK
  BY <1>1, <1>2, <1>3, <1>6 DEF AcksOK
<1>10. FramesOK /\ ReplayedOK
  BY <1>1, NetcodeBounds DEF FramesOK, ReplayedOK
<1>11. SmoothOK
  BY <1>1, <1>2, <1>3, <1>5, <1>6 DEF SmoothOK, Room
<1> QED
  BY <1>7, <1>8, <1>9, <1>10, <1>11 DEF OnlineIInv

LEMMA OnlineUnchanged ==
  ASSUME OnlineIInv, UNCHANGED onlineVars
  PROVE  OnlineIInv'
BY DEF OnlineIInv, onlineVars, clientVars, serverVars, NetcodeTypeOK, HistoryOK, AcksOK, FramesOK,
       ReplayedOK, SmoothOK, StartOK, HeardAck, First, Room

LEMMA OnlineStep ==
  ASSUME OnlineIInv, NextOnline
  PROVE  OnlineIInv'
<1>1. ASSUME NEW input \in Inputs, ClientTick(input) PROVE OnlineIInv'
  BY <1>1, TickKeeps
<1>2. CASE ClientHears
  BY <1>2, HearsStateKeeps, HearsPhaseKeeps
<1>3. CASE GoRacing \/ CloseRace
  BY <1>3, PhaseKeeps
<1>4. CASE RoomHears
  BY <1>4, RoomHearsKeeps
<1>5. CASE RoomTick
  BY <1>5, RoomTickKeeps
<1>6. CASE Replicate
  BY <1>6, ReplicateKeeps
<1> QED
  BY <1>1, <1>2, <1>3, <1>4, <1>5, <1>6 DEF NextOnline

\* Prediction, rewinding and replaying keep the player's car where his pending inputs
\* take the last snapshot; the room uses each input once and in order; and other cars are
\* drawn as if no snapshot had been forgotten.
THEOREM NetcodeIsSound ==
  SpecNetcode => []NetcodeInv
<1>1. InitNetcode => OnlineIInv /\ RemoteOK
  BY InitOnline, InitRemote
<1>2. OnlineIInv /\ RemoteOK /\ [NextOnline \/ NextRemote]_netcodeVars => OnlineIInv' /\ RemoteOK'
  <2> SUFFICES ASSUME OnlineIInv, RemoteOK, [NextOnline \/ NextRemote]_netcodeVars
               PROVE  OnlineIInv' /\ RemoteOK'
    OBVIOUS
  <2>1. CASE NextOnline
    <3>1. UNCHANGED remoteVars
      BY <2>1 DEF NextOnline, ClientTick, ClientHears, GoRacing, RoomHears, RoomTick, Replicate, CloseRace
    <3> QED
      BY <2>1, <3>1, OnlineStep DEF remoteVars, RemoteOK
  <2>2. CASE NextRemote
    <3>1. PICK dt \in 1..MaxGap : Push(dt)
      BY <2>2 DEF NextRemote
    <3>2. UNCHANGED onlineVars
      BY <3>1 DEF Push
    <3> QED
      BY <3>1, <3>2, OnlineUnchanged, PushStep
  <2>3. CASE UNCHANGED netcodeVars
    <3>1. UNCHANGED onlineVars /\ UNCHANGED remoteVars
      BY <2>3 DEF netcodeVars
    <3> QED
      BY <3>1, OnlineUnchanged DEF remoteVars, RemoteOK
  <2> QED
    BY <2>1, <2>2, <2>3
<1>3. OnlineIInv /\ RemoteOK => NetcodeInv
  BY PredictionFollows, InputsFollow, DrawnRightly DEF NetcodeInv
<1> QED
  BY <1>1, <1>2, <1>3, PTL DEF SpecNetcode
=============================================================================
