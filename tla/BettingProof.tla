---------------------------- MODULE BettingProof ----------------------------
(* The theorems about Betting: for every race, every number of pools, bets *)
(* and sweeps, and every fault but a payout or a creation of a bet that    *)
(* fails after its effect.                                                 *)
EXTENDS BettingInv, SumsProof

Writing == {"payout-rows", "refund-rows", "void-rows"}

LEMMA WorkerSets == Reports \subseteq Workers /\ Sweeps \subseteq Workers
BY DEF Workers

-----------------------------------------------------------------------------
(* What stays when an action leaves its variables alone.                   *)

\* A share depends on what its worker read and on the pool it owns.
LEMMA ShareStays ==
  ASSUME NEW w, NEW b, seen'[w] = seen[w], order'[w] = order[w], cur'[w] = cur[w]
  PROVE  Share(w, b)' = Share(w, b)
BY DEF Share, Backers, SeenIn

LEMMA BetsStay ==
  ASSUME BetInv, UNCHANGED <<bpc, created, staked, returned>>
  PROVE  BetInv'
BY DEF BetInv

LEMMA RowsStay ==
  ASSUME RowInv, UNCHANGED <<payout, settled, voided, won, refunded>>
  PROVE  RowInv'
BY DEF RowInv

LEMMA WritersStay ==
  ASSUME WriterInv, UNCHANGED <<settled, voided, won, refunded>>,
         \A w \in Workers : step'[w] \in Writing =>
           /\ step'[w] = step[w] /\ cur'[w] = cur[w]
           /\ seen'[w] = seen[w] /\ order'[w] = order[w]
  PROVE  WriterInv'
<1> SUFFICES ASSUME NEW w \in Workers, step'[w] \in Writing
             PROVE  /\ step'[w] = "payout-rows" =>
                         /\ cur'[w] \in settled'
                         /\ \A b \in SeenIn(w, cur[w])' : won'[b] = Share(w, b)'
                    /\ step'[w] \in {"refund-rows", "void-rows"} =>
                         /\ cur'[w] \in voided'
                         /\ \A b \in SeenIn(w, cur[w])' : refunded'[b] = Stake[b]
  BY DEF WriterInv, Writing
<1>1. /\ step'[w] = step[w] /\ cur'[w] = cur[w]
      /\ seen'[w] = seen[w] /\ order'[w] = order[w]
  OBVIOUS
<1>2. SeenIn(w, cur[w])' = SeenIn(w, cur[w])
  BY <1>1 DEF SeenIn
<1>3. \A b : Share(w, b)' = Share(w, b)
  BY <1>1, ShareStays
<1> QED
  BY <1>1, <1>2, <1>3 DEF WriterInv

\* The step of a worker that ends without a pool, and changes the status of no
\* pool that is journaled or that somebody else owns.
LEMMA Leaves ==
  ASSUME IInv, Shapes', NEW w \in Workers, NEW l \in Moving,
         step' = [step EXCEPT ![w] = l], cur' = [cur EXCEPT ![w] = NoPool],
         \A v \in Workers \ {w} : seen'[v] = seen[v] /\ order'[v] = order[v],
         \A p \in Pools :
           \/ status'[p] = status[p]
           \/ p \notin settled \cup voided /\ \A v \in Workers \ {w} : cur[v] # p,
         UNCHANGED <<created, payout, bpc, journal>>
  PROVE  IInv'
<1> USE DEF IInv
<1>1. \A v \in Workers : step'[v] = (IF v = w THEN l ELSE step[v])
                      /\ cur'[v] = (IF v = w THEN NoPool ELSE cur[v])
  BY DEF Shapes
<1>2. BetInv' /\ RowInv'
  BY BetsStay, RowsStay DEF journal
<1>3. OwnerInv'
  <2> SUFFICES ASSUME NEW v \in Workers
               PROVE  /\ cur'[v] # NoPool <=> step'[v] \in Owning
                      /\ step'[v] \in Paying => status'[cur'[v]] = "SETTLED"
                      /\ step'[v] \in Refunding => status'[cur'[v]] = "VOIDED"
                      /\ \A u \in Workers : cur'[u] = cur'[v] /\ cur'[u] # NoPool => u = v
    BY DEF OwnerInv
  <2>1. CASE v = w
    BY <1>1, <2>1 DEF Moving, Owning, Paying, Refunding
  <2>2. CASE v # w
    <3>1. step'[v] = step[v] /\ cur'[v] = cur[v]
      BY <1>1, <2>2
    <3>2. cur[v] # NoPool => cur[v] \in Pools /\ status'[cur[v]] = status[cur[v]]
      BY <2>2 DEF Shapes
    <3> QED
      BY <1>1, <2>2, <3>1, <3>2 DEF OwnerInv, Owning
  <2> QED
    BY <2>1, <2>2
<1>4. JournalInv'
  <2>1. \A p \in Pools, v \in Workers : cur'[v] = p => cur[v] = p /\ step'[v] = step[v]
    BY <1>1, PoolAssumption DEF PoolAssumption
  <2>2. \A p \in settled \cup voided : p \in Pools => status'[p] = status[p]
    OBVIOUS
  <2> QED
    BY <2>1, <2>2 DEF JournalInv, journal
<1>5. WriterInv'
  <2>1. \A v \in Workers : step'[v] \in Writing => v # w
    BY <1>1 DEF Writing, Moving
  <2> QED
    BY <1>1, <2>1, WritersStay DEF journal
<1> QED
  BY <1>2, <1>3, <1>4, <1>5

\* A step that changes nothing a worker or the ledger's pools depend on.
LEMMA WorkersStay ==
  ASSUME IInv, BetInv', UNCHANGED <<status, payout, settled, voided, won, refunded, workers>>,
         created' \subseteq Bets,
         bpc' \in [Bets -> {"idle", "stake", "create", "return", "done"}],
         position' \in [Racers -> 0..8]
  PROVE  IInv'
<1> USE DEF IInv, workers
<1>1. Shapes' /\ OwnerInv' /\ JournalInv'
  BY DEF Shapes, OwnerInv, JournalInv
<1>2. WriterInv' /\ RowInv'
  BY WritersStay, RowsStay
<1> QED
  BY <1>1, <1>2

-----------------------------------------------------------------------------
(* The steps of placeBet.                                                  *)

LEMMA BetPreserves ==
  ASSUME Certain, IInv, NEW b \in Bets, BetStep(b) \/ BetCrash(b)
  PROVE  IInv'
<1> USE DEF IInv, Shapes, BetInv, BetGoto, tables, journal, ingestVars, race
<1>1. CASE ReadPool(b)
  <2>1. BetInv'
    BY <1>1 DEF ReadPool
  <2> QED
    BY <1>1, <2>1, WorkersStay DEF ReadPool
<1>2. CASE PostStake(b)
  <2>1. BetInv'
    BY <1>2 DEF PostStake
  <2> QED
    BY <1>2, <2>1, WorkersStay DEF PostStake
<1>3. CASE CreateBet(b)
  <2>1. PICK fate \in May("create") :
          /\ created' = IF fate \in {"ok", "unacked"} THEN created \cup {b} ELSE created
          /\ bpc' = [bpc EXCEPT ![b] = IF fate = "ok" THEN "done" ELSE "return"]
    BY <1>3 DEF CreateBet
  <2>2. fate \in {"ok", "lost"}
    BY DEF Certain, May
  <2>3. BetInv'
    BY <1>3, <2>1, <2>2 DEF CreateBet
  <2> QED
    BY <1>3, <2>1, <2>2, <2>3, WorkersStay DEF CreateBet
<1>4. CASE ReturnStake(b)
  <2>1. BetInv'
    BY <1>4 DEF ReturnStake
  <2> QED
    BY <1>4, <2>1, WorkersStay DEF ReturnStake
<1>5. CASE BetCrash(b)
  <2>1. BetInv'
    BY <1>5 DEF BetCrash
  <2> QED
    BY <1>5, <2>1, WorkersStay DEF BetCrash
<1> QED
  BY <1>1, <1>2, <1>3, <1>4, <1>5 DEF BetStep

-----------------------------------------------------------------------------
(* The steps outside betting, the green light and the clock.               *)

LEMMA ReportedType == Reported \in [Racers -> 0..8]
BY ReportAssumption DEF ReportAssumption, Reported

LEMMA IngestPositions ==
  ASSUME position \in [Racers -> 0..8], IngestStep
  PROVE  position' \in [Racers -> 0..8]
<1> USE DEF race, room, handlers
<1>1. CASE SendReport \/ ReadAck \/ \E i \in Reports : Fail(i)
  BY <1>1 DEF SendReport, ReadAck, Fail
<1>2. ASSUME NEW i \in Reports, HandlerStep(i)
      PROVE  position' \in [Racers -> 0..8]
  <2>1. CASE ReadRace(i) \/ EndRace(i)
    BY <2>1 DEF ReadRace, EndRace
  <2>2. CASE CreateRace(i)
    BY <2>2, ReportedType DEF CreateRace
  <2>3. ASSUME NEW r \in Racers, UpsertParticipant(i, r)
        PROVE  position' \in [Racers -> 0..8]
    <3>1. Position[r] \in 0..8
      BY ReportAssumption DEF ReportAssumption
    <3> QED
      BY <2>3, <3>1 DEF UpsertParticipant
  <2>4. ASSUME NEW r \in Racers, PostReward(i, r) \/ AwardRep(i, r)
        PROVE  position' \in [Racers -> 0..8]
    BY <2>4 DEF PostReward, AwardRep
  <2> QED
    BY <1>2, <2>1, <2>2, <2>3, <2>4 DEF HandlerStep
<1> QED
  BY <1>1, <1>2 DEF IngestStep

LEMMA IngestPreserves ==
  ASSUME IInv, IngestStep, UNCHANGED <<clock, tables, bpc, journal, workers>>
  PROVE  IInv'
<1>1. BetInv'
  BY BetsStay DEF IInv, tables, journal
<1>2. position' \in [Racers -> 0..8]
  BY IngestPositions DEF IInv, Shapes
<1> QED
  BY <1>1, <1>2, WorkersStay DEF IInv, Shapes, tables, journal

LEMMA TickPreserves ==
  ASSUME IInv, Tick
  PROVE  IInv'
<1>1. BetInv'
  BY BetsStay DEF IInv, Tick, tables, journal
<1> QED
  BY <1>1, WorkersStay DEF IInv, Shapes, Tick, tables, journal, ingestVars, race

LEMMA LockPreserves ==
  ASSUME IInv, LockPools
  PROVE  IInv'
<1> USE DEF IInv, LockPools, workers, journal, ingestVars, race
<1>1. \A p \in Pools : status[p] # "OPEN" => status'[p] = status[p]
  OBVIOUS
<1>2. Shapes'
  BY DEF Shapes
<1>3. OwnerInv'
  BY <1>1 DEF OwnerInv, Shapes, Owning
<1>4. JournalInv'
  BY <1>1 DEF JournalInv
<1>5. BetInv' /\ WriterInv' /\ RowInv'
  BY BetsStay, WritersStay, RowsStay
<1> QED
  BY <1>2, <1>3, <1>4, <1>5

-----------------------------------------------------------------------------
(* The steps of a worker that end without a pool.                          *)

LEMMA Unowned ==
  ASSUME IInv, NEW w \in Workers, step[w] \in Moving
  PROVE  cur[w] = NoPool /\ cur = [cur EXCEPT ![w] = NoPool]
<1>1. cur[w] = NoPool
  BY DEF IInv, OwnerInv, Owning, Moving, Paying, Refunding
<1> QED
  BY <1>1 DEF IInv, Shapes

LEMMA Owned ==
  ASSUME IInv, NEW w \in Workers, step[w] \in Owning
  PROVE  /\ cur[w] \in Pools
         /\ \A v \in Workers \ {w} : cur[v] # cur[w]
BY DEF IInv, Shapes, OwnerInv

\* A worker that gives its pool up leaves it in an allowed state when it leaves
\* its status alone, or when the pool is not journaled.
LEMMA GiveUpPreserves ==
  ASSUME IInv, NEW w \in Workers, step[w] \in Owning, GiveUp(w),
         \A p \in Pools : status'[p] = status[p] \/ (p = cur[w] /\ p \notin settled \cup voided),
         status' \in [Pools -> {"OPEN", "LOCKED", "SETTLED", "VOIDED"}],
         UNCHANGED <<ingestVars, created, payout, bpc, journal, seen, order>>
  PROVE  IInv'
<1>1. PICK l \in Moving : step' = [step EXCEPT ![w] = l]
  BY DEF GiveUp, StepTo, Moving
<1>2. cur' = [cur EXCEPT ![w] = NoPool]
  BY DEF GiveUp
<1>3. Shapes'
  BY <1>1, <1>2 DEF IInv, Shapes, ingestVars, race
<1> QED
  BY <1>1, <1>2, <1>3, Owned, Leaves

LEMMA CollectPreserves ==
  ASSUME IInv, NEW w \in Workers,
         (w \in Reports /\ CollectByReport(w)) \/ (w \in Sweeps /\ (CollectEnded(w) \/ CollectStale(w)))
  PROVE  IInv'
<1> USE DEF StepTo, tables, ingestVars, race
<1>1. CASE CollectByReport(w)
  <2>1. step[w] \in Moving /\ "settling" \in Moving
    BY <1>1 DEF CollectByReport, Moving
  <2>2. Shapes'
    BY <1>1, <2>1, ReportedType DEF CollectByReport, IInv, Shapes
  <2>3. \A v \in Workers \ {w} : seen'[v] = seen[v] /\ order'[v] = order[v]
    BY <1>1 DEF CollectByReport, IInv, Shapes
  <2> QED
    BY <1>1, <2>1, <2>2, <2>3, Unowned, Leaves DEF CollectByReport
<1>2. CASE CollectEnded(w)
  <2>1. step[w] \in Moving /\ "settling" \in Moving
    BY <1>2 DEF CollectEnded, Moving
  <2>2. Shapes'
    BY <1>2, <2>1 DEF CollectEnded, IInv, Shapes
  <2>3. \A v \in Workers \ {w} : seen'[v] = seen[v] /\ order'[v] = order[v]
    BY <1>2 DEF CollectEnded, IInv, Shapes
  <2> QED
    BY <1>2, <2>1, <2>2, <2>3, Unowned, Leaves DEF CollectEnded
<1>3. CASE CollectStale(w)
  <2>1. step[w] \in Moving /\ "voiding" \in Moving
    BY <1>3 DEF CollectStale, Moving
  <2>2. Shapes'
    BY <1>3, <2>1 DEF CollectStale, IInv, Shapes
  <2>3. \A v \in Workers \ {w} : seen'[v] = seen[v] /\ order'[v] = order[v]
    BY <1>3 DEF CollectStale, IInv, Shapes
  <2> QED
    BY <1>3, <2>1, <2>2, <2>3, Unowned, Leaves DEF CollectStale
<1> QED
  BY <1>1, <1>2, <1>3

LEMMA EndPreserves ==
  ASSUME IInv, NEW w \in Workers, EndOfLoop(w) \/ FinishReport(w) \/ EndOfSweep(w)
  PROVE  IInv'
<1>1. PICK l \in Moving : step[w] \in Moving /\ step' = [step EXCEPT ![w] = l]
  BY DEF EndOfLoop, FinishReport, EndOfSweep, StepTo, Moving
<1>2. UNCHANGED <<race, tables, bpc, journal, seen, order, cur>>
  BY DEF EndOfLoop, FinishReport, EndOfSweep, Finish, ingestVars
<1>3. Shapes'
  BY <1>1, <1>2 DEF IInv, Shapes, race, tables
<1> QED
  BY <1>1, <1>2, <1>3, Unowned, Leaves DEF tables

LEMMA CrashPreserves ==
  ASSUME IInv, NEW w \in Workers, WorkerCrash(w)
  PROVE  IInv'
<1>1. PICK l \in Moving : step' = [step EXCEPT ![w] = l]
  BY DEF WorkerCrash, StepTo, Moving
<1>2. Shapes'
  BY <1>1 DEF WorkerCrash, IInv, Shapes, race, tables
<1> QED
  BY <1>1, <1>2, Leaves DEF WorkerCrash, tables

LEMMA ClaimStaleFailsPreserves ==
  ASSUME IInv, NEW w \in Sweeps, ClaimStaleFails(w)
  PROVE  IInv'
<1>1. w \in Workers /\ step[w] \in Moving /\ "idle" \in Moving
  BY WorkerSets DEF ClaimStaleFails, Moving
<1>2. PICK p \in todo[w] :
        \/ status' = status
        \/ status[p] \in Bettable /\ status' = [status EXCEPT ![p] = "VOIDED"]
  BY DEF ClaimStaleFails
<1>3. \A q \in Pools : status'[q] = status[q] \/ status[q] \in Bettable
  BY <1>2 DEF IInv, Shapes
<1>4. \A q \in Pools : status[q] \in Bettable =>
        q \notin settled \cup voided /\ \A v \in Workers : cur[v] # q
  BY PoolAssumption DEF PoolAssumption, IInv, JournalInv, OwnerInv, Owning, Bettable
<1>5. Shapes'
  BY <1>1, <1>2 DEF ClaimStaleFails, IInv, Shapes, StepTo, ingestVars, race
<1> QED
  BY <1>1, <1>3, <1>4, <1>5, Unowned, Leaves DEF ClaimStaleFails, StepTo

-----------------------------------------------------------------------------
(* A worker takes a pool.                                                  *)

\* A pool that can be claimed has no owner and no journal.
LEMMA BettableIsFree ==
  ASSUME IInv, NEW p \in Pools, status[p] \in Bettable
  PROVE  p \notin settled \cup voided /\ \A v \in Workers : cur[v] # p
BY PoolAssumption DEF PoolAssumption, IInv, JournalInv, OwnerInv, Owning, Bettable

LEMMA Takes ==
  ASSUME IInv, NEW w \in Workers, NEW p \in Pools, NEW l, NEW s,
         step[w] \in Moving, status[p] \in Bettable,
         \/ s = "SETTLED" /\ l \in {"mark", "payout"}
         \/ s = "VOIDED" /\ l = "void-refund",
         step' = [step EXCEPT ![w] = l], cur' = [cur EXCEPT ![w] = p],
         status' = [status EXCEPT ![p] = s],
         UNCHANGED <<ingestVars, created, payout, bpc, journal, seen, order>>
  PROVE  IInv'
<1> USE DEF IInv
<1>1. /\ \A v \in Workers : /\ step'[v] = (IF v = w THEN l ELSE step[v])
                           /\ cur'[v] = (IF v = w THEN p ELSE cur[v])
      /\ \A q \in Pools : status'[q] = (IF q = p THEN s ELSE status[q])
  BY DEF Shapes
<1>2. p \notin settled \cup voided /\ \A v \in Workers : cur[v] # p
  BY BettableIsFree
<1>3. Shapes'
  BY DEF Shapes, Owning, Paying, Refunding, ingestVars, race
<1>4. BetInv' /\ RowInv'
  BY BetsStay, RowsStay DEF journal
<1>5. OwnerInv'
  <2> SUFFICES ASSUME NEW v \in Workers
               PROVE  /\ cur'[v] # NoPool <=> step'[v] \in Owning
                      /\ step'[v] \in Paying => status'[cur'[v]] = "SETTLED"
                      /\ step'[v] \in Refunding => status'[cur'[v]] = "VOIDED"
                      /\ \A u \in Workers : cur'[u] = cur'[v] /\ cur'[u] # NoPool => u = v
    BY DEF OwnerInv
  <2>1. CASE v = w
    BY <1>1, <1>2, <2>1, PoolAssumption DEF PoolAssumption, Owning, Paying, Refunding
  <2>2. CASE v # w
    <3>1. step'[v] = step[v] /\ cur'[v] = cur[v]
      BY <1>1, <2>2
    <3>2. cur[v] # NoPool => cur[v] \in Pools /\ status'[cur[v]] = status[cur[v]]
      BY <1>1, <1>2 DEF Shapes
    <3> QED
      BY <1>1, <1>2, <2>2, <3>1, <3>2 DEF OwnerInv, Owning
  <2> QED
    BY <2>1, <2>2
<1>6. JournalInv'
  <2>1. \A q \in settled \cup voided : q # p
    BY <1>2
  <2>2. \A q \in Pools, v \in Workers : q # p /\ cur'[v] = q => cur[v] = q /\ step'[v] = step[v]
    BY <1>1
  <2> QED
    BY <1>1, <2>1, <2>2 DEF JournalInv, journal
<1>7. WriterInv'
  <2>1. \A v \in Workers : step'[v] \in Writing => v # w
    BY <1>1 DEF Writing
  <2> QED
    BY <1>1, <2>1, WritersStay DEF journal
<1> QED
  BY <1>3, <1>4, <1>5, <1>6, <1>7

LEMMA ClaimPreserves ==
  ASSUME IInv, NEW w \in Workers, NEW p \in Pools, Claim(w, p)
  PROVE  IInv'
<1> DEFINE claimed(fate) == fate # "lost" /\ status[p] \in Bettable
<1>1. step[w] \in Moving /\ step[w] = "settling"
  BY DEF Claim, Moving
<1>2. PICK fate \in May("claim") :
        /\ status' = IF claimed(fate) THEN [status EXCEPT ![p] = "SETTLED"] ELSE status
        /\ IF claimed(fate) /\ fate = "ok" /\ SeenIn(w, p) # {}
           THEN /\ cur' = [cur EXCEPT ![w] = p]
                /\ StepTo(w, IF Backers(w, p) = {} THEN "mark" ELSE "payout")
           ELSE UNCHANGED <<step, cur>>
  BY DEF Claim
<1>3. UNCHANGED <<ingestVars, created, payout, bpc, journal, seen, order>>
  BY DEF Claim
<1>4. CASE claimed(fate) /\ fate = "ok" /\ SeenIn(w, p) # {}
  <2>1. PICK l \in {"mark", "payout"} : step' = [step EXCEPT ![w] = l]
    BY <1>2, <1>4 DEF StepTo
  <2> QED
    BY <1>1, <1>2, <1>3, <1>4, <2>1, Takes
<1>5. CASE ~(claimed(fate) /\ fate = "ok" /\ SeenIn(w, p) # {})
  <2>1. step' = [step EXCEPT ![w] = "settling"] /\ cur' = cur /\ "settling" \in Moving
    BY <1>1, <1>2, <1>5 DEF IInv, Shapes, Moving
  <2>2. \A q \in Pools :
          \/ status'[q] = status[q]
          \/ q \notin settled \cup voided /\ \A v \in Workers \ {w} : cur[v] # q
    BY <1>2, BettableIsFree DEF IInv, Shapes
  <2>3. Shapes'
    BY <1>1, <1>2, <1>3, <2>1 DEF IInv, Shapes, ingestVars, race
  <2> QED
    BY <1>1, <1>3, <2>1, <2>2, <2>3, Unowned, Leaves
<1> QED
  BY <1>4, <1>5

LEMMA ClaimStalePreserves ==
  ASSUME IInv, NEW w \in Sweeps, NEW p \in Pools, ClaimStale(w, p)
  PROVE  IInv'
<1>1. w \in Workers /\ step[w] \in Moving /\ step[w] = "voiding"
  BY WorkerSets DEF ClaimStale, Moving
<1>2. UNCHANGED <<ingestVars, created, payout, bpc, journal, seen, order>>
  BY DEF ClaimStale
<1>3. CASE status[p] \in Bettable /\ SeenIn(w, p) # {}
  BY <1>1, <1>2, <1>3, Takes DEF ClaimStale, StepTo
<1>4. CASE ~(status[p] \in Bettable /\ SeenIn(w, p) # {})
  <2>1. /\ step' = [step EXCEPT ![w] = "voiding"] /\ cur' = cur /\ "voiding" \in Moving
        /\ status' = status \/ (status[p] \in Bettable /\ status' = [status EXCEPT ![p] = "VOIDED"])
    BY <1>1, <1>4 DEF ClaimStale, IInv, Shapes, Moving
  <2>2. \A q \in Pools :
          \/ status'[q] = status[q]
          \/ q \notin settled \cup voided /\ \A v \in Workers \ {w} : cur[v] # q
    BY <2>1, BettableIsFree DEF IInv, Shapes
  <2>3. Shapes'
    BY <1>1, <1>2, <2>1 DEF IInv, Shapes, ingestVars, race
  <2> QED
    BY <1>1, <1>2, <2>1, <2>2, <2>3, Unowned, Leaves
<1> QED
  BY <1>3, <1>4

-----------------------------------------------------------------------------
(* A worker and the pool it owns.                                          *)

\* A step of an owner that touches the status and the journals of its pool alone,
\* and goes on to l, with the pool or without.
LEMMA OwnerActs ==
  ASSUME IInv, Shapes', NEW w \in Workers, step[w] \in Owning,
         NEW l \in Owning \cup Moving, NEW c \in {cur[w], NoPool}, NEW s,
         c = NoPool <=> l \in Moving,
         step' = [step EXCEPT ![w] = l], cur' = [cur EXCEPT ![w] = c],
         status' = [status EXCEPT ![cur[w]] = s],
         UNCHANGED <<seen, order>>,
         l \in Paying => s = "SETTLED",
         l \in Refunding => s = "VOIDED",
         settled' \in {settled, settled \cup {cur[w]}},
         voided' \in {voided, voided \cup {cur[w]}},
         cur[w] \in settled' => s = "SETTLED" /\ l \in Moving \cup {"payout-rows"},
         cur[w] \in voided' => s = "VOIDED" /\ l \in Moving \cup {"refund-rows", "void-rows"},
         \A b \in Bets : Pool[b] # cur[w] => won'[b] = won[b] /\ refunded'[b] = refunded[b],
         l = "payout-rows" =>
           /\ cur[w] \in settled'
           /\ \A b \in SeenIn(w, cur[w]) : won'[b] = Share(w, b),
         l \in {"refund-rows", "void-rows"} =>
           /\ cur[w] \in voided'
           /\ \A b \in SeenIn(w, cur[w]) : refunded'[b] = Stake[b]
  PROVE  OwnerInv' /\ JournalInv' /\ WriterInv'
<1> USE DEF IInv
<1>1. /\ \A v \in Workers : /\ step'[v] = (IF v = w THEN l ELSE step[v])
                           /\ cur'[v] = (IF v = w THEN c ELSE cur[v])
      /\ \A q \in Pools : status'[q] = (IF q = cur[w] THEN s ELSE status[q])
  BY DEF Shapes
<1>2. cur[w] \in Pools /\ cur[w] # NoPool /\ \A v \in Workers \ {w} : cur[v] # cur[w]
  BY Owned, PoolAssumption DEF PoolAssumption
<1>3. l \in Moving <=> l \notin Owning
  BY DEF Moving, Owning, Paying, Refunding
<1>4. OwnerInv'
  <2> SUFFICES ASSUME NEW v \in Workers
               PROVE  /\ cur'[v] # NoPool <=> step'[v] \in Owning
                      /\ step'[v] \in Paying => status'[cur'[v]] = "SETTLED"
                      /\ step'[v] \in Refunding => status'[cur'[v]] = "VOIDED"
                      /\ \A u \in Workers : cur'[u] = cur'[v] /\ cur'[u] # NoPool => u = v
    BY DEF OwnerInv
  <2>1. CASE v = w
    BY <1>1, <1>2, <1>3, <2>1 DEF Owning
  <2>2. CASE v # w
    <3>1. step'[v] = step[v] /\ cur'[v] = cur[v]
      BY <1>1, <2>2
    <3>2. cur[v] # NoPool => cur[v] \in Pools /\ status'[cur[v]] = status[cur[v]]
      BY <1>1, <1>2, <2>2 DEF Shapes
    <3> QED
      BY <1>1, <1>2, <2>2, <3>1, <3>2 DEF OwnerInv, Owning
  <2> QED
    BY <2>1, <2>2
<1>5. JournalInv'
  <2> SUFFICES ASSUME NEW p \in Pools
               PROVE  /\ p \in settled' =>
                           /\ status'[p] = "SETTLED"
                           /\ \A v \in Workers : cur'[v] = p => step'[v] = "payout-rows"
                      /\ p \in voided' =>
                           /\ status'[p] = "VOIDED"
                           /\ \A v \in Workers : cur'[v] = p => step'[v] \in {"refund-rows", "void-rows"}
    BY DEF JournalInv
  <2>1. CASE p = cur[w]
    <3>1. \A v \in Workers : cur'[v] = p => v = w /\ c # NoPool
      BY <1>1, <1>2, <2>1
    <3> QED
      BY <1>1, <1>3, <2>1, <3>1
  <2>2. CASE p # cur[w]
    <3>1. \A v \in Workers : cur'[v] = p => cur[v] = p /\ step'[v] = step[v]
      BY <1>1, <2>2, PoolAssumption DEF PoolAssumption
    <3> QED
      BY <1>1, <2>2, <3>1 DEF JournalInv
  <2> QED
    BY <2>1, <2>2
<1>6. WriterInv'
  <2> SUFFICES ASSUME NEW v \in Workers, step'[v] \in Writing
               PROVE  /\ step'[v] = "payout-rows" =>
                           /\ cur'[v] \in settled'
                           /\ \A b \in SeenIn(v, cur[v])' : won'[b] = Share(v, b)'
                      /\ step'[v] \in {"refund-rows", "void-rows"} =>
                           /\ cur'[v] \in voided'
                           /\ \A b \in SeenIn(v, cur[v])' : refunded'[b] = Stake[b]
    BY DEF WriterInv, Writing
  <2>1. cur'[v] = cur[v]
    <3>1. v = w => l \in Writing
      BY <1>1
    <3>2. l \in Writing => l \notin Moving
      BY DEF Writing, Moving
    <3> QED
      BY <1>1, <3>1, <3>2
  <2>2. SeenIn(v, cur[v])' = SeenIn(v, cur[v])
    BY <2>1 DEF SeenIn
  <2>3. \A b : Share(v, b)' = Share(v, b)
    BY <2>1, ShareStays
  <2>4. CASE v = w
    BY <1>1, <2>1, <2>2, <2>3, <2>4
  <2>5. CASE v # w
    <3>1. step'[v] = step[v]
      BY <1>1, <2>5
    <3>2. \A b \in SeenIn(v, cur[v]) : b \in Bets /\ Pool[b] # cur[w]
      BY <1>2, <2>5 DEF SeenIn, Shapes
    <3> QED
      BY <2>1, <2>2, <2>3, <3>1, <3>2 DEF WriterInv
  <2> QED
    BY <2>4, <2>5
<1> QED
  BY <1>4, <1>5, <1>6

LEMMA ReopenPreserves ==
  ASSUME IInv, NEW w \in Workers, Reopen(w)
  PROVE  IInv'
<1>1. step[w] \in Owning /\ step[w] = "reopen"
  BY DEF Reopen, Owning, Paying
<1>2. cur[w] \in Pools /\ cur[w] \notin settled \cup voided
  BY <1>1, Owned DEF IInv, JournalInv
<1>3. /\ \/ status' = status
         \/ status' = [status EXCEPT ![cur[w]] = "LOCKED"]
      /\ GiveUp(w)
      /\ UNCHANGED <<ingestVars, created, payout, bpc, journal, seen, order>>
  BY DEF Reopen
<1>4. /\ status' \in [Pools -> {"OPEN", "LOCKED", "SETTLED", "VOIDED"}]
      /\ \A p \in Pools : status'[p] = status[p] \/ p = cur[w]
  BY <1>2, <1>3 DEF IInv, Shapes
<1> QED
  BY <1>1, <1>2, <1>3, <1>4, GiveUpPreserves

LEMMA MarkPreserves ==
  ASSUME IInv, NEW w \in Workers, MarkVoided(w)
  PROVE  IInv'
<1>1. step[w] \in Owning /\ step[w] = "mark"
  BY DEF MarkVoided, Owning, Paying
<1>2. cur[w] \in Pools /\ cur[w] \notin settled \cup voided
  BY <1>1, Owned DEF IInv, JournalInv
<1>3. UNCHANGED <<ingestVars, created, payout, bpc, journal, seen, order>>
  BY DEF MarkVoided
<1>4. CASE /\ status' = status \/ status' = [status EXCEPT ![cur[w]] = "VOIDED"]
           /\ GiveUp(w)
  BY <1>1, <1>2, <1>3, <1>4, GiveUpPreserves DEF IInv, Shapes
<1>5. CASE /\ status' = [status EXCEPT ![cur[w]] = "VOIDED"]
           /\ step' = [step EXCEPT ![w] = "refund"]
           /\ cur' = cur
  <2>1. cur' = [cur EXCEPT ![w] = cur[w]] /\ cur[w] # NoPool
    BY <1>2, <1>5, PoolAssumption DEF PoolAssumption, IInv, Shapes
  <2>2. /\ "refund" \in Owning /\ "refund" \notin Moving /\ "refund" \notin Paying
        /\ "refund" \notin {"payout-rows", "refund-rows", "void-rows"}
    BY DEF Owning, Moving, Paying, Refunding
  <2>3. Shapes'
    BY <1>2, <1>3, <1>5, <2>2 DEF IInv, Shapes, ingestVars, race
  <2>4. OwnerInv' /\ JournalInv' /\ WriterInv'
    BY <1>1, <1>2, <1>3, <1>5, <2>1, <2>2, <2>3, OwnerActs DEF journal
  <2> QED
    BY <1>3, <2>3, <2>4, BetsStay, RowsStay DEF IInv, journal
<1> QED
  BY <1>4, <1>5 DEF MarkVoided, StepTo

LEMMA RefundPreserves ==
  ASSUME IInv, NEW w \in Workers, PostRefund(w)
  PROVE  IInv'
<1>1. step[w] \in Refunding /\ step[w] \in Owning /\ step[w] \in {"refund", "void-refund"}
  BY DEF PostRefund, Owning, Refunding
<1>2. /\ cur[w] \in Pools /\ cur[w] \notin settled \cup voided /\ cur[w] # NoPool
      /\ status[cur[w]] = "VOIDED"
  BY <1>1, Owned, PoolAssumption DEF PoolAssumption, IInv, JournalInv, OwnerInv
<1>3. UNCHANGED <<ingestVars, status, created, payout, bpc, staked, returned, settled, won, seen, order>>
  BY DEF PostRefund, tables
<1>4. PICK fate \in May("refund") :
        /\ IF fate # "lost" /\ cur[w] \notin voided
           THEN /\ voided' = voided \cup {cur[w]}
                /\ refunded' = [b \in Bets |-> IF Pool[b] = cur[w] THEN Refund(w, b) ELSE refunded[b]]
           ELSE UNCHANGED <<voided, refunded>>
        /\ IF fate = "ok"
           THEN /\ StepTo(w, IF step[w] = "refund" THEN "refund-rows" ELSE "void-rows")
                /\ UNCHANGED <<cur, todo>>
           ELSE GiveUp(w)
  BY DEF PostRefund
<1>5. CASE fate = "lost"
  BY <1>1, <1>3, <1>4, <1>5, GiveUpPreserves DEF IInv, Shapes, journal
<1>6. CASE fate # "lost"
  <2>1. /\ voided' = voided \cup {cur[w]}
        /\ refunded' = [b \in Bets |-> IF Pool[b] = cur[w] THEN Refund(w, b) ELSE refunded[b]]
    BY <1>2, <1>4, <1>6
  <2>2. PICK l \in Moving \cup {"refund-rows", "void-rows"}, c \in {cur[w], NoPool} :
          /\ step' = [step EXCEPT ![w] = l]
          /\ cur' = [cur EXCEPT ![w] = c]
          /\ c = NoPool <=> l \in Moving
    <3>1. CASE fate = "ok"
      <4>1. cur' = [cur EXCEPT ![w] = cur[w]]
        BY <1>4, <3>1 DEF IInv, Shapes
      <4> QED
        BY <1>2, <1>4, <3>1, <4>1 DEF StepTo, Moving
    <3>2. CASE fate # "ok"
      BY <1>4, <3>2 DEF GiveUp, StepTo, Moving
    <3> QED
      BY <3>1, <3>2
  <2>3. l \in Owning \cup Moving /\ l \notin Paying /\ l # "payout-rows"
    BY DEF Owning, Moving, Paying, Refunding
  <2>4. Shapes'
    BY <1>2, <1>3, <2>2, <2>3 DEF IInv, Shapes, ingestVars, race
  <2>5. status' = [status EXCEPT ![cur[w]] = "VOIDED"]
    BY <1>2, <1>3 DEF IInv, Shapes
  <2>6. \A b \in SeenIn(w, cur[w]) : refunded'[b] = Stake[b]
    BY <2>1 DEF IInv, Shapes, SeenIn, Refund
  <2>7. \A b \in Bets : Pool[b] # cur[w] => refunded'[b] = refunded[b]
    BY <2>1
  <2>8. OwnerInv' /\ JournalInv' /\ WriterInv'
    BY <1>1, <1>2, <1>3, <2>1, <2>2, <2>3, <2>4, <2>5, <2>6, <2>7, OwnerActs
  <2>9. RowInv'
    BY <1>2, <1>3, <2>1, <2>7 DEF IInv, RowInv
  <2> QED
    BY <1>3, <2>4, <2>8, <2>9, BetsStay DEF IInv
<1> QED
  BY <1>5, <1>6

LEMMA PayoutPreserves ==
  ASSUME Certain, IInv, NEW w \in Workers, PostPayout(w)
  PROVE  IInv'
<1>1. step[w] \in Paying /\ step[w] \in Owning /\ step[w] = "payout"
  BY DEF PostPayout, Owning, Paying
<1>2. /\ cur[w] \in Pools /\ cur[w] \notin settled \cup voided /\ cur[w] # NoPool
      /\ status[cur[w]] = "SETTLED"
  BY <1>1, Owned, PoolAssumption DEF PoolAssumption, IInv, JournalInv, OwnerInv
<1>3. UNCHANGED <<ingestVars, status, created, payout, bpc, staked, returned, voided, refunded, seen, order, cur>>
  BY DEF PostPayout, tables
<1>4. PICK fate \in May("payout") :
        /\ IF fate # "lost" /\ cur[w] \notin settled
           THEN /\ settled' = settled \cup {cur[w]}
                /\ won' = [b \in Bets |-> IF Pool[b] = cur[w] THEN Share(w, b) ELSE won[b]]
           ELSE UNCHANGED <<settled, won>>
        /\ step' = [step EXCEPT ![w] = IF fate = "ok" THEN "payout-rows" ELSE "reopen"]
  BY DEF PostPayout, StepTo
<1>5. fate \in {"ok", "lost"}
  BY DEF Certain, May
<1>6. /\ cur' = [cur EXCEPT ![w] = cur[w]]
      /\ status' = [status EXCEPT ![cur[w]] = "SETTLED"]
  BY <1>2, <1>3 DEF IInv, Shapes
<1>7. {"payout-rows", "reopen"} \subseteq Owning \ (Moving \cup Refunding)
  BY DEF Owning, Moving, Paying, Refunding
<1>8. Shapes'
  BY <1>3, <1>4, <1>7 DEF IInv, Shapes, ingestVars, race
<1>9. CASE fate = "lost"
  <2>1. settled' = settled /\ won' = won /\ step' = [step EXCEPT ![w] = "reopen"]
    BY <1>4, <1>9
  <2>2. OwnerInv' /\ JournalInv' /\ WriterInv'
    BY <1>1, <1>2, <1>3, <1>6, <1>7, <1>8, <2>1, OwnerActs
  <2> QED
    BY <1>3, <1>8, <2>1, <2>2, BetsStay, RowsStay DEF IInv
<1>10. CASE fate = "ok"
  <2>1. /\ settled' = settled \cup {cur[w]}
        /\ won' = [b \in Bets |-> IF Pool[b] = cur[w] THEN Share(w, b) ELSE won[b]]
        /\ step' = [step EXCEPT ![w] = "payout-rows"]
    BY <1>2, <1>4, <1>10
  <2>2. \A b \in SeenIn(w, cur[w]) : won'[b] = Share(w, b)
    BY <2>1 DEF IInv, Shapes, SeenIn
  <2>3. \A b \in Bets : Pool[b] # cur[w] => won'[b] = won[b]
    BY <2>1
  <2>4. OwnerInv' /\ JournalInv' /\ WriterInv'
    BY <1>1, <1>2, <1>3, <1>6, <1>7, <1>8, <2>1, <2>2, <2>3, OwnerActs
  <2>5. RowInv'
    BY <1>2, <1>3, <2>1, <2>3 DEF IInv, RowInv
  <2> QED
    BY <1>3, <1>8, <2>4, <2>5, BetsStay DEF IInv
<1> QED
  BY <1>5, <1>9, <1>10

LEMMA RowsPreserve ==
  ASSUME IInv, NEW w \in Workers, WriteRows(w)
  PROVE  IInv'
<1>1. step[w] \in Owning /\ step[w] \in Writing
  BY DEF WriteRows, Owning, Paying, Refunding, Writing
<1>2. cur[w] \in Pools
  BY <1>1, Owned
<1>3. UNCHANGED <<ingestVars, status, created, bpc, journal, seen, order>>
  BY DEF WriteRows
<1>4. PICK S \in SUBSET SeenIn(w, cur[w]) :
        payout' = [b \in Bets |->
          IF b \in S THEN IF step[w] = "payout-rows" THEN Share(w, b) ELSE Stake[b]
          ELSE payout[b]]
  BY DEF WriteRows
<1>5. PICK l \in Moving : step' = [step EXCEPT ![w] = l] /\ cur' = [cur EXCEPT ![w] = NoPool]
  BY DEF WriteRows, GiveUp, StepTo, Moving
<1>6. \A b \in S :
        /\ b \in Bets /\ Pool[b] = cur[w]
        /\ \/ Pool[b] \in settled /\ payout'[b] = won[b]
           \/ Pool[b] \in voided /\ payout'[b] = refunded[b]
  BY <1>1, <1>4 DEF IInv, WriterInv, SeenIn, Shapes, Writing
<1>7. RowInv'
  BY <1>3, <1>4, <1>6 DEF IInv, RowInv, journal
<1>8. Shapes'
  BY <1>3, <1>5 DEF IInv, Shapes, ingestVars, race
<1>9. /\ l \in Owning \cup Moving /\ l \notin Paying \cup Refunding \cup Writing
      /\ status' = [status EXCEPT ![cur[w]] = status[cur[w]]]
  BY <1>3, <1>5 DEF IInv, Shapes, Moving, Paying, Refunding, Writing
<1>10. /\ cur[w] \in settled => status[cur[w]] = "SETTLED"
       /\ cur[w] \in voided => status[cur[w]] = "VOIDED"
  BY <1>2 DEF IInv, JournalInv
<1>11. OwnerInv' /\ JournalInv' /\ WriterInv'
  BY <1>1, <1>3, <1>5, <1>8, <1>9, <1>10, OwnerActs DEF journal, Writing
<1> QED
  BY <1>3, <1>7, <1>8, <1>11, BetsStay DEF IInv, journal

-----------------------------------------------------------------------------
(* The theorems.                                                           *)

LEMMA InitInv == InitBetting => IInv
<1> SUFFICES ASSUME InitBetting PROVE IInv
  OBVIOUS
<1> USE DEF InitBetting, InitIngest
<1>1. Shapes
  BY DEF Shapes, Moving, NoOrder
<1>2. BetInv /\ JournalInv /\ RowInv
  BY DEF BetInv, JournalInv, RowInv
<1>3. OwnerInv /\ WriterInv
  BY DEF OwnerInv, WriterInv, Owning, Paying, Refunding
<1> QED
  BY <1>1, <1>2, <1>3 DEF IInv

LEMMA NextInv ==
  ASSUME Certain, IInv, [BettingNext]_vars
  PROVE  IInv'
<1>1. CASE IngestStep /\ UNCHANGED <<clock, tables, bpc, journal, workers>>
  BY <1>1, IngestPreserves
<1>2. ASSUME NEW b \in Bets, BetStep(b) \/ BetCrash(b)
      PROVE  IInv'
  BY <1>2, BetPreserves
<1>3. ASSUME NEW i \in Reports, CollectByReport(i)
      PROVE  IInv'
  BY <1>3, WorkerSets, CollectPreserves
<1>4. ASSUME NEW w \in Workers, Settle(w) \/ WorkerCrash(w)
      PROVE  IInv'
  BY <1>4, EndPreserves, MarkPreserves, RefundPreserves, PayoutPreserves, ReopenPreserves,
     RowsPreserve, ClaimPreserves, CrashPreserves DEF Settle
<1>5. ASSUME NEW s \in Sweeps, Sweep(s)
      PROVE  IInv'
  BY <1>5, WorkerSets, CollectPreserves, ClaimStaleFailsPreserves, EndPreserves,
     ClaimStalePreserves DEF Sweep
<1>6. CASE LockPools
  BY <1>6, LockPreserves
<1>7. CASE Tick
  BY <1>7, TickPreserves
<1>8. CASE UNCHANGED vars
  <2>1. BetInv'
    BY <1>8, BetsStay DEF IInv, vars, tables, journal
  <2> QED
    BY <1>8, <2>1, WorkersStay DEF IInv, Shapes, vars, tables, journal, ingestVars, race
<1> QED
  BY <1>1, <1>2, <1>3, <1>4, <1>5, <1>6, <1>7, <1>8 DEF BettingNext

\* The invariant holds in every reachable state.
THEOREM Invariance ==
  ASSUME Certain
  PROVE  BettingSpec => []IInv
<1>1. InitBetting => IInv
  BY InitInv
<1>2. IInv /\ [BettingNext]_vars => IInv'
  BY NextInv
<1> QED
  BY <1>1, <1>2, PTL DEF BettingSpec

\* No pool is both paid out and refunded, whatever workers settle it and wherever they
\* fail or die (settlePool, refundBets, voidStalePools); the row of a bet stands for a
\* stake that was taken and not given back outside its pool (placeBet); and the payout
\* in it is what the ledger paid, though rows and ledger are written one after the other.
THEOREM BooksAlwaysAgree ==
  ASSUME Certain
  PROVE  BettingSpec => []BooksAgree
<1>1. IInv => SettledOnce
  BY DEF IInv, JournalInv, SettledOnce
<1>2. IInv => RowsAreStaked
  BY DEF IInv, Shapes, BetInv, RowsAreStaked
<1>3. IInv => RowsAreTrue
  BY DEF IInv, Shapes, RowInv, RowsAreTrue
<1>4. IInv => BooksAgree
  BY <1>1, <1>2, <1>3 DEF BooksAgree
<1> QED
  BY <1>4, Invariance, PTL

-----------------------------------------------------------------------------
(* Stakes, pots and shares.                                                *)

LEMMA Stakes ==
  ASSUME IsFiniteSet(Bets), NEW S \in SUBSET Bets
  PROVE  /\ IsFiniteSet(S)
         /\ \A b \in S : Stake[b] \in Nat /\ Stake[b] > 0
         /\ Sum(S) \in Nat
         /\ \A b \in S : Sum(S) > 0
         /\ \A T \in SUBSET S : Sum(T) <= Sum(S)
<1>1. IsFiniteSet(S)
  BY FS_Subset
<1>2. \A b \in S : Stake[b] \in Nat /\ Stake[b] > 0
  BY PoolAssumption DEF PoolAssumption
<1>3. Sum(S) \in Nat
  BY <1>1, <1>2, SumType DEF Sum
<1>4. \A b \in S : Sum(S) > 0
  BY <1>1, <1>2, SumPositive DEF Sum
<1>5. \A T \in SUBSET S : Sum(T) <= Sum(S)
  BY <1>1, <1>2, SumPart DEF Sum
<1> QED
  BY <1>1, <1>2, <1>3, <1>4, <1>5

\* A rake of k leaves of a pool t enough for stakes that count.
RakeLeaves(t, r, k) ==
  /\ t - k \in Nat /\ t - k <= t
  /\ \A s \in Nat : s * (10000 - r) >= 10000 => (t - k) * s >= t

LEMMA RestIsEnough ==
  ASSUME NEW t \in Nat, NEW k \in Nat, NEW r \in Nat, NEW q \in Nat, r + q = 10000, k * 10000 <= t * r
  PROVE  (t - k) * 10000 >= t * q
<1>1. t * 10000 = t * r + t * q
  OBVIOUS
<1>2. (t - k) * 10000 = t * 10000 - k * 10000
  OBVIOUS
<1>3. PICK x \in Nat, y \in Nat, z \in Nat : x = t * r /\ y = t * q /\ z = t * 10000
  BY Products
<1> QED
  BY <1>1, <1>2, <1>3

LEMMA AfterRake ==
  ASSUME NEW t \in Nat, NEW r \in Nat, r <= 10000, NEW k \in Nat, k * 10000 <= t * r
  PROVE  RakeLeaves(t, r, k)
<1>1. PICK m \in Nat : m = t * r
  BY Products
<1>2. k * 10000 <= m
  BY <1>1
<1>3. m <= t * 10000
  <2>1. PICK q \in Nat : q = 10000 - r
    OBVIOUS
  <2>2. t * 10000 = t * r + t * q /\ t * q \in Nat
    BY <2>1
  <2> QED
    BY <1>1, <2>2
<1>4. k <= t
  BY <1>1, <1>2, <1>3
<1>5. PICK p \in Nat : p = t - k
  BY <1>4
<1>6. ASSUME NEW s \in Nat, s * (10000 - r) >= 10000
      PROVE  p * s >= t
  <2>1. PICK q \in Nat : q = 10000 - r
    OBVIOUS
  <2>2. p * 10000 >= t * q
    <3>1. r + q = 10000
      BY <2>1
    <3>2. (t - k) * 10000 >= t * q
      BY <3>1, RestIsEnough
    <3> QED
      BY <1>5, <3>2
  <2>3. PICK e \in Nat : p * 10000 = t * q + e
    <3>1. p * 10000 \in Nat /\ t * q \in Nat
      BY <2>1
    <3>2. p * 10000 - t * q \in Nat /\ p * 10000 = t * q + (p * 10000 - t * q)
      BY <2>2, <3>1
    <3> QED
      BY <3>2
  <2>4. PICK h \in Nat : s * q = 10000 + h
    <3>1. s * q \in Nat /\ s * q >= 10000
      BY <1>6, <2>1
    <3>2. s * q - 10000 \in Nat /\ s * q = 10000 + (s * q - 10000)
      BY <3>1
    <3> QED
      BY <3>2
  <2>5. (p * 10000) * s = (t * q + e) * s
    BY <2>3
  <2>6. (t * q + e) * s = t * (s * q) + e * s
    OBVIOUS
  <2>7. t * (s * q) = t * 10000 + t * h
    BY <2>4
  <2>8. (p * 10000) * s = (p * s) * 10000
    OBVIOUS
  <2>9. (p * s) * 10000 >= t * 10000
    <3>1. e * s \in Nat /\ t * h \in Nat
      OBVIOUS
    <3> QED
      BY <2>5, <2>6, <2>7, <2>8, <3>1
  <2> QED
    BY <2>9
<1> QED
  BY <1>2, <1>4, <1>5, <1>6 DEF RakeLeaves

LEMMA Pots ==
  ASSUME IsFiniteSet(Bets), NEW P \in SUBSET Bets
  PROVE  /\ Sum(P) - Rake(P) \in Nat
         /\ Sum(P) - Rake(P) <= Sum(P)
         /\ \A b \in Bets : Stake[b] * (10000 - RakeBps) >= 10000 =>
              (Sum(P) - Rake(P)) * Stake[b] >= Sum(P)
<1>1. PICK t \in Nat : t = Sum(P)
  BY Stakes
<1>2. PICK r \in Nat : r = RakeBps /\ r <= 10000
  BY PoolAssumption DEF PoolAssumption
<1>3. PICK m \in Nat : m = t * r
  BY Products
<1>4. PICK k \in Nat : k = m \div 10000 /\ k * 10000 <= m
  BY Floor
<1>5. RakeLeaves(t, r, k)
  BY <1>2, <1>3, <1>4, AfterRake
<1>7. Rake(P) = k
  BY <1>1, <1>2, <1>3, <1>4 DEF Rake
<1>6. ASSUME NEW b \in Bets, Stake[b] * (10000 - RakeBps) >= 10000
      PROVE  (t - k) * Stake[b] >= t
  <2>1. PICK s \in Nat : s = Stake[b]
    BY PoolAssumption DEF PoolAssumption
  <2>2. s * (10000 - r) >= 10000
    BY <1>2, <1>6, <2>1
  <2>3. (t - k) * s >= t
    BY <1>5, <2>2 DEF RakeLeaves
  <2> QED
    BY <2>1, <2>3
<1> QED
  BY <1>1, <1>5, <1>6, <1>7 DEF RakeLeaves

LEMMA Shares ==
  ASSUME IsFiniteSet(Bets), NEW P \in SUBSET Bets, NEW B \in SUBSET P, NEW b \in B
  PROVE  /\ ((Sum(P) - Rake(P)) * Stake[b]) \div Sum(B) \in Nat
         /\ Stake[b] * (10000 - RakeBps) >= 10000 =>
              ((Sum(P) - Rake(P)) * Stake[b]) \div Sum(B) > 0
<1>1. PICK d \in Nat : d = Sum(B) /\ d > 0 /\ d <= Sum(P)
  BY Stakes
<1>2. PICK n \in Nat : n = Sum(P) - Rake(P)
  BY Pots
<1>3. PICK s \in Nat : s = Stake[b]
  BY PoolAssumption DEF PoolAssumption
<1>4. PICK m \in Nat : m = n * s
  BY Products
<1>5. m \div d \in Nat /\ m < (m \div d) * d + d
  BY <1>1, Floor
<1>6. ASSUME Stake[b] * (10000 - RakeBps) >= 10000 PROVE m \div d > 0
  <2>1. m >= d
    <3>1. m >= Sum(P)
      BY <1>2, <1>3, <1>4, <1>6, Pots
    <3>2. Sum(P) \in Nat
      BY Stakes
    <3> QED
      BY <1>1, <3>1, <3>2
  <2>2. m \div d # 0
    <3> SUFFICES ASSUME m \div d = 0 PROVE FALSE
      OBVIOUS
    <3>1. m < 0 * d + d
      BY <1>5
    <3> QED
      BY <2>1, <3>1
  <2> QED
    BY <1>5, <2>2
<1> QED
  BY <1>1, <1>2, <1>3, <1>4, <1>5, <1>6

-----------------------------------------------------------------------------
(* What the steps leave alone.                                             *)

\* Of the variables of other workers.
OthersRest(w) == \A v \in Workers \ {w} :
  /\ step'[v] = step[v] /\ todo'[v] = todo[v] /\ seen'[v] = seen[v]
  /\ order'[v] = order[v] /\ cur'[v] = cur[v]

\* What the settlement reads of the rest.
BetsRest == UNCHANGED <<report, clock, bpc, created, staked, returned>>

\* A worker's step.
Works(w) ==
  \/ w \in Reports /\ CollectByReport(w)
  \/ Settle(w)
  \/ WorkerCrash(w)
  \/ w \in Sweeps /\ Sweep(w)

LEMMA WorkRests ==
  ASSUME NEW w \in Workers, Works(w)
  PROVE  BetsRest
<1> USE DEF BetsRest, ingestVars, room, race, handlers, tables, journal, GiveUp
<1>1. CASE CollectByReport(w)
  BY <1>1 DEF CollectByReport
<1>2. CASE Settle(w)
  BY <1>2 DEF Settle, EndOfLoop, FinishReport, Finish, MarkVoided, PostRefund, PostPayout, Reopen,
     WriteRows, Claim
<1>3. CASE WorkerCrash(w)
  BY <1>3 DEF WorkerCrash
<1>4. CASE Sweep(w)
  BY <1>4 DEF Sweep, CollectEnded, CollectStale, ClaimStaleFails, EndOfSweep, ClaimStale
<1> QED
  BY <1>1, <1>2, <1>3, <1>4 DEF Works

LEMMA ReportRests ==
  ASSUME [BettingNext]_vars
  PROVE  report' = report /\ Reported' = Reported
<1>1. report' = report
  <2> USE DEF ingestVars, room
  <2>1. CASE IngestStep
    BY <2>1 DEF IngestStep, SendReport, ReadAck, Fail, HandlerStep, ReadRace, EndRace, CreateRace,
       UpsertParticipant, PostReward, AwardRep
  <2>2. CASE \E b \in Bets : BetStep(b) \/ BetCrash(b)
    BY <2>2 DEF BetStep, BetCrash, ReadPool, PostStake, CreateBet, ReturnStake
  <2>3. CASE \E w \in Workers : Works(w)
    BY <2>3, WorkRests DEF BetsRest
  <2>4. CASE LockPools \/ Tick \/ UNCHANGED vars
    BY <2>4 DEF LockPools, Tick, vars
  <2> QED
    BY <2>1, <2>2, <2>3, <2>4, WorkerSets DEF BettingNext, Works
<1> QED
  BY <1>1 DEF Reported

\* What a worker claims a pool with is what it has read; and it claims none that
\* somebody has.
BasisMoves(w) == \A p \in Pools :
  \/ basis'[p] = basis[p]
  \/ status[p] \in Bettable /\ basis'[p] = ReadOf(w, p)

LEMMA WorkClaims ==
  ASSUME BettingTypeOK, NEW w \in Workers, Works(w)
  PROVE  BasisMoves(w)
<1> USE DEF tables, GiveUp, BettingTypeOK
<1>1. CASE UNCHANGED basis
  BY <1>1 DEF BasisMoves
<1>2. ASSUME NEW p \in Pools, status[p] \in Bettable, basis' = [basis EXCEPT ![p] = ReadOf(w, p)]
      PROVE  BasisMoves(w)
  BY <1>2 DEF BasisMoves
<1>3. CASE CollectByReport(w)
  BY <1>1, <1>3 DEF CollectByReport
<1>4. CASE Settle(w)
  <2>1. CASE \E p \in Pools : Claim(w, p)
    BY <1>1, <1>2, <2>1 DEF Claim
  <2> QED
    BY <1>1, <1>4, <2>1 DEF Settle, EndOfLoop, FinishReport, MarkVoided, PostRefund, PostPayout, Reopen,
       WriteRows
<1>5. CASE WorkerCrash(w)
  BY <1>1, <1>5 DEF WorkerCrash
<1>6. CASE Sweep(w)
  <2>1. CASE \E p \in Pools : ClaimStale(w, p)
    BY <1>1, <1>2, <2>1 DEF ClaimStale
  <2>2. CASE ClaimStaleFails(w)
    BY <1>1, <1>2, <2>2 DEF ClaimStaleFails
  <2> QED
    BY <1>1, <1>6, <2>1, <2>2 DEF Sweep, CollectEnded, CollectStale, EndOfSweep
<1> QED
  BY <1>3, <1>4, <1>5, <1>6 DEF Works

\* Nobody claims a pool that a worker owns, or that is paid.
LEMMA OwnedRests ==
  ASSUME IInv, NEW w \in Workers, BasisMoves(w)
  PROVE  /\ \A v \in Workers : step[v] \in Owning => basis'[cur[v]] = basis[cur[v]]
         /\ \A p \in Pools : p \in settled => basis'[p] = basis[p]
<1>1. \A v \in Workers : step[v] \in Owning => cur[v] \in Pools /\ status[cur[v]] \notin Bettable
  BY Owned DEF IInv, OwnerInv, Owning, Bettable
<1>2. \A p \in Pools : p \in settled => status[p] \notin Bettable
  BY DEF IInv, JournalInv, Bettable
<1> QED
  BY <1>1, <1>2 DEF BasisMoves

LEMMA ReadAllRests ==
  ASSUME ReadAll, IInv, BetsRest, NEW w \in Workers, BasisMoves(w), OthersRest(w), HasRead(w)'
  PROVE  ReadAll'
<1> SUFFICES ASSUME NEW v \in Workers, v # w
             PROVE  HasRead(v)'
  BY DEF ReadAll
<1>1. HasRead(v)
  BY DEF ReadAll
<1>2. /\ step'[v] = step[v] /\ todo'[v] = todo[v] /\ seen'[v] = seen[v]
      /\ order'[v] = order[v] /\ cur'[v] = cur[v]
  BY DEF OthersRest
<1>3. report' = report /\ created' = created
  BY DEF BetsRest
<1>4. /\ Backers(v, cur[v])' = Backers(v, cur[v])
      /\ ReadOf(v, cur[v])' = ReadOf(v, cur[v])
  BY <1>2 DEF Backers, SeenIn, ReadOf
<1>5. step[v] \in Owning => basis'[cur[v]] = basis[cur[v]]
  BY OwnedRests
<1> QED
  BY <1>1, <1>2, <1>3, <1>4, <1>5 DEF HasRead

LEMMA BasisHolds ==
  ASSUME ReadAll, BasisInv, BetsRest, NEW w \in Workers, BasisMoves(w)
  PROVE  BasisInv'
<1>1. report' = report /\ created' = created
  BY DEF BetsRest
<1> SUFFICES ASSUME NEW p \in Pools
             PROVE  basis'[p].bets \subseteq Placed(p)' /\ TopPlaces(report'.entries, basis'[p].order)
  BY DEF BasisInv
<1>2. Placed(p)' = Placed(p)
  BY <1>1 DEF Placed
<1>3. SeenIn(w, p) \subseteq Placed(p) /\ TopPlaces(report.entries, order[w])
  BY DEF ReadAll, HasRead, SeenIn, Placed
<1>4. CASE basis'[p] = basis[p]
  BY <1>1, <1>2, <1>4 DEF BasisInv
<1>5. CASE basis'[p] = ReadOf(w, p)
  BY <1>1, <1>2, <1>3, <1>5 DEF ReadOf
<1> QED
  BY <1>4, <1>5 DEF BasisMoves

\* What a settled pool pays does not change any more.
LEMMA PaidSharesRest ==
  ASSUME BettingTypeOK, PaidShares, UNCHANGED <<settled, won>>,
         \A p \in Pools : p \in settled => basis'[p] = basis[p]
  PROVE  PaidShares'
<1>1. settled \subseteq Pools /\ Pool \in [Bets -> Pools]
  BY PoolAssumption DEF PoolAssumption, BettingTypeOK
<1>2. \A p \in settled : Winning(p)' = Winning(p) /\ Pot(p)' = Pot(p)
  BY <1>1 DEF Winning, Pot
<1>3. \A b \in Bets : Pool[b] \in settled => FinalShare(b)' = FinalShare(b)
  BY <1>2 DEF FinalShare
<1> QED
  BY <1>1, <1>2, <1>3 DEF PaidShares

\* What a worker's step keeps.
WorkHolds(w) == BettingTypeOK' /\ OthersRest(w) /\ HasRead(w)'

LEMMA ReportedTop ==
  ASSUME report \in Races
  PROVE  TopPlaces(report.entries, Reported)
<1>1. \A r \in Racers : Position[r] \in 1..8
  BY ReportAssumption DEF ReportAssumption
<1>2. report.entries \subseteq Racers
  BY ReportAssumption DEF ReportAssumption
<1> QED
  BY <1>1, <1>2, ReportedType DEF TopPlaces, Reported

\* A worker that collects.
LEMMA CollectHolds ==
  ASSUME FairInv, NEW w \in Workers,
         \/ w \in Reports /\ CollectByReport(w)
         \/ w \in Sweeps /\ (CollectEnded(w) \/ CollectStale(w))
  PROVE  WorkHolds(w)
<1> USE DEF FairInv, StepTo, tables, journal
<1>1. BettingTypeOK'
  <2>1. CASE CollectByReport(w)
    BY <2>1, ReportedType DEF CollectByReport, BettingTypeOK
  <2>2. CASE CollectEnded(w)
    <3>1. position \in [Racers -> 0..8]
      BY DEF IInv, Shapes
    <3> QED
      BY <2>2, <3>1 DEF CollectEnded, BettingTypeOK
  <2>3. CASE CollectStale(w)
    BY <2>3 DEF CollectStale, BettingTypeOK
  <2> QED
    BY <2>1, <2>2, <2>3
<1>2. OthersRest(w)
  BY DEF CollectByReport, CollectEnded, CollectStale, BettingTypeOK, OthersRest
<1>3. /\ step'[w] \in {"settling", "voiding"} /\ seen'[w] = created
      /\ order'[w] \in {Reported, position, order[w]}
  BY DEF CollectByReport, CollectEnded, CollectStale, BettingTypeOK
<1>4. report' = report /\ created' = created
  BY DEF CollectByReport, CollectEnded, CollectStale, ingestVars, room
<1>5. TopPlaces(report.entries, order'[w])
  BY <1>3, ReportedTop DEF ReadAll, HasRead, StoredInv
<1>6. HasRead(w)'
  BY <1>3, <1>4, <1>5 DEF HasRead, Owning, Paying, Refunding
<1> QED
  BY <1>1, <1>2, <1>6 DEF WorkHolds

\* A worker that owns no pool afterwards holds what it held, when it has read no more.
LEMMA MovesOn ==
  ASSUME FairInv, NEW w \in Workers, BetsRest, seen'[w] = seen[w], order'[w] = order[w],
         step'[w] \in Moving
  PROVE  HasRead(w)'
<1>1. HasRead(w)
  BY DEF FairInv, ReadAll
<1>2. report' = report /\ created' = created
  BY DEF BetsRest
<1>3. step'[w] \notin Owning
  BY DEF Moving, Owning, Paying, Refunding
<1> QED
  BY <1>1, <1>2, <1>3 DEF HasRead, Owning, Paying

\* A worker that goes on with the pool it owns.
LEMMA GoesOn ==
  ASSUME FairInv, NEW w \in Workers, BetsRest, step[w] \in Owning, step'[w] \in Owning,
         seen'[w] = seen[w], order'[w] = order[w], cur'[w] = cur[w], UNCHANGED basis,
         step'[w] \in {"payout", "payout-rows", "reopen"} => step[w] \in {"payout", "payout-rows", "reopen"}
  PROVE  HasRead(w)'
<1>1. HasRead(w)
  BY DEF FairInv, ReadAll
<1>2. report' = report /\ created' = created
  BY DEF BetsRest
<1>3. /\ Backers(w, cur[w])' = Backers(w, cur[w])
      /\ ReadOf(w, cur[w])' = ReadOf(w, cur[w])
  BY DEF Backers, SeenIn, ReadOf
<1> QED
  BY <1>1, <1>2, <1>3 DEF HasRead

LEMMA EndHolds ==
  ASSUME FairInv, NEW w \in Workers, EndOfLoop(w) \/ FinishReport(w) \/ EndOfSweep(w), BetsRest
  PROVE  WorkHolds(w)
<1> USE DEF FairInv, StepTo, tables, journal
<1>1. BettingTypeOK'
  BY DEF EndOfLoop, FinishReport, EndOfSweep, BettingTypeOK
<1>2. OthersRest(w)
  BY DEF EndOfLoop, FinishReport, EndOfSweep, BettingTypeOK, OthersRest
<1>3. seen'[w] = seen[w] /\ order'[w] = order[w] /\ step'[w] \in {"stale", "finish", "ended", "idle"}
  BY DEF EndOfLoop, FinishReport, EndOfSweep, BettingTypeOK
<1>4. HasRead(w)'
  BY <1>3, MovesOn DEF Moving
<1> QED
  BY <1>1, <1>2, <1>4 DEF WorkHolds

LEMMA CrashHolds ==
  ASSUME FairInv, NEW w \in Workers, WorkerCrash(w), BetsRest
  PROVE  WorkHolds(w)
<1> USE DEF FairInv, StepTo, tables, journal
<1>1. BettingTypeOK'
  BY DEF WorkerCrash, BettingTypeOK
<1>2. OthersRest(w)
  BY DEF WorkerCrash, BettingTypeOK, OthersRest
<1>3. seen'[w] = seen[w] /\ order'[w] = order[w] /\ step'[w] \in {"ended", "idle"}
  BY DEF WorkerCrash, BettingTypeOK
<1>4. HasRead(w)'
  BY <1>3, MovesOn DEF Moving
<1> QED
  BY <1>1, <1>2, <1>4 DEF WorkHolds

\* A worker gives its pool up.
LEMMA GiveUpHolds ==
  ASSUME FairInv, NEW w \in Workers, step[w] \in Owning, GiveUp(w), BetsRest,
         UNCHANGED <<seen, order>>
  PROVE  /\ OthersRest(w) /\ HasRead(w)'
         /\ step' \in [Workers -> {"idle", "settling", "finish", "ended", "mark", "refund",
              "refund-rows", "payout", "payout-rows", "reopen", "stale", "voiding",
              "void-refund", "void-rows"}]
         /\ todo' \in [Workers -> SUBSET Pools]
         /\ cur' \in [Workers -> Pools \cup {NoPool}]
<1> USE DEF FairInv, StepTo
<1>1. OthersRest(w)
  BY DEF GiveUp, BettingTypeOK, OthersRest
<1>2. step'[w] \in {"idle", "settling"}
  BY DEF GiveUp, BettingTypeOK
<1>5. HasRead(w)'
  BY <1>2, MovesOn DEF Moving
<1>6. /\ step' \in [Workers -> {"idle", "settling", "finish", "ended", "mark", "refund",
           "refund-rows", "payout", "payout-rows", "reopen", "stale", "voiding",
           "void-refund", "void-rows"}]
      /\ todo' \in [Workers -> SUBSET Pools]
      /\ cur' \in [Workers -> Pools \cup {NoPool}]
  BY DEF GiveUp, BettingTypeOK
<1> QED
  BY <1>1, <1>5, <1>6

LEMMA ReopenHolds ==
  ASSUME FairInv, NEW w \in Workers, Reopen(w), BetsRest
  PROVE  WorkHolds(w)
<1>1. step[w] \in Owning /\ GiveUp(w) /\ UNCHANGED <<seen, order>>
  BY DEF Reopen, Owning, Paying
<1>2. BettingTypeOK'
  BY <1>1, GiveUpHolds DEF FairInv, Reopen, BettingTypeOK, journal
<1> QED
  BY <1>1, <1>2, GiveUpHolds DEF WorkHolds

LEMMA MarkHolds ==
  ASSUME FairInv, NEW w \in Workers, MarkVoided(w), BetsRest
  PROVE  WorkHolds(w)
<1>1. step[w] \in Owning /\ step[w] = "mark" /\ UNCHANGED <<seen, order>>
  BY DEF MarkVoided, Owning, Paying
<1>2. CASE GiveUp(w)
  <2>1. BettingTypeOK'
    BY <1>1, <1>2, GiveUpHolds DEF FairInv, MarkVoided, BettingTypeOK, journal
  <2> QED
    BY <1>1, <1>2, <2>1, GiveUpHolds DEF WorkHolds
<1>3. CASE step' = [step EXCEPT ![w] = "refund"] /\ UNCHANGED <<cur, todo>>
  <2> USE DEF FairInv
  <2>1. BettingTypeOK'
    BY <1>3 DEF MarkVoided, BettingTypeOK, journal
  <2>2. OthersRest(w) /\ step'[w] = "refund"
    BY <1>1, <1>3 DEF BettingTypeOK, OthersRest
  <2>5. HasRead(w)'
    BY <1>1, <1>3, <2>2, GoesOn DEF MarkVoided, Owning, Refunding
  <2> QED
    BY <2>1, <2>2, <2>5 DEF WorkHolds
<1> QED
  BY <1>2, <1>3 DEF MarkVoided, StepTo

LEMMA RefundHolds ==
  ASSUME FairInv, NEW w \in Workers, PostRefund(w), BetsRest
  PROVE  WorkHolds(w)
<1>1. step[w] \in Owning /\ step[w] \in {"refund", "void-refund"} /\ UNCHANGED <<seen, order>>
  BY DEF PostRefund, Owning, Refunding
<1>2. UNCHANGED <<clock, tables, bpc, staked, returned, settled, won, seen, order>>
  BY DEF PostRefund
<1>3. /\ voided' \in SUBSET Pools
      /\ refunded' \in [Bets -> Nat]
  <2>1. cur[w] \in Pools
    BY <1>1, Owned DEF FairInv
  <2>2. \A b \in Bets : Refund(w, b) \in Nat
    BY PoolAssumption DEF PoolAssumption, Refund
  <2>3. voided' \in {voided, voided \cup {cur[w]}}
    BY DEF PostRefund
  <2>4. \/ refunded' = refunded
        \/ refunded' = [b \in Bets |-> IF Pool[b] = cur[w] THEN Refund(w, b) ELSE refunded[b]]
    BY DEF PostRefund
  <2>5. voided \in SUBSET Pools /\ refunded \in [Bets -> Nat]
    BY DEF FairInv, BettingTypeOK
  <2> QED
    BY <2>1, <2>2, <2>3, <2>4, <2>5
<1>4. CASE GiveUp(w)
  <2>1. BettingTypeOK'
    BY <1>1, <1>2, <1>3, <1>4, GiveUpHolds DEF FairInv, BettingTypeOK, tables
  <2> QED
    BY <1>1, <1>4, <2>1, GiveUpHolds DEF WorkHolds
<1>5. CASE /\ step' = [step EXCEPT ![w] = IF step[w] = "refund" THEN "refund-rows" ELSE "void-rows"]
           /\ UNCHANGED <<cur, todo>>
  <2> USE DEF FairInv
  <2>1. BettingTypeOK'
    BY <1>2, <1>3, <1>5 DEF BettingTypeOK, tables
  <2>2. OthersRest(w) /\ step'[w] = IF step[w] = "refund" THEN "refund-rows" ELSE "void-rows"
    BY <1>1, <1>5 DEF BettingTypeOK, OthersRest
  <2>6. HasRead(w)'
    BY <1>1, <1>2, <1>5, <2>2, GoesOn DEF Owning, Refunding, tables
  <2> QED
    BY <2>1, <2>2, <2>6 DEF WorkHolds
<1> QED
  BY <1>4, <1>5 DEF PostRefund, StepTo

LEMMA ShareType ==
  ASSUME IsFiniteSet(Bets), BettingTypeOK, NEW w \in Workers, NEW b
  PROVE  Share(w, b) \in Nat
<1>1. SeenIn(w, cur[w]) \in SUBSET Bets /\ Backers(w, cur[w]) \in SUBSET SeenIn(w, cur[w])
  BY DEF BettingTypeOK, SeenIn, Backers
<1> QED
  BY <1>1, Shares DEF Share

LEMMA RowsHold ==
  ASSUME FairInv, IsFiniteSet(Bets), NEW w \in Workers, WriteRows(w), BetsRest
  PROVE  WorkHolds(w)
<1>1. step[w] \in Owning /\ step[w] \in Writing /\ UNCHANGED <<seen, order>>
  BY DEF WriteRows, Owning, Paying, Refunding, Writing
<1>2. UNCHANGED <<clock, status, created, basis, bpc, journal, seen, order>>
  BY DEF WriteRows
<1>3. payout' \in [Bets -> Nat \cup {-1}]
  <2>1. PICK S \in SUBSET SeenIn(w, cur[w]) :
          payout' = [b \in Bets |->
            IF b \in S THEN IF step[w] = "payout-rows" THEN Share(w, b) ELSE Stake[b]
            ELSE payout[b]]
    BY DEF WriteRows
  <2>2. \A b \in Bets : Share(w, b) \in Nat /\ Stake[b] \in Nat /\ payout[b] \in Nat \cup {-1}
    BY ShareType, PoolAssumption DEF PoolAssumption, FairInv, BettingTypeOK
  <2> QED
    BY <2>1, <2>2
<1>4. CASE GiveUp(w)
  <2>1. BettingTypeOK'
    BY <1>1, <1>2, <1>3, <1>4, GiveUpHolds DEF FairInv, BettingTypeOK, journal
  <2> QED
    BY <1>1, <1>4, <2>1, GiveUpHolds DEF WorkHolds
<1>5. CASE /\ step[w] = "void-rows" /\ step' = [step EXCEPT ![w] = "voiding"]
           /\ cur' = [cur EXCEPT ![w] = NoPool] /\ UNCHANGED todo
  <2> USE DEF FairInv
  <2>1. BettingTypeOK'
    BY <1>2, <1>3, <1>5 DEF BettingTypeOK, journal
  <2>2. OthersRest(w) /\ step'[w] = "voiding"
    BY <1>1, <1>5 DEF BettingTypeOK, OthersRest
  <2>3. HasRead(w)'
    BY <1>1, <2>2, MovesOn DEF Moving
  <2> QED
    BY <2>1, <2>2, <2>3 DEF WorkHolds
<1> QED
  BY <1>4, <1>5 DEF WriteRows, StepTo

LEMMA ReadType ==
  ASSUME BettingTypeOK, NEW w \in Workers, NEW p \in Pools
  PROVE  ReadOf(w, p) \in [bets : SUBSET Bets, order : [Racers -> 0..8]]
<1>1. SeenIn(w, p) \in SUBSET Bets /\ order[w] \in [Racers -> 0..8]
  BY DEF BettingTypeOK, SeenIn
<1> QED
  BY <1>1 DEF ReadOf

LEMMA ClaimHolds ==
  ASSUME FairInv, NEW w \in Workers, NEW p \in Pools, Claim(w, p), BetsRest
  PROVE  WorkHolds(w)
<1> USE DEF FairInv
<1>1. /\ step[w] = "settling" /\ todo[w] # {} /\ todo' = [todo EXCEPT ![w] = @ \ {p}]
      /\ UNCHANGED <<seen, order>>
  BY DEF Claim
<1>2. UNCHANGED <<clock, created, payout, bpc, journal, seen, order>>
  BY DEF Claim
<1>3. /\ status' = status \/ status' = [status EXCEPT ![p] = "SETTLED"]
      /\ basis' \in [Pools -> [bets : SUBSET Bets, order : [Racers -> 0..8]]]
  BY ReadType DEF Claim, BettingTypeOK
<1>4. HasRead(w)
  BY DEF ReadAll
<1>5. report' = report /\ created' = created
  BY DEF BetsRest
<1>6. CASE UNCHANGED <<step, cur>>
  <2>1. BettingTypeOK'
    BY <1>1, <1>2, <1>3, <1>6 DEF BettingTypeOK, journal
  <2>2. OthersRest(w)
    BY <1>1, <1>6 DEF BettingTypeOK, OthersRest
  <2>3. HasRead(w)'
    BY <1>1, <1>6, MovesOn DEF Moving
  <2> QED
    BY <2>1, <2>2, <2>3 DEF WorkHolds
<1>7. CASE /\ cur' = [cur EXCEPT ![w] = p]
           /\ step' = [step EXCEPT ![w] = IF Backers(w, p) = {} THEN "mark" ELSE "payout"]
           /\ basis' = [basis EXCEPT ![p] = ReadOf(w, p)]
  <2>1. BettingTypeOK'
    BY <1>1, <1>2, <1>3, <1>7 DEF BettingTypeOK, journal
  <2>2. /\ OthersRest(w) /\ cur'[w] = p /\ basis'[p] = ReadOf(w, p)
        /\ step'[w] = IF Backers(w, p) = {} THEN "mark" ELSE "payout"
    BY <1>1, <1>7 DEF BettingTypeOK, OthersRest
  <2>3. Backers(w, p)' = Backers(w, p) /\ ReadOf(w, p)' = ReadOf(w, p)
    BY <1>1 DEF Backers, SeenIn, ReadOf
  <2>4. Backers(w, cur[w])' = Backers(w, p) /\ ReadOf(w, cur[w])' = ReadOf(w, p)
    BY <2>2, <2>3 DEF Backers, SeenIn, ReadOf
  <2>5. HasRead(w)'
    BY <1>1, <1>4, <1>5, <2>2, <2>4 DEF HasRead
  <2> QED
    BY <2>1, <2>2, <2>5 DEF WorkHolds
<1> QED
  BY <1>6, <1>7 DEF Claim, StepTo

LEMMA ClaimStaleHolds ==
  ASSUME FairInv, NEW w \in Sweeps, NEW p \in Pools, ClaimStale(w, p), BetsRest
  PROVE  WorkHolds(w)
<1> USE DEF FairInv
<1>1. /\ w \in Workers /\ step[w] = "voiding" /\ todo' = [todo EXCEPT ![w] = @ \ {p}]
      /\ UNCHANGED <<seen, order>>
  BY WorkerSets DEF ClaimStale
<1>2. UNCHANGED <<clock, created, payout, bpc, journal, seen, order>>
  BY DEF ClaimStale
<1>3. /\ status' = status \/ status' = [status EXCEPT ![p] = "VOIDED"]
      /\ basis' \in [Pools -> [bets : SUBSET Bets, order : [Racers -> 0..8]]]
  <2>1. basis \in [Pools -> [bets : SUBSET Bets, order : [Racers -> 0..8]]]
    BY DEF BettingTypeOK
  <2>2. /\ status' = status \/ status' = [status EXCEPT ![p] = "VOIDED"]
        /\ basis' = basis \/ basis' = [basis EXCEPT ![p] = ReadOf(w, p)]
    BY DEF ClaimStale
  <2> QED
    BY <1>1, <2>1, <2>2, ReadType
<1>4. HasRead(w)
  BY <1>1 DEF ReadAll
<1>5. report' = report /\ created' = created
  BY DEF BetsRest
<1>6. CASE UNCHANGED <<step, cur>>
  <2>1. BettingTypeOK'
    BY <1>1, <1>2, <1>3, <1>6 DEF BettingTypeOK, journal
  <2>2. OthersRest(w)
    BY <1>1, <1>6 DEF BettingTypeOK, OthersRest
  <2>3. HasRead(w)'
    BY <1>1, <1>6, MovesOn DEF Moving
  <2> QED
    BY <2>1, <2>2, <2>3 DEF WorkHolds
<1>7. CASE /\ cur' = [cur EXCEPT ![w] = p] /\ step' = [step EXCEPT ![w] = "void-refund"]
           /\ basis' = [basis EXCEPT ![p] = ReadOf(w, p)]
  <2>1. BettingTypeOK'
    BY <1>1, <1>2, <1>3, <1>7 DEF BettingTypeOK, journal
  <2>2. OthersRest(w) /\ cur'[w] = p /\ basis'[p] = ReadOf(w, p) /\ step'[w] = "void-refund"
    BY <1>1, <1>7 DEF BettingTypeOK, OthersRest
  <2>3. ReadOf(w, cur[w])' = ReadOf(w, p)
    BY <1>1, <2>2 DEF SeenIn, ReadOf
  <2>4. HasRead(w)'
    BY <1>1, <1>4, <1>5, <2>2, <2>3 DEF HasRead
  <2> QED
    BY <2>1, <2>2, <2>4 DEF WorkHolds
<1> QED
  BY <1>6, <1>7 DEF ClaimStale, StepTo

LEMMA ClaimFailHolds ==
  ASSUME FairInv, NEW w \in Sweeps, ClaimStaleFails(w), BetsRest
  PROVE  WorkHolds(w)
<1> USE DEF FairInv, StepTo
<1>1. w \in Workers /\ UNCHANGED <<clock, created, payout, bpc, journal, seen, order, cur>>
  BY WorkerSets DEF ClaimStaleFails
<1>2. /\ todo' = [todo EXCEPT ![w] = {}] /\ step' = [step EXCEPT ![w] = "idle"]
      /\ status' = status \/ \E p \in Pools : status' = [status EXCEPT ![p] = "VOIDED"]
      /\ basis' \in [Pools -> [bets : SUBSET Bets, order : [Racers -> 0..8]]]
  <2>1. /\ basis \in [Pools -> [bets : SUBSET Bets, order : [Racers -> 0..8]]]
        /\ todo \in [Workers -> SUBSET Pools]
    BY DEF BettingTypeOK
  <2>2. PICK p \in todo[w] :
          \/ UNCHANGED <<status, basis>>
          \/ /\ status' = [status EXCEPT ![p] = "VOIDED"]
             /\ basis' = [basis EXCEPT ![p] = ReadOf(w, p)]
    BY DEF ClaimStaleFails
  <2>3. p \in Pools /\ ReadOf(w, p) \in [bets : SUBSET Bets, order : [Racers -> 0..8]]
    BY <1>1, <2>1, <2>2, ReadType
  <2>4. todo' = [todo EXCEPT ![w] = {}] /\ step' = [step EXCEPT ![w] = "idle"]
    BY DEF ClaimStaleFails
  <2> QED
    BY <2>1, <2>2, <2>3, <2>4
<1>3. BettingTypeOK'
  BY <1>1, <1>2 DEF BettingTypeOK, journal
<1>4. OthersRest(w) /\ step'[w] = "idle"
  BY <1>1, <1>2 DEF BettingTypeOK, OthersRest
<1>5. HasRead(w)'
  BY <1>1, <1>4, MovesOn DEF Moving
<1> QED
  BY <1>3, <1>4, <1>5 DEF WorkHolds

LEMMA PayoutHolds ==
  ASSUME FairInv, IsFiniteSet(Bets), NEW w \in Workers, PostPayout(w), BetsRest
  PROVE  WorkHolds(w)
<1> USE DEF FairInv
<1>1. step[w] \in Owning /\ step[w] = "payout" /\ UNCHANGED <<seen, order, cur, todo>>
  BY DEF PostPayout, Owning, Paying
<1>2. UNCHANGED <<clock, tables, bpc, staked, returned, voided, refunded>>
  BY DEF PostPayout
<1>3. settled' \in SUBSET Pools /\ won' \in [Bets -> Nat]
  <2>1. cur[w] \in Pools
    BY <1>1, Owned
  <2>2. \A b \in Bets : Share(w, b) \in Nat
    BY ShareType
  <2>3. settled' \in {settled, settled \cup {cur[w]}}
    BY DEF PostPayout
  <2>4. won' = won \/ won' = [b \in Bets |-> IF Pool[b] = cur[w] THEN Share(w, b) ELSE won[b]]
    BY DEF PostPayout
  <2> QED
    BY <2>1, <2>2, <2>3, <2>4 DEF BettingTypeOK
<1>4. PICK l \in {"payout-rows", "reopen"} : step' = [step EXCEPT ![w] = l]
  BY DEF PostPayout, StepTo
<1>5. BettingTypeOK'
  BY <1>1, <1>2, <1>3, <1>4 DEF BettingTypeOK, tables
<1>6. OthersRest(w) /\ step'[w] = l
  BY <1>1, <1>4 DEF BettingTypeOK, OthersRest
<1>7. HasRead(w)'
  BY <1>1, <1>2, <1>6, GoesOn DEF Owning, Paying, tables
<1> QED
  BY <1>5, <1>6, <1>7 DEF WorkHolds

LEMMA WorksKeep ==
  ASSUME FairInv, IsFiniteSet(Bets), NEW w \in Workers, Works(w)
  PROVE  BettingTypeOK' /\ ReadAll' /\ BasisInv' /\ BasisMoves(w)
<1>1. BetsRest
  BY WorkRests
<1>2. WorkHolds(w)
  <2>1. CASE w \in Reports /\ CollectByReport(w)
    BY <2>1, CollectHolds
  <2>2. CASE WorkerCrash(w)
    BY <1>1, <2>2, CrashHolds
  <2>3. CASE Settle(w)
    BY <1>1, <2>3, EndHolds, MarkHolds, RefundHolds, PayoutHolds, ReopenHolds, RowsHold, ClaimHolds
    DEF Settle
  <2>4. CASE w \in Sweeps /\ Sweep(w)
    BY <1>1, <2>4, CollectHolds, ClaimFailHolds, EndHolds, ClaimStaleHolds DEF Sweep
  <2> QED
    BY <2>1, <2>2, <2>3, <2>4 DEF Works
<1>3. BasisMoves(w)
  BY WorkClaims DEF FairInv
<1> QED
  BY <1>1, <1>2, <1>3, ReadAllRests, BasisHolds DEF WorkHolds, FairInv

\* The steps that are nobody's work.
LEMMA ReadAllStays ==
  ASSUME FairInv, report' = report, UNCHANGED <<workers, basis>>, created \subseteq created'
  PROVE  ReadAll' /\ BasisInv'
<1>1. ASSUME NEW v \in Workers
      PROVE  HasRead(v)'
  <2>1. HasRead(v)
    BY DEF FairInv, ReadAll
  <2>2. /\ step'[v] = step[v] /\ todo'[v] = todo[v] /\ seen'[v] = seen[v]
        /\ order'[v] = order[v] /\ cur'[v] = cur[v]
    BY DEF workers
  <2>3. /\ Backers(v, cur[v])' = Backers(v, cur[v])
        /\ ReadOf(v, cur[v])' = ReadOf(v, cur[v])
    BY <2>2 DEF Backers, SeenIn, ReadOf
  <2> QED
    BY <2>1, <2>2, <2>3 DEF HasRead
<1>2. ASSUME NEW p \in Pools
      PROVE  basis'[p].bets \subseteq Placed(p)' /\ TopPlaces(report'.entries, basis'[p].order)
  BY DEF FairInv, BasisInv, Placed
<1> QED
  BY <1>1, <1>2 DEF ReadAll, BasisInv

\* Handlers store the positions in order.
LEMMA StoredByIngest ==
  ASSUME StoredInv, report \in Races, report' = report, IngestStep
  PROVE  StoredInv'
<1> USE DEF race, handlers, room, Goto
<1>1. /\ \A r \in Racers : Position[r] \in 1..8
      /\ report.entries \subseteq Racers
  BY ReportAssumption DEF ReportAssumption
<1>2. CASE /\ UNCHANGED position
           /\ DOMAIN pc' = Reports /\ DOMAIN left' = Reports
           /\ \A i \in Reports : pc'[i] = "upsert" =>
                \/ pc[i] = "upsert" /\ left'[i] = left[i]
                \/ left'[i] = report.entries
  BY <1>2 DEF StoredInv
<1>3. CASE SendReport \/ ReadAck
  BY <1>2, <1>3 DEF SendReport, ReadAck, StoredInv
<1>4. ASSUME NEW i \in Reports, ReadRace(i) \/ EndRace(i) \/ Fail(i)
      PROVE  StoredInv'
  BY <1>2, <1>4 DEF ReadRace, EndRace, Fail, StoredInv
<1>5. ASSUME NEW i \in Reports, CreateRace(i)
      PROVE  StoredInv'
  <2>1. CASE row = "none"
    <3>1. position' = Reported
      BY <1>5, <2>1 DEF CreateRace
    <3>2. \A r \in report.entries : position'[r] > 0
      BY <1>1, <3>1 DEF Reported
    <3>3. DOMAIN pc' = Reports /\ DOMAIN left' = Reports
      BY <1>5, <2>1 DEF CreateRace, StoredInv
    <3>4. \A j \in Reports : pc'[j] = "upsert" => pc[j] = "upsert" /\ left'[j] = left[j]
      BY <1>5, <2>1 DEF CreateRace, StoredInv, AfterResults
    <3>5. TopPlaces(report.entries, Reported)
      BY ReportedTop
    <3> QED
      BY <3>1, <3>2, <3>3, <3>4, <3>5 DEF StoredInv
  <2>2. CASE row # "none"
    BY <1>2, <1>5, <2>2 DEF CreateRace, StoredInv
  <2> QED
    BY <2>1, <2>2
<1>6. ASSUME NEW i \in Reports, NEW r \in Racers, UpsertParticipant(i, r)
      PROVE  StoredInv'
  <2>1. /\ pc[i] = "upsert" /\ r \in left[i] /\ \A q \in left[i] : Position[r] <= Position[q]
        /\ position' = [position EXCEPT ![r] = Position[r]]
    BY <1>6 DEF UpsertParticipant, NextEntry
  <2>2. left[i] \subseteq report.entries /\ \A q \in report.entries \ left[i] : position[q] > 0
    BY <2>1 DEF StoredInv
  <2>3. /\ DOMAIN pc' = Reports /\ DOMAIN left' = Reports
        /\ \A j \in Reports : pc'[j] = "upsert" =>
             /\ pc[j] = "upsert"
             /\ left'[j] = IF j = i THEN left[i] \ {r} ELSE left[j]
    BY <1>6 DEF UpsertParticipant, StoredInv, AfterResults
  <2>4. position \in [Racers -> 0..8]
    BY DEF StoredInv, TopPlaces
  <2>5. \A q \in Racers : position'[q] = IF q = r THEN Position[r] ELSE position[q]
    BY <2>1, <2>4
  <2>6. \A j \in Reports : pc'[j] = "upsert" =>
          /\ left'[j] \subseteq report.entries
          /\ \A q \in report.entries \ left'[j] : position'[q] > 0
    BY <1>1, <2>1, <2>2, <2>3, <2>5 DEF StoredInv
  <2>7. TopPlaces(report.entries, position')
    <3>1. position' \in [Racers -> 0..8]
      BY <1>1, <2>1, <2>4
    <3>2. \A q \in Racers : position'[q] > 0 => q \in report.entries /\ position'[q] = Position[q]
      BY <2>1, <2>2, <2>5 DEF StoredInv, TopPlaces
    <3>3. \A p, q \in report.entries : position'[q] > 0 /\ Position[p] < Position[q] => position'[p] > 0
      <4> SUFFICES ASSUME NEW p \in report.entries, NEW q \in report.entries,
                          position'[q] > 0, Position[p] < Position[q]
                   PROVE  position'[p] > 0
        OBVIOUS
      <4>1. CASE q = r
        <5>1. p \notin left[i]
          BY <1>1, <2>1, <4>1
        <5>2. position[p] > 0 /\ p # r
          BY <2>1, <2>2, <5>1
        <5> QED
          BY <1>1, <2>5, <5>2
      <4>2. CASE q # r
        BY <1>1, <2>5, <4>2 DEF StoredInv, TopPlaces
      <4> QED
        BY <4>1, <4>2
    <3> QED
      BY <3>1, <3>2, <3>3 DEF TopPlaces
  <2> QED
    BY <2>3, <2>6, <2>7 DEF StoredInv
<1>7. ASSUME NEW i \in Reports, NEW r \in Racers, PostReward(i, r) \/ AwardRep(i, r)
      PROVE  StoredInv'
  BY <1>2, <1>7 DEF PostReward, AwardRep, NextReward, StoredInv
<1> QED
  BY <1>3, <1>4, <1>5, <1>6, <1>7 DEF IngestStep, HandlerStep

LEMMA StoredStays ==
  ASSUME FairInv, [BettingNext]_vars
  PROVE  StoredInv'
<1> USE DEF FairInv, ingestVars, race, handlers
<1>1. report' = report
  BY ReportRests
<1>2. CASE UNCHANGED <<position, pc, left>>
  BY <1>1, <1>2 DEF StoredInv
<1>3. CASE IngestStep
  BY <1>1, <1>3, StoredByIngest
<1>4. CASE \E b \in Bets : BetStep(b) \/ BetCrash(b)
  BY <1>2, <1>4 DEF BetStep, BetCrash, ReadPool, PostStake, CreateBet, ReturnStake
<1>5. CASE LockPools \/ Tick \/ UNCHANGED vars
  BY <1>2, <1>5 DEF LockPools, Tick, vars
<1>6. ASSUME NEW w \in Workers, Works(w)
      PROVE  StoredInv'
  <2>1. CASE WorkerCrash(w) \/ FinishReport(w)
    <3>1. /\ UNCHANGED <<position, left>> /\ DOMAIN pc' = DOMAIN pc
          /\ \A i \in Reports : pc'[i] = "upsert" => pc[i] = "upsert"
      BY <2>1 DEF WorkerCrash, FinishReport, Finish, Goto, StoredInv
    <3> QED
      BY <1>1, <3>1 DEF StoredInv
  <2>2. CASE w \in Reports /\ CollectByReport(w)
    BY <1>2, <2>2 DEF CollectByReport
  <2>3. CASE w \in Sweeps /\ Sweep(w)
    BY <1>2, <2>3 DEF Sweep, CollectEnded, CollectStale, ClaimStaleFails, EndOfSweep, ClaimStale
  <2>4. CASE Settle(w)
    BY <1>2, <2>1, <2>4 DEF Settle, EndOfLoop, MarkVoided, PostRefund, PostPayout, Reopen, WriteRows, Claim
  <2> QED
    BY <1>6, <2>1, <2>2, <2>3, <2>4 DEF Works
<1> QED
  BY <1>3, <1>4, <1>5, <1>6, WorkerSets DEF BettingNext, Works

LEMMA BetTypes ==
  ASSUME BettingTypeOK, NEW b \in Bets, BetStep(b) \/ BetCrash(b)
  PROVE  BettingTypeOK' /\ UNCHANGED <<workers, basis, settled, won, voided, refunded>> /\ created \subseteq created'
<1> USE DEF BettingTypeOK, BetGoto, tables, journal, workers
<1>1. CASE ReadPool(b)
  BY <1>1 DEF ReadPool
<1>2. CASE PostStake(b)
  BY <1>2 DEF PostStake
<1>3. CASE CreateBet(b)
  BY <1>3 DEF CreateBet
<1>4. CASE ReturnStake(b)
  BY <1>4 DEF ReturnStake
<1>5. CASE BetCrash(b)
  BY <1>5 DEF BetCrash
<1> QED
  BY <1>1, <1>2, <1>3, <1>4, <1>5 DEF BetStep

LEMMA OtherTypes ==
  ASSUME BettingTypeOK,
         \/ IngestStep /\ UNCHANGED <<clock, tables, bpc, journal, workers>>
         \/ LockPools
         \/ Tick
         \/ UNCHANGED vars
  PROVE  BettingTypeOK' /\ UNCHANGED <<workers, basis, settled, won, voided, refunded>> /\ created \subseteq created'
<1> USE DEF BettingTypeOK, tables, journal, workers
<1>1. CASE IngestStep /\ UNCHANGED <<clock, tables, bpc, journal, workers>>
  BY <1>1
<1>2. CASE LockPools
  BY <1>2 DEF LockPools
<1>3. CASE Tick
  BY <1>3 DEF Tick
<1>4. CASE UNCHANGED vars
  BY <1>4 DEF vars
<1> QED
  BY <1>1, <1>2, <1>3, <1>4

\* Only the payout of a pool, and its refund, give anything.
LEMMA WhoGives ==
  ASSUME NEW w \in Workers, Works(w)
  PROVE  /\ PostPayout(w) \/ UNCHANGED <<settled, won>>
         /\ PostRefund(w) \/ UNCHANGED <<voided, refunded>>
<1> USE DEF journal
<1>1. CASE CollectByReport(w)
  BY <1>1 DEF CollectByReport
<1>2. CASE Settle(w)
  BY <1>2 DEF Settle, EndOfLoop, FinishReport, MarkVoided, Reopen, WriteRows, Claim, PostPayout, PostRefund
<1>3. CASE WorkerCrash(w)
  BY <1>3 DEF WorkerCrash
<1>4. CASE Sweep(w)
  BY <1>4 DEF Sweep, CollectEnded, CollectStale, ClaimStaleFails, EndOfSweep, ClaimStale
<1> QED
  BY <1>1, <1>2, <1>3, <1>4 DEF Works

\* What a worker pays is what the bets and the order say that it claimed the pool with.
LEMMA ShareIsFinal ==
  ASSUME FairInv, NEW w \in Workers, step[w] = "payout"
  PROVE  /\ Winning(cur[w]) # {}
         /\ \A b \in Bets : Pool[b] = cur[w] => Share(w, b) = FinalShare(b)
<1>1. basis[cur[w]] = ReadOf(w, cur[w]) /\ Backers(w, cur[w]) # {}
  BY DEF FairInv, ReadAll, HasRead, Owning, Paying
<1>2. basis[cur[w]].bets = SeenIn(w, cur[w]) /\ basis[cur[w]].order = order[w]
  BY <1>1 DEF ReadOf
<1>3. Backers(w, cur[w]) = Winning(cur[w])
  BY <1>2 DEF Backers, Winning
<1> QED
  BY <1>1, <1>2, <1>3 DEF Share, FinalShare, Pot

LEMMA PayoutPays ==
  ASSUME FairInv, Certain, NEW w \in Workers, PostPayout(w), BetsRest
  PROVE  PaidShares'
<1>1. PICK fate \in May("payout") :
        /\ IF fate # "lost" /\ cur[w] \notin settled
           THEN /\ settled' = settled \cup {cur[w]}
                /\ won' = [b \in Bets |-> IF Pool[b] = cur[w] THEN Share(w, b) ELSE won[b]]
           ELSE UNCHANGED <<settled, won>>
  BY DEF PostPayout
<1>2. step[w] = "payout" /\ step[w] \in Owning
  BY DEF PostPayout, Owning, Paying
<1>3. basis' = basis
  BY DEF PostPayout, tables
<1>4. /\ \A b \in Bets : FinalShare(b)' = FinalShare(b)
      /\ \A p \in Pools : Winning(p)' = Winning(p)
  BY <1>3 DEF FinalShare, Winning, Pot
<1>5. cur[w] \in Pools /\ settled \subseteq Pools
  BY <1>2, Owned DEF FairInv, BettingTypeOK
<1>6. CASE fate # "lost" /\ cur[w] \notin settled
  <2>1. /\ settled' = settled \cup {cur[w]}
        /\ \A b \in Bets : won'[b] = IF Pool[b] = cur[w] THEN Share(w, b) ELSE won[b]
    BY <1>1, <1>6
  <2>2. \A b \in Bets : won'[b] = IF Pool[b] \in settled' THEN FinalShare(b) ELSE 0
    BY <1>2, <2>1, ShareIsFinal DEF FairInv, PaidShares
  <2>3. \A p \in settled' : Winning(p) # {}
    BY <1>2, <2>1, ShareIsFinal DEF FairInv, PaidShares
  <2> QED
    BY <1>3, <1>4, <1>5, <2>1, <2>2, <2>3 DEF PaidShares
<1>7. CASE ~(fate # "lost" /\ cur[w] \notin settled)
  BY <1>1, <1>3, <1>4, <1>5, <1>7 DEF FairInv, PaidShares
<1> QED
  BY <1>6, <1>7

LEMMA RefundGives ==
  ASSUME FairInv, NEW w \in Workers, PostRefund(w), BetsRest
  PROVE  RefundedStakes'
<1>1. \/ UNCHANGED <<voided, refunded>>
      \/ /\ voided' = voided \cup {cur[w]}
         /\ refunded' = [b \in Bets |-> IF Pool[b] = cur[w] THEN Refund(w, b) ELSE refunded[b]]
  BY DEF PostRefund
<1>2. seen[w] \subseteq created
  BY DEF FairInv, ReadAll, HasRead
<1> QED
  BY <1>1, <1>2 DEF FairInv, RefundedStakes, BetsRest, Refund, SeenIn

LEMMA FairStep ==
  ASSUME FairInv, Certain, IsFiniteSet(Bets), [BettingNext]_vars
  PROVE  FairInv'
<1>1. IInv' /\ report' \in Races /\ StoredInv'
  BY NextInv, ReportRests, StoredStays DEF FairInv
<1>2. CASE \/ \E b \in Bets : BetStep(b) \/ BetCrash(b)
           \/ IngestStep /\ UNCHANGED <<clock, tables, bpc, journal, workers>>
           \/ LockPools \/ Tick \/ UNCHANGED vars
  <2>1. BettingTypeOK' /\ UNCHANGED <<workers, basis, settled, won, voided, refunded>> /\ created \subseteq created'
    BY <1>2, BetTypes, OtherTypes DEF FairInv
  <2>2. ReadAll' /\ BasisInv' /\ PaidShares'
    BY <2>1, ReportRests, ReadAllStays, PaidSharesRest DEF FairInv
  <2>3. RefundedStakes'
    BY <2>1 DEF FairInv, RefundedStakes
  <2> QED
    BY <1>1, <2>1, <2>2, <2>3 DEF FairInv
<1>3. ASSUME NEW w \in Workers, Works(w)
      PROVE  FairInv'
  <2>1. BetsRest
    BY <1>3, WorkRests
  <2>2. BettingTypeOK' /\ ReadAll' /\ BasisInv' /\ BasisMoves(w)
    BY <1>3, WorksKeep
  <2>3. PaidShares'
    BY <1>3, <2>1, <2>2, OwnedRests, WhoGives, PayoutPays, PaidSharesRest DEF FairInv
  <2>4. RefundedStakes'
    <3>1. CASE PostRefund(w)
      BY <2>1, <3>1, RefundGives
    <3>2. CASE UNCHANGED <<voided, refunded>>
      BY <2>1, <3>2 DEF FairInv, RefundedStakes, BetsRest
    <3> QED
      BY <1>3, <3>1, <3>2, WhoGives
  <2> QED
    BY <1>1, <2>2, <2>3, <2>4 DEF FairInv
<1> QED
  BY <1>2, <1>3, WorkerSets DEF BettingNext, Works

LEMMA InitFair == InitBetting => FairInv
<1> SUFFICES ASSUME InitBetting PROVE FairInv
  OBVIOUS
<1> USE DEF InitBetting
<1>1. BettingTypeOK
  <2>1. basis \in [Pools -> [bets : SUBSET Bets, order : [Racers -> 0..8]]]
    BY DEF NoOrder
  <2> QED
    BY <2>1 DEF BettingTypeOK, NoOrder
<1>2. TopPlaces(report.entries, NoOrder)
  <2>1. NoOrder \in [Racers -> 0..8] /\ \A r \in Racers : ~(NoOrder[r] > 0)
    BY DEF NoOrder
  <2>2. report.entries \subseteq Racers
    BY ReportAssumption DEF ReportAssumption, InitIngest
  <2> QED
    BY <2>1, <2>2 DEF TopPlaces
<1>3. ReadAll /\ BasisInv
  BY <1>2 DEF ReadAll, HasRead, BasisInv, Owning, Paying, Refunding
<1>4. StoredInv
  BY <1>2 DEF StoredInv, InitIngest, NoOrder
<1>5. PaidShares /\ RefundedStakes
  BY DEF PaidShares, RefundedStakes
<1> QED
  BY <1>1, <1>3, <1>4, <1>5, InitInv DEF FairInv, InitIngest

\* The fair invariant holds in every reachable state.
THEOREM FairInvariance ==
  ASSUME Certain, IsFiniteSet(Bets)
  PROVE  BettingSpec => []FairInv
<1>1. InitBetting => FairInv
  BY InitFair
<1>2. FairInv /\ [BettingNext]_vars => FairInv'
  BY FairStep
<1> QED
  BY <1>1, <1>2, PTL DEF BettingSpec
-----------------------------------------------------------------------------
(* What pools pay, and what becomes of a stake.                           *)

LEMMA Odds ==
  ASSUME NEW n \in Nat, NEW d \in Nat, d > 0, NEW s \in Nat, NEW t \in Nat, s > 0,
         NEW x \in Nat, NEW y \in Nat, x * d <= n * s, n * t < y * d + d
  PROVE  x * t - y * s < s
<1>1. (x * d) * t <= (n * s) * t
  <2>1. PICK e \in Nat : n * s = x * d + e
    <3>1. x * d \in Nat /\ n * s \in Nat
      OBVIOUS
    <3>2. n * s - x * d \in Nat /\ n * s = x * d + (n * s - x * d)
      BY <3>1
    <3> QED
      BY <3>2
  <2>2. (n * s) * t = (x * d + e) * t
    BY <2>1
  <2>3. (x * d + e) * t = (x * d) * t + e * t /\ e * t \in Nat /\ (x * d) * t \in Nat
    OBVIOUS
  <2> QED
    BY <2>2, <2>3
<1>2. (n * t) * s < (y * d + d) * s
  <2>1. PICK e \in Nat : y * d + d = n * t + e /\ e > 0
    <3>1. n * t \in Nat /\ y * d + d \in Nat
      OBVIOUS
    <3>2. (y * d + d) - n * t \in Nat /\ (y * d + d) - n * t > 0
      BY <3>1
    <3> QED
      BY <3>1, <3>2
  <2>2. (y * d + d) * s = (n * t + e) * s
    BY <2>1
  <2>3. (n * t + e) * s = (n * t) * s + e * s /\ e * s \in Nat /\ (n * t) * s \in Nat
    OBVIOUS
  <2>4. e * s > 0
    BY <2>1
  <2> QED
    BY <2>2, <2>3, <2>4
<1>3. (x * d) * t = (x * t) * d /\ (n * s) * t = (n * t) * s /\ (y * d + d) * s = (y * s + s) * d
  OBVIOUS
<1>4. PICK a \in Nat, b \in Nat : a = x * t /\ b = y * s + s
  <2>1. x * t \in Nat /\ y * s + s \in Nat
    OBVIOUS
  <2> QED
    BY <2>1
<1>5. a * d < b * d
  <2>1. (n * t) * s \in Nat /\ a * d \in Nat /\ b * d \in Nat
    OBVIOUS
  <2> QED
    BY <1>1, <1>2, <1>3, <1>4, <2>1
<1>6. a < b
  <2> SUFFICES ASSUME b <= a PROVE FALSE
    OBVIOUS
  <2>1. PICK e \in Nat : a = b + e
    <3>1. a - b \in Nat /\ a = b + (a - b)
      OBVIOUS
    <3> QED
      BY <3>1
  <2>2. a * d = b * d + e * d /\ e * d \in Nat /\ b * d \in Nat
    BY <2>1
  <2> QED
    BY <1>5, <2>2
<1>7. y * s \in Nat
  OBVIOUS
<1> QED
  BY <1>4, <1>6, <1>7

\* The bets of a settled pool that are paid are those that win it.
LEMMA PaidAreWinning ==
  ASSUME FairInv, StakesCount, IsFiniteSet(Bets), NEW p \in settled
  PROVE  /\ {b \in Bets : Pool[b] = p /\ won[b] > 0} = Winning(p)
         /\ Winning(p) # {} /\ Winning(p) \in SUBSET basis[p].bets
         /\ basis[p].bets \in SUBSET Placed(p) /\ Placed(p) \in SUBSET Bets
         /\ \A b \in Winning(p) : won[b] = (Pot(p) * Stake[b]) \div Sum(Winning(p))
<1> USE DEF FairInv
<1>1. /\ Winning(p) # {} /\ Winning(p) \in SUBSET basis[p].bets
      /\ basis[p].bets \in SUBSET Placed(p) /\ Placed(p) \in SUBSET Bets
  BY DEF PaidShares, Winning, Placed, BasisInv, BettingTypeOK
<1>2. \A b \in Winning(p) : b \in Bets /\ Pool[b] = p /\ won[b] = (Pot(p) * Stake[b]) \div Sum(Winning(p))
  BY <1>1 DEF PaidShares, FinalShare, Winning, Placed
<1>3. \A b \in Winning(p) : won[b] > 0
  <2> SUFFICES ASSUME NEW b \in Winning(p)
               PROVE  won[b] > 0
    OBVIOUS
  <2>1. Stake[b] * (10000 - RakeBps) >= 10000
    BY <1>2 DEF StakesCount
  <2>2. (Pot(p) * Stake[b]) \div Sum(Winning(p)) > 0
    BY <1>1, <2>1, Shares DEF Pot
  <2> QED
    BY <1>2, <2>2
<1>4. \A b \in Bets : Pool[b] = p /\ won[b] > 0 => b \in Winning(p)
  BY DEF PaidShares, FinalShare
<1> QED
  BY <1>1, <1>2, <1>3, <1>4

LEMMA Fairly ==
  ASSUME FairInv, StakesCount, IsFiniteSet(Bets)
  PROVE  SharesAreFair
<1> SUFFICES ASSUME NEW p \in settled
             PROVE  /\ 0 <= Pot(p) - SumOf(won, Winning(p))
                    /\ Pot(p) - SumOf(won, Winning(p)) < Cardinality(Winning(p))
                    /\ \A a, b \in Winning(p) : won[a] * Stake[b] - won[b] * Stake[a] < Stake[a]
  BY PaidAreWinning DEF SharesAreFair, Pot
<1>1. /\ Winning(p) # {} /\ Winning(p) \in SUBSET basis[p].bets /\ basis[p].bets \in SUBSET Bets
      /\ \A b \in Winning(p) : won[b] = (Pot(p) * Stake[b]) \div Sum(Winning(p))
  BY PaidAreWinning
<1>2. /\ IsFiniteSet(Winning(p)) /\ Sum(Winning(p)) \in Nat /\ Sum(Winning(p)) > 0
      /\ \A b \in Winning(p) : Stake[b] \in Nat /\ Stake[b] > 0
  BY <1>1, Stakes
<1>3. PICK n \in Nat : n = Pot(p)
  BY <1>1, Pots DEF Pot
<1>4. /\ \A b \in Winning(p) : won[b] \in Nat
      /\ SumOf(won, Winning(p)) <= n /\ n - SumOf(won, Winning(p)) < Cardinality(Winning(p))
  BY <1>1, <1>2, <1>3, SplitWhole DEF Sum
<1>5. SumOf(won, Winning(p)) \in Nat
  BY <1>2, <1>4, SumType
<1>6. ASSUME NEW a \in Winning(p), NEW b \in Winning(p)
      PROVE  won[a] * Stake[b] - won[b] * Stake[a] < Stake[a]
  <2>1. PICK d \in Nat : d = Sum(Winning(p)) /\ d > 0
    BY <1>2
  <2>2. PICK s \in Nat, t \in Nat : s = Stake[a] /\ t = Stake[b] /\ s > 0
    BY <1>2
  <2>3. PICK m \in Nat, l \in Nat : m = n * s /\ l = n * t
    BY Products
  <2>4. PICK x \in Nat, y \in Nat : x = won[a] /\ y = won[b]
    BY <1>4
  <2>5. x = m \div d /\ y = l \div d
    BY <1>1, <1>3, <2>1, <2>2, <2>3, <2>4
  <2>6. x * d <= m /\ l < y * d + d
    BY <2>1, <2>5, Floor
  <2>7. x * t - y * s < s
    BY <2>1, <2>2, <2>3, <2>6, Odds
  <2> QED
    BY <2>2, <2>4, <2>7
<1> QED
  BY <1>3, <1>4, <1>5, <1>6

\* Whoever is ranked by the top of the finish order wins by it as he does by the report.
LEMMA RankedRight ==
  ASSUME report \in Races, NEW f, TopPlaces(report.entries, f), NEW r \in Ranked(f), NEW p \in Pools
  PROVE  r \in Winners(f, p) <=> FinishedFor(r, p)
<1>1. /\ report.entries \subseteq Racers
      /\ \A q \in Racers : Position[q] \in 1..8
  BY ReportAssumption DEF ReportAssumption
<1>2. r \in Racers /\ f[r] > 0 /\ r \in report.entries /\ f[r] = Position[r]
  BY DEF Ranked, TopPlaces
<1>3. Ahead(f, r) = {q \in report.entries : Position[q] < Position[r]}
  <2>1. ASSUME NEW q \in Ahead(f, r)
        PROVE  q \in report.entries /\ Position[q] < Position[r]
    BY <1>2, <2>1 DEF Ahead, Ranked, TopPlaces
  <2>2. ASSUME NEW q \in report.entries, Position[q] < Position[r]
        PROVE  q \in Ahead(f, r)
    <3>1. q \in Racers /\ f[q] > 0
      BY <1>1, <1>2, <2>2 DEF TopPlaces
    <3>2. f[q] = Position[q]
      BY <3>1 DEF TopPlaces
    <3> QED
      BY <1>2, <2>2, <3>1, <3>2 DEF Ahead, Ranked
  <2> QED
    BY <2>1, <2>2 DEF Ahead, Ranked
<1>4. Kind[p] \in {"WIN", "PODIUM"}
  BY PoolAssumption DEF PoolAssumption
<1> QED
  BY <1>2, <1>3, <1>4 DEF Winners, FinishedFor

LEMMA RacersAreFinite ==
  ASSUME report \in Races
  PROVE  IsFiniteSet(report.entries)
<1>1. report.entries \subseteq Racers
  BY ReportAssumption DEF ReportAssumption
<1>2. \A q \in Racers : Position[q] \in 1..8
  BY ReportAssumption DEF ReportAssumption
<1>3. \A q, r \in Racers : Position[q] = Position[r] => q = r
  BY ReportAssumption DEF ReportAssumption
<1> DEFINE g == [q \in report.entries |-> Position[q]]
<1>4. g \in Injection(report.entries, 1..8)
  <2>1. g \in [report.entries -> 1..8]
    BY <1>1, <1>2
  <2>2. IsInjective(g)
    <3>1. DOMAIN g = report.entries
      OBVIOUS
    <3>2. \A q, r \in report.entries : g[q] = g[r] => q = r
      BY <1>1, <1>3
    <3> QED
      BY <3>1, <3>2 DEF IsInjective
  <2> QED
    BY <2>1, <2>2 DEF Injection
<1>5. IsFiniteSet(1..8)
  <2>1. PICK n \in Nat : n = 8
    OBVIOUS
  <2>2. IsFiniteSet(1..n)
    BY FS_Interval
  <2> QED
    BY <2>1, <2>2
<1> QED
  BY <1>4, <1>5, FS_Injection

\* The first in the report is the first of any order that ranks somebody.
LEMMA FirstIsRanked ==
  ASSUME report \in Races, NEW f, TopPlaces(report.entries, f), Ranked(f) # {},
         NEW p \in Pools, Kind[p] = "WIN", NEW r, FinishedFor(r, p)
  PROVE  r \in Ranked(f)
<1>1. /\ report.entries \subseteq Racers
      /\ \A q \in Racers : Position[q] \in 1..8
  BY ReportAssumption DEF ReportAssumption
<1>2. \A q, s \in Racers : Position[q] = Position[s] => q = s
  BY ReportAssumption DEF ReportAssumption
<1> DEFINE Before == {q \in report.entries : Position[q] < Position[r]}
<1>3. r \in report.entries /\ Cardinality(Before) < 1
  BY DEF FinishedFor
<1>4. IsFiniteSet(Before)
  <2>1. Before \subseteq report.entries
    OBVIOUS
  <2> QED
    BY <2>1, RacersAreFinite, FS_Subset
<1>5. Before = {}
  <2>1. Cardinality(Before) \in Nat
    BY <1>4, FS_CardinalityType
  <2>2. Cardinality(Before) = 0
    BY <1>3, <2>1
  <2> QED
    BY <1>4, <2>2, FS_EmptySet
<1>6. PICK q \in Ranked(f) : TRUE
  OBVIOUS
<1>7. q \in Racers /\ f[q] > 0 /\ q \in report.entries
  BY <1>6 DEF Ranked, TopPlaces
<1>8. Position[r] <= Position[q]
  BY <1>1, <1>3, <1>5, <1>7
<1>9. CASE Position[r] = Position[q]
  BY <1>1, <1>2, <1>3, <1>6, <1>7, <1>9
<1>10. CASE Position[r] < Position[q]
  BY <1>1, <1>3, <1>7, <1>10 DEF TopPlaces, Ranked
<1> QED
  BY <1>1, <1>3, <1>7, <1>8, <1>9, <1>10

LEMMA ByFinish ==
  ASSUME FairInv, StakesCount, IsFiniteSet(Bets)
  PROVE  PaidByFinish
<1> USE DEF FairInv
<1> SUFFICES ASSUME NEW b \in Bets, Pool[b] \in settled
             PROVE  /\ won[b] > 0 => FinishedFor(Selection[b], Pool[b])
                    /\ b \in basis[Pool[b]].bets /\ FinishedFor(Selection[b], Pool[b])
                       /\ (Kind[Pool[b]] = "WIN" \/ Selection[b] \in Ranked(basis[Pool[b]].order))
                       => won[b] > 0
  BY DEF PaidByFinish
<1> DEFINE p == Pool[b]
           f == basis[p].order
<1>1. p \in Pools /\ Selection[b] \in Racers
  BY PoolAssumption DEF PoolAssumption
<1>2. won[b] > 0 <=> b \in Winning(p)
  BY PaidAreWinning
<1>3. TopPlaces(report.entries, f)
  BY <1>1 DEF BasisInv
<1>4. Winning(p) = {a \in basis[p].bets : Selection[a] \in Winners(f, p)}
  BY DEF Winning
<1>5. Winning(p) # {} /\ \A r \in Winners(f, p) : r \in Ranked(f)
  BY DEF PaidShares, Winners
<1>6. ASSUME won[b] > 0 PROVE FinishedFor(Selection[b], p)
  BY <1>1, <1>2, <1>3, <1>4, <1>5, <1>6, RankedRight
<1>7. ASSUME b \in basis[p].bets, FinishedFor(Selection[b], p),
             Kind[p] = "WIN" \/ Selection[b] \in Ranked(f)
      PROVE  won[b] > 0
  <2>1. Ranked(f) # {}
    BY <1>4, <1>5
  <2>2. Selection[b] \in Ranked(f)
    BY <1>1, <1>3, <1>7, <2>1, FirstIsRanked
  <2>3. Selection[b] \in Winners(f, p)
    BY <1>1, <1>3, <1>7, <2>2, RankedRight
  <2> QED
    BY <1>2, <1>4, <1>7, <2>3
<1> QED
  BY <1>6, <1>7

LEMMA Covers ==
  ASSUME FairInv, StakesCount, IsFiniteSet(Bets)
  PROVE  PoolCovers
<1> USE DEF FairInv
<1> SUFFICES ASSUME NEW p \in Pools
             PROVE  SumOf(Given, {b \in Bets : Pool[b] = p}) <= Sum(staked \cap {b \in Bets : Pool[b] = p})
  BY DEF PoolCovers
<1> DEFINE In == {b \in Bets : Pool[b] = p}
<1>1. /\ In \in SUBSET Bets /\ Placed(p) \in SUBSET In /\ Placed(p) \in SUBSET (staked \cap In)
      /\ staked \cap In \in SUBSET Bets
  BY DEF Placed, BettingTypeOK, IInv, BetInv
<1>2. IsFiniteSet(In)
  BY <1>1, Stakes
<1>3. \A b \in In : won[b] \in Nat /\ refunded[b] \in Nat /\ Given[b] = won[b] + refunded[b]
  BY DEF BettingTypeOK, Given
<1>4. Sum(Placed(p)) <= Sum(staked \cap In) /\ Sum(Placed(p)) \in Nat /\ Sum(staked \cap In) \in Nat
  BY <1>1, Stakes
<1>5. SumOf(Given, In) <= Sum(Placed(p))
  <2>1. CASE p \in settled
    <3>1. \A b \in In : refunded[b] = 0
      BY <2>1 DEF RefundedStakes, IInv, JournalInv
    <3>2. \A b \in In : won[b] \in Nat /\ Given[b] = won[b]
      BY <1>3, <3>1
    <3>3. SumOf(Given, In) = SumOf(won, In)
      BY <1>2, <3>2, SumSame
    <3>4. /\ Winning(p) # {} /\ Winning(p) \in SUBSET basis[p].bets /\ basis[p].bets \in SUBSET Placed(p)
          /\ {b \in Bets : Pool[b] = p /\ won[b] > 0} = Winning(p)
          /\ \A b \in Winning(p) : won[b] = (Pot(p) * Stake[b]) \div Sum(Winning(p))
      BY <2>1, PaidAreWinning
    <3>5. Winning(p) \in SUBSET In /\ \A b \in In \ Winning(p) : won[b] = 0
      BY <1>1, <1>3, <3>4
    <3>6. SumOf(won, Winning(p)) = SumOf(won, In)
      BY <1>2, <1>3, <3>5, SumZeros
    <3>7. PICK n \in Nat : n = Pot(p) /\ n <= Sum(Placed(p))
      <4>1. Sum(basis[p].bets) <= Sum(Placed(p)) /\ Sum(basis[p].bets) \in Nat
        BY <1>1, <3>4, Stakes
      <4>2. Pot(p) \in Nat /\ Pot(p) <= Sum(basis[p].bets)
        BY <1>1, <3>4, Pots DEF Pot
      <4> QED
        BY <1>4, <4>1, <4>2
    <3>8. /\ IsFiniteSet(Winning(p)) /\ Sum(Winning(p)) > 0
          /\ \A b \in Winning(p) : Stake[b] \in Nat
      BY <1>1, <3>4, Stakes
    <3>9. SumOf(won, Winning(p)) <= n
      BY <3>4, <3>7, <3>8, SplitWhole DEF Sum
    <3>10. SumOf(won, Winning(p)) \in Nat
      BY <1>3, <3>5, <3>8, SumType
    <3> QED
      BY <1>4, <3>3, <3>6, <3>7, <3>9, <3>10
  <2>2. CASE p \notin settled
    <3>1. \A b \in In : won[b] = 0 /\ Given[b] = refunded[b]
      BY <1>3, <2>2 DEF PaidShares
    <3>2. \A b \in In : Given[b] \in Nat
      BY <1>3, <3>1
    <3>3. \A b \in In \ Placed(p) : Given[b] = 0
      BY <3>1 DEF RefundedStakes, Placed
    <3>4. SumOf(Given, Placed(p)) = SumOf(Given, In)
      BY <1>1, <1>2, <3>2, <3>3, SumZeros
    <3>5. IsFiniteSet(Placed(p)) /\ \A b \in Placed(p) : b \in In /\ Stake[b] \in Nat
      BY <1>1, Stakes
    <3>6. \A b \in Placed(p) : Given[b] \in Nat /\ Given[b] <= Stake[b]
      <4> SUFFICES ASSUME NEW b \in Placed(p) PROVE Given[b] \in Nat /\ Given[b] <= Stake[b]
        OBVIOUS
      <4>1. b \in Bets /\ (refunded[b] = 0 \/ refunded[b] = Stake[b])
        BY <3>5 DEF RefundedStakes
      <4> QED
        BY <3>1, <3>2, <3>5, <4>1
    <3>7. SumOf(Given, Placed(p)) <= SumOf(Stake, Placed(p))
      BY <3>5, <3>6, SumBelow
    <3> QED
      BY <3>4, <3>7 DEF Sum
  <2> QED
    BY <2>1, <2>2
<1>6. SumOf(Given, In) \in Nat
  <2>1. \A b \in In : Given[b] \in Nat
    BY <1>3
  <2> QED
    BY <1>2, <2>1, SumType
<1> QED
  BY <1>4, <1>5, <1>6

\* A settled pool pays nobody but those who backed the first in the report, and all those
\* whose bets the settling worker had read, at the same odds, all of what was staked in
\* these bets but the rake and less than one credit each; and no pool gives more than was
\* staked in it, paid out or refunded (settlePool, refundBets, voidStalePools).  So it is
\* for any stakes that flooring does not eat, however many racers, bets and workers there
\* are, whatever bets come late and however much of the finish order was stored when it
\* was read: only a podium settled from half the rows passes over backers of racers who had
\* no position yet.  The payout's posting and the bet's creation must not fail after their
\* effect.
THEOREM PoolsPayRightly ==
  ASSUME Certain, StakesCount, IsFiniteSet(Bets)
  PROVE  BettingSpec => []PaidRightly
<1>1. FairInv => PaidRightly
  BY Fairly, ByFinish, Covers DEF PaidRightly, FairInv
<1> QED
  BY <1>1, FairInvariance, PTL

\* A stake that was taken stands in a bet or is back, when placeBet has returned or
\* thrown: unless the posting of the stake fails after its effect, the refund fails
\* too, or the process dies on the way.
THEOREM StakesAreNotLost ==
  ASSUME "stake" \notin Unacked, "return" \notin Faults, Crashes \cap {"create", "return"} = {}
  PROVE  BettingSpec => []StakesReturn
<1> DEFINE SInv ==
      /\ bpc \in [Bets -> {"idle", "stake", "create", "return", "done"}]
      /\ staked \subseteq Bets
      /\ StakeInv
<1>1. InitBetting => SInv
  BY DEF InitBetting, StakeInv
<1>2. SInv /\ [BettingNext]_vars => SInv'
  <2> SUFFICES ASSUME SInv, [BettingNext]_vars PROVE SInv'
    OBVIOUS
  <2> USE DEF StakeInv, BetGoto, tables, journal
  <2>1. CASE UNCHANGED <<bpc, created, staked, returned>>
    BY <2>1
  <2>2. ASSUME NEW b \in Bets, ReadPool(b) PROVE SInv'
    BY <2>2 DEF ReadPool
  <2>3. ASSUME NEW b \in Bets, PostStake(b) PROVE SInv'
    <3>1. PICK fate \in {"ok", "lost", "refused"} :
       /\ staked' = IF fate \in {"ok", "unacked"} THEN staked \cup {b} ELSE staked
       /\ bpc' = [bpc EXCEPT ![b] = IF fate = "ok" THEN "create" ELSE "done"]
      BY <2>3 DEF PostStake, May
    <3> QED
      BY <2>3, <3>1 DEF PostStake
  <2>4. ASSUME NEW b \in Bets, CreateBet(b) PROVE SInv'
    BY <2>4 DEF CreateBet
  <2>5. ASSUME NEW b \in Bets, ReturnStake(b) PROVE SInv'
    <3>1. returned' = returned \cup {b} /\ bpc' = [bpc EXCEPT ![b] = "done"]
      BY <2>5 DEF ReturnStake, May
    <3> QED
      BY <2>5, <3>1 DEF ReturnStake
  <2>6. ASSUME NEW b \in Bets, BetCrash(b) PROVE SInv'
    BY <2>6 DEF BetCrash
  <2>7. ASSUME NEW w \in Workers, Works(w) PROVE SInv'
    BY <2>1, <2>7, WorkRests DEF BetsRest
  <2>8. CASE IngestStep /\ UNCHANGED <<clock, tables, bpc, journal, workers>>
    BY <2>1, <2>8
  <2>9. CASE LockPools \/ Tick \/ UNCHANGED vars
    BY <2>1, <2>9 DEF LockPools, Tick, vars
  <2> QED
    BY <2>2, <2>3, <2>4, <2>5, <2>6, <2>7, <2>8, <2>9, WorkerSets DEF BettingNext, BetStep, Works
<1>3. SInv => StakesReturn
  <2> SUFFICES ASSUME SInv, NEW b \in staked, bpc[b] = "done" PROVE b \in created \cup returned
    BY DEF StakesReturn
  <2>1. b \in Bets
    OBVIOUS
  <2> QED
    BY <2>1 DEF StakeInv
<1> QED
  BY <1>1, <1>2, <1>3, PTL DEF BettingSpec
=============================================================================
