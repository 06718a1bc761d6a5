------------------------------ MODULE Betting ------------------------------
(***************************************************************************)
(* BettingService (apps/api/src/betting/betting.service.ts): pari-mutuel   *)
(* pools on one race.  Bettors place bets, the room locks the pools at the *)
(* green light, the ingestion of the result (module RaceIngest) settles    *)
(* them, and the sweeper settles what ingestion left and refunds the pools *)
(* of a race that never reported.                                          *)
(*                                                                         *)
(* The ledger is the atomic one of module Ledger, seen through its keys:   *)
(* posting a key twice changes nothing.  The house covers every payout.    *)
(***************************************************************************)
EXTENDS RaceIngest, Collections

CONSTANTS
  Pools,        \* the pools of the race
  Kind,         \* per pool: "WIN" or "PODIUM"
  RakeBps,
  Bets,         \* calls of placeBet, by bet id
  Pool,         \* per bet: its pool,
  Selection,    \*   the racer it backs,
  Stake,        \*   and what it stakes
  Sweeps,       \* sweeps of the API replicas that may run at a time
  NoPool,       \* "no pool"
  Unacked,      \* awaits at which a call may take effect and fail all the same
  Crashes,      \* where a process may die, by bpc, step, or pc "settle"
  LateBets,     \* bets that may be created long after their pool was read
  PartialReads  \* whether a sweep may read a half stored finish order

ASSUME PoolAssumption ==
  /\ Kind \in [Pools -> {"WIN", "PODIUM"}]
  /\ NoPool \notin Pools
  /\ RakeBps \in 0..10000
  /\ Pool \in [Bets -> Pools]
  /\ Selection \in [Bets -> Racers]
  /\ Stake \in [Bets -> Nat \ {0}]
  /\ LateBets \subseteq Bets
  /\ PartialReads \in BOOLEAN
  /\ Sweeps \cap Reports = {}

VARIABLES
  clock,      \* 0: betting window; 1: past closesAt; 2: past STALE_POOL_MS
  status,     \* per pool
  bpc,        \* per call of placeBet
  created,    \* bets with a row
  payout,     \* the payout of a bet's row; -1 is null
  basis,      \* per pool: what its last claimer had read, the bets and the order (history)
  \* the ledger: bet-stake, bet-stake-refund; bet-settle and bet-void per pool
  staked, returned, settled, voided,
  won,        \* per bet: what bet-settle of its pool gave
  refunded,   \* per bet: what bet-void of its pool gave
  \* whoever settles: the handlers of RaceIngest and the sweeps
  step,
  todo,       \* pools read and not visited yet
  seen,       \* bets read with them
  order,      \* the finish order it settles by
  cur         \* the pool it has claimed

tables == <<status, created, payout, basis>>
journal == <<staked, returned, settled, voided, won, refunded>>
workers == <<step, todo, seen, order, cur>>
vars == <<ingestVars, clock, tables, bpc, journal, workers>>

Workers == Reports \cup Sweeps
Bettable == {"OPEN", "LOCKED"}
NoOrder == [r \in Racers |-> 0]

InitBetting ==
  /\ InitIngest
  /\ clock = 0
  /\ status = [p \in Pools |-> "OPEN"]
  /\ bpc = [b \in Bets |-> "idle"]
  /\ created = {}
  /\ payout = [b \in Bets |-> -1]
  /\ basis = [p \in Pools |-> [bets |-> {}, order |-> NoOrder]]
  /\ staked = {} /\ returned = {} /\ settled = {} /\ voided = {}
  /\ won = [b \in Bets |-> 0]
  /\ refunded = [b \in Bets |-> 0]
  /\ step = [w \in Workers |-> "idle"]
  /\ todo = [w \in Workers |-> {}]
  /\ seen = [w \in Workers |-> {}]
  /\ order = [w \in Workers |-> NoOrder]
  /\ cur = [w \in Workers |-> NoPool]

-----------------------------------------------------------------------------
(* Faults of an awaited call: without effect, after its effect, or none.   *)
May(point) == {"ok"} \cup (IF point \in Faults THEN {"lost"} ELSE {})
                     \cup (IF point \in Unacked THEN {"unacked"} ELSE {})

-----------------------------------------------------------------------------
(* placeBet.  Stakes out of bounds, bettors who race, and selections that  *)
(* do not race are refused before anything is written: no bet here is one. *)
BetGoto(b, label) == bpc' = [bpc EXCEPT ![b] = label]

\* The pool is read: only an OPEN one, before closesAt, takes the bet.
ReadPool(b) ==
  /\ bpc[b] = "idle"
  /\ BetGoto(b, IF status[Pool[b]] = "OPEN" /\ clock = 0 THEN "stake" ELSE "done")
  /\ UNCHANGED <<ingestVars, clock, tables, journal, workers>>

\* The stake is posted; the ledger may refuse it, or fail.  An error leaves
\* placeBet.
PostStake(b) ==
  /\ bpc[b] = "stake"
  /\ \E fate \in May("stake") \cup {"refused"} :
       /\ staked' = IF fate \in {"ok", "unacked"} THEN staked \cup {b} ELSE staked
       /\ BetGoto(b, IF fate = "ok" THEN "create" ELSE "done")
  /\ UNCHANGED <<ingestVars, clock, tables, returned, settled, voided, won, refunded, workers>>

\* The bet's row is created, whatever became of the pool; a failure is
\* answered with a refund of the stake.
CreateBet(b) ==
  /\ bpc[b] = "create"
  /\ \E fate \in May("create") :
       /\ created' = IF fate \in {"ok", "unacked"} THEN created \cup {b} ELSE created
       /\ BetGoto(b, IF fate = "ok" THEN "done" ELSE "return")
  /\ UNCHANGED <<ingestVars, clock, status, payout, basis, journal, workers>>

\* Mutant of ReturnStake: the error of the creation is thrown before the refund.
ReturnForgotten(b) ==
  /\ bpc[b] = "return"
  /\ BetGoto(b, "done")
  /\ UNCHANGED <<ingestVars, clock, tables, journal, workers>>

ReturnStake(b) ==
  /\ bpc[b] = "return"
  /\ \E fate \in May("return") :
       returned' = IF fate \in {"ok", "unacked"} THEN returned \cup {b} ELSE returned
  /\ BetGoto(b, "done")
  /\ UNCHANGED <<ingestVars, clock, tables, staked, settled, voided, won, refunded, workers>>

BetCrash(b) ==
  /\ bpc[b] \in {"stake", "create", "return"} \cap Crashes
  /\ BetGoto(b, "done")
  /\ UNCHANGED <<ingestVars, clock, tables, journal, workers>>

Placing(b) == bpc[b] \in {"stake", "create"}

-----------------------------------------------------------------------------
(* The green light.  The call is best effort: it may come late, or never.  *)
LockPools ==
  /\ \E p \in Pools : status[p] = "OPEN"
  /\ status' = [p \in Pools |-> IF status[p] = "OPEN" THEN "LOCKED" ELSE status[p]]
  /\ UNCHANGED <<ingestVars, clock, bpc, created, payout, basis, journal, workers>>

Tick ==
  /\ clock < 2
  /\ clock' = clock + 1
  /\ UNCHANGED <<ingestVars, tables, bpc, journal, workers>>

-----------------------------------------------------------------------------
(* Settlement by a worker: a handler of ingestResult or a sweep.           *)
StepTo(w, label) == step' = [step EXCEPT ![w] = label]

Placed(p) == {b \in created : Pool[b] = p}

\* A bound: who settles reads the pools after closesAt, when no bet is on its way any
\* more but those that may be late; or at any time, when all may.
ReadsPools == LateBets = Bets \/ (clock > 0 /\ \A b \in Bets \ LateBets : ~Placing(b))

\* Racers by a finish order: the first of those who have a position, or the
\* first three.
Ranked(f) == {r \in Racers : f[r] > 0}

Ahead(f, r) == {q \in Ranked(f) : f[q] < f[r]}

\* Mutant of Winners: the podium ends one place early.
WinnersCutShort(f, p) ==
  {r \in Ranked(f) : Cardinality(Ahead(f, r)) < IF Kind[p] = "PODIUM" THEN 2 ELSE 1}

Winners(f, p) ==
  {r \in Ranked(f) : Cardinality(Ahead(f, r)) < IF Kind[p] = "PODIUM" THEN 3 ELSE 1}

\* settleForRace reads the unsettled pools and settles by the report's order; if
\* the read fails, the handler goes on without.
CollectByReport(i) ==
  /\ i \in Reports
  /\ pc[i] = "settle"
  /\ step[i] = "idle"
  /\ ReadsPools
  /\ \E fate \in May("collect") :
       todo' = [todo EXCEPT ![i] = IF fate = "ok" THEN {p \in Pools : status[p] \in Bettable} ELSE {}]
  /\ seen' = [seen EXCEPT ![i] = created]
  /\ order' = [order EXCEPT ![i] = Reported]
  /\ StepTo(i, "settling")
  /\ UNCHANGED <<ingestVars, clock, tables, bpc, journal, cur>>

\* voidStalePools, first part: pools of an ended race, settled by the stored
\* positions; without any the pool is passed over.
CollectEnded(s) ==
  /\ s \in Sweeps
  /\ step[s] = "idle"
  /\ ReadsPools
  /\ PartialReads \/ row # "ended" \/ position = Reported
  /\ todo' = [todo EXCEPT ![s] =
       IF row = "ended" /\ Ranked(position) # {} THEN {p \in Pools : status[p] \in Bettable} ELSE {}]
  /\ seen' = [seen EXCEPT ![s] = created]
  /\ order' = [order EXCEPT ![s] = position]
  /\ StepTo(s, "settling")
  /\ UNCHANGED <<ingestVars, clock, tables, bpc, journal, cur>>

\* The loop is over: a handler finishes, a sweep goes on to the stale pools.
EndOfLoop(w) ==
  /\ step[w] = "settling"
  /\ todo[w] = {}
  /\ StepTo(w, IF w \in Sweeps THEN "stale" ELSE "finish")
  /\ UNCHANGED <<ingestVars, clock, tables, bpc, journal, todo, seen, order, cur>>

FinishReport(i) ==
  /\ step[i] = "finish"
  /\ Finish(i)
  /\ StepTo(i, "ended")
  /\ UNCHANGED <<clock, tables, bpc, journal, todo, seen, order, cur>>

SeenIn(w, p) == {b \in seen[w] : Pool[b] = p}
ReadOf(w, p) == [bets |-> SeenIn(w, p), order |-> order[w]]
Backers(w, p) == {b \in SeenIn(w, p) : Selection[b] \in Winners(order[w], p)}
Sum(S) == SumOf(Stake, S)

\* The pool is given up: the error is logged and the loop goes on; in the part
\* over stale pools it ends the sweep.
GiveUp(w) ==
  /\ cur' = [cur EXCEPT ![w] = NoPool]
  /\ IF step[w] \in {"void-refund", "void-rows"}
     THEN StepTo(w, "idle") /\ todo' = [todo EXCEPT ![w] = {}]
     ELSE StepTo(w, "settling") /\ UNCHANGED todo

\* Mutant of Claim: the status is written without the guard on its old value.
ClaimUnguarded(w, p) ==
  /\ step[w] = "settling"
  /\ p \in todo[w]
  /\ todo' = [todo EXCEPT ![w] = @ \ {p}]
  /\ status' = [status EXCEPT ![p] = "SETTLED"]
  /\ basis' = [basis EXCEPT ![p] = ReadOf(w, p)]
  /\ IF SeenIn(w, p) # {}
     THEN /\ cur' = [cur EXCEPT ![w] = p]
          /\ StepTo(w, IF Backers(w, p) = {} THEN "mark" ELSE "payout")
     ELSE UNCHANGED <<step, cur>>
  /\ UNCHANGED <<ingestVars, clock, created, payout, bpc, journal, seen, order>>

\* settlePool claims the pool: one of several workers wins.  Without bets there
\* is nothing more to do; when nobody backed a winner the stakes go back.
Claim(w, p) ==
  /\ step[w] = "settling"
  /\ p \in todo[w]
  /\ todo' = [todo EXCEPT ![w] = @ \ {p}]
  /\ \E fate \in May("claim") :
       LET claimed == fate # "lost" /\ status[p] \in Bettable IN
       /\ status' = IF claimed THEN [status EXCEPT ![p] = "SETTLED"] ELSE status
       /\ basis' = IF claimed THEN [basis EXCEPT ![p] = ReadOf(w, p)] ELSE basis
       /\ IF claimed /\ fate = "ok" /\ SeenIn(w, p) # {}
          THEN /\ cur' = [cur EXCEPT ![w] = p]
               /\ StepTo(w, IF Backers(w, p) = {} THEN "mark" ELSE "payout")
          ELSE UNCHANGED <<step, cur>>
  /\ UNCHANGED <<ingestVars, clock, created, payout, bpc, journal, seen, order>>

MarkVoided(w) ==
  /\ step[w] = "mark"
  /\ \E fate \in May("mark") :
       /\ status' = IF fate = "lost" THEN status ELSE [status EXCEPT ![cur[w]] = "VOIDED"]
       /\ IF fate = "ok"
          THEN StepTo(w, "refund") /\ UNCHANGED <<cur, todo>>
          ELSE GiveUp(w)
  /\ UNCHANGED <<ingestVars, clock, created, payout, basis, bpc, journal, seen, order>>

Refund(w, b) == IF b \in SeenIn(w, cur[w]) THEN Stake[b] ELSE 0

\* refundBets posts bet-void for the bets it read.  A failure is not retried.
PostRefund(w) ==
  /\ step[w] \in {"refund", "void-refund"}
  /\ \E fate \in May("refund") :
       /\ IF fate # "lost" /\ cur[w] \notin voided
          THEN /\ voided' = voided \cup {cur[w]}
               /\ refunded' = [b \in Bets |-> IF Pool[b] = cur[w] THEN Refund(w, b) ELSE refunded[b]]
          ELSE UNCHANGED <<voided, refunded>>
       /\ IF fate = "ok"
          THEN StepTo(w, IF step[w] = "refund" THEN "refund-rows" ELSE "void-rows") /\ UNCHANGED <<cur, todo>>
          ELSE GiveUp(w)
  /\ UNCHANGED <<ingestVars, clock, tables, bpc, staked, returned, settled, won, seen, order>>

Rake(S) == (Sum(S) * RakeBps) \div 10000

\* A winning bet's proportional share of the pool after the rake, floored.
Share(w, b) ==
  IF b \in Backers(w, cur[w])
  THEN ((Sum(SeenIn(w, cur[w])) - Rake(SeenIn(w, cur[w]))) * Stake[b]) \div Sum(Backers(w, cur[w]))
  ELSE 0

\* The payouts are posted as bet-settle.
PostPayout(w) ==
  /\ step[w] = "payout"
  /\ \E fate \in May("payout") :
       /\ IF fate # "lost" /\ cur[w] \notin settled
          THEN /\ settled' = settled \cup {cur[w]}
               /\ won' = [b \in Bets |-> IF Pool[b] = cur[w] THEN Share(w, b) ELSE won[b]]
          ELSE UNCHANGED <<settled, won>>
       /\ StepTo(w, IF fate = "ok" THEN "payout-rows" ELSE "reopen")
  /\ UNCHANGED <<ingestVars, clock, tables, bpc, staked, returned, voided, refunded, todo, seen, order, cur>>

\* Mutant of Reopen: a failed payout leaves the pool SETTLED.
ReopenForgotten(w) ==
  /\ step[w] = "reopen"
  /\ GiveUp(w)
  /\ UNCHANGED <<ingestVars, clock, tables, bpc, journal, seen, order>>

\* A pool whose payout failed is LOCKED again, for the next sweep.
Reopen(w) ==
  /\ step[w] = "reopen"
  /\ \E fate \in May("reopen") :
       status' = IF fate # "lost" /\ status[cur[w]] = "SETTLED"
                 THEN [status EXCEPT ![cur[w]] = "LOCKED"] ELSE status
  /\ GiveUp(w)
  /\ UNCHANGED <<ingestVars, clock, created, payout, basis, bpc, journal, seen, order>>

\* The rows of the bets get their payouts, one by one; a failure ends the loop.
WriteRows(w) ==
  /\ step[w] \in {"payout-rows", "refund-rows", "void-rows"}
  /\ \E S \in IF "rows" \in Faults THEN SUBSET SeenIn(w, cur[w]) ELSE {SeenIn(w, cur[w])} :
       /\ payout' = [b \in Bets |->
            IF b \in S THEN IF step[w] = "payout-rows" THEN Share(w, b) ELSE Stake[b]
            ELSE payout[b]]
       /\ IF step[w] = "void-rows" /\ S = SeenIn(w, cur[w])
          THEN StepTo(w, "voiding") /\ cur' = [cur EXCEPT ![w] = NoPool] /\ UNCHANGED todo
          ELSE GiveUp(w)
  /\ UNCHANGED <<ingestVars, clock, status, created, basis, bpc, journal, seen, order>>

-----------------------------------------------------------------------------
(* voidStalePools, second part: pools of a race that never reported.       *)
CollectStale(s) ==
  /\ step[s] = "stale"
  /\ ReadsPools
  /\ todo' = [todo EXCEPT ![s] =
       IF clock = 2 /\ row # "ended" THEN {p \in Pools : status[p] \in Bettable} ELSE {}]
  /\ seen' = [seen EXCEPT ![s] = created]
  /\ StepTo(s, "voiding")
  /\ UNCHANGED <<ingestVars, clock, tables, bpc, journal, order, cur>>

\* Mutant of ClaimStale: a pool that somebody else has claimed is refunded too.
ClaimStaleAnyway(s, p) ==
  /\ step[s] = "voiding"
  /\ p \in todo[s]
  /\ todo' = [todo EXCEPT ![s] = @ \ {p}]
  /\ status' = [status EXCEPT ![p] = "VOIDED"]
  /\ basis' = [basis EXCEPT ![p] = ReadOf(s, p)]
  /\ IF SeenIn(s, p) # {}
     THEN cur' = [cur EXCEPT ![s] = p] /\ StepTo(s, "void-refund")
     ELSE UNCHANGED <<step, cur>>
  /\ UNCHANGED <<ingestVars, clock, created, payout, bpc, journal, seen, order>>

ClaimStale(s, p) ==
  /\ step[s] = "voiding"
  /\ p \in todo[s]
  /\ todo' = [todo EXCEPT ![s] = @ \ {p}]
  /\ IF status[p] \in Bettable
     THEN /\ status' = [status EXCEPT ![p] = "VOIDED"]
          /\ basis' = [basis EXCEPT ![p] = ReadOf(s, p)]
          /\ IF SeenIn(s, p) # {}
             THEN cur' = [cur EXCEPT ![s] = p] /\ StepTo(s, "void-refund")
             ELSE UNCHANGED <<step, cur>>
     ELSE UNCHANGED <<status, basis, step, cur>>
  /\ UNCHANGED <<ingestVars, clock, created, payout, bpc, journal, seen, order>>

\* A claim that fails ends the sweep, whether or not the pool is VOIDED by it.
ClaimStaleFails(s) ==
  /\ step[s] = "voiding"
  /\ \E fate \in May("claim") \ {"ok"}, p \in todo[s] :
       IF fate = "unacked" /\ status[p] \in Bettable
       THEN /\ status' = [status EXCEPT ![p] = "VOIDED"]
            /\ basis' = [basis EXCEPT ![p] = ReadOf(s, p)]
       ELSE UNCHANGED <<status, basis>>
  /\ todo' = [todo EXCEPT ![s] = {}]
  /\ StepTo(s, "idle")
  /\ UNCHANGED <<ingestVars, clock, created, payout, bpc, journal, seen, order, cur>>

EndOfSweep(s) ==
  /\ step[s] = "voiding"
  /\ todo[s] = {}
  /\ StepTo(s, "idle")
  /\ UNCHANGED <<ingestVars, clock, tables, bpc, journal, todo, seen, order, cur>>

\* A worker's process dies: its handler never answers, its sweep is lost.
WorkerCrash(w) ==
  /\ \/ step[w] \in Crashes \ {"idle", "ended"}
     \/ w \in Reports /\ pc[w] = "settle" /\ "settle" \in Crashes
  /\ StepTo(w, IF w \in Sweeps THEN "idle" ELSE "ended")
  /\ todo' = [todo EXCEPT ![w] = {}]
  /\ cur' = [cur EXCEPT ![w] = NoPool]
  /\ IF w \in Reports THEN pc' = [pc EXCEPT ![w] = "broken"] ELSE UNCHANGED pc
  /\ UNCHANGED <<race, room, found, left, clock, tables, bpc, journal, seen, order>>

-----------------------------------------------------------------------------
BetStep(b) == ReadPool(b) \/ PostStake(b) \/ CreateBet(b) \/ ReturnStake(b)

Settle(w) ==
  \/ EndOfLoop(w) \/ FinishReport(w) \/ MarkVoided(w) \/ PostRefund(w)
  \/ PostPayout(w) \/ Reopen(w) \/ WriteRows(w)
  \/ \E p \in Pools : Claim(w, p)

Sweep(s) ==
  \/ CollectEnded(s) \/ CollectStale(s) \/ ClaimStaleFails(s) \/ EndOfSweep(s)
  \/ \E p \in Pools : ClaimStale(s, p)

BettingNext ==
  \/ IngestStep /\ UNCHANGED <<clock, tables, bpc, journal, workers>>
  \/ \E b \in Bets : BetStep(b) \/ BetCrash(b)
  \/ \E i \in Reports : CollectByReport(i)
  \/ \E w \in Workers : Settle(w) \/ WorkerCrash(w)
  \/ \E s \in Sweeps : Sweep(s)
  \/ LockPools \/ Tick

BettingSpec == InitBetting /\ [][BettingNext]_vars

-----------------------------------------------------------------------------
(* Fairness: the code of a process that lives goes on, the sweep timer     *)
(* keeps firing, time passes; a payout is not refused by the ledger at     *)
(* every attempt.                                                          *)
BettingFairness ==
  /\ WF_vars(Tick)
  /\ \A b \in Bets : WF_vars(bpc[b] # "idle" /\ BetStep(b))
  /\ \A w \in Workers : WF_vars((w \in Reports /\ CollectByReport(w)) \/ Settle(w))
  /\ \A s \in Sweeps : WF_vars(Sweep(s))
  /\ \A i \in Reports :
       WF_vars(HandlerStep(i) /\ UNCHANGED <<clock, tables, bpc, journal, workers>>)
  /\ \A p \in Pools :
       SF_vars(\E w \in Workers : cur[w] = p /\ PostPayout(w) /\ step'[w] = "payout-rows")

FairBettingSpec == BettingSpec /\ BettingFairness

-----------------------------------------------------------------------------
(* Properties.                                                             *)

\* Every variable of this module has its type.
BettingTypeOK ==
  /\ clock \in 0..2
  /\ status \in [Pools -> {"OPEN", "LOCKED", "SETTLED", "VOIDED"}]
  /\ bpc \in [Bets -> {"idle", "stake", "create", "return", "done"}]
  /\ {created, staked, returned} \subseteq SUBSET Bets
  /\ payout \in [Bets -> Nat \cup {-1}]
  /\ basis \in [Pools -> [bets : SUBSET Bets, order : [Racers -> 0..8]]]
  /\ {settled, voided} \subseteq SUBSET Pools
  /\ won \in [Bets -> Nat]
  /\ refunded \in [Bets -> Nat]
  /\ step \in [Workers -> {"idle", "settling", "finish", "ended", "mark", "refund", "refund-rows",
                           "payout", "payout-rows", "reopen", "stale", "voiding",
                           "void-refund", "void-rows"}]
  /\ todo \in [Workers -> SUBSET Pools]
  /\ seen \in [Workers -> SUBSET Bets]
  /\ order \in [Workers -> [Racers -> 0..8]]
  /\ cur \in [Workers -> Pools \cup {NoPool}]

\* A pool is paid out or refunded, never both, whoever settles it: "idempotent
\* per pool via the status guard + ledger idempotency keys".
SettledOnce == \A p \in Pools : p \notin settled \cap voided

Given == [b \in Bets |-> won[b] + refunded[b]]

\* A pool never gives more than was staked in it.
PoolCovers == \A p \in Pools :
  SumOf(Given, {b \in Bets : Pool[b] = p}) <= Sum(staked \cap {b \in Bets : Pool[b] = p})

\* Nobody bets for free: the row of a bet stands for a stake that was taken and
\* not given back outside its pool: "money and bets can never disagree".
RowsAreStaked == created \subseteq staked \ returned

\* What a bet's row says was paid is what the ledger paid for its pool.
RowsAreTrue == \A b \in created : payout[b] # -1 =>
  \/ Pool[b] \in settled /\ payout[b] = won[b]
  \/ Pool[b] \in voided /\ payout[b] = refunded[b]

\* The bets' rows, the pools and the ledger agree on who has staked and was paid.
BooksAgree == SettledOnce /\ RowsAreStaked /\ RowsAreTrue

\* The winners share the pool after the rake, down to less than one credit each,
\* at the same odds: "the pool IS the odds", "the flooring remainder stays with
\* the house".  The pool is the bets that were read before it was claimed: a bet
\* whose row came after that read is neither in the pot nor among the winners.
SharesAreFair == \A p \in settled :
  LET pot == basis[p].bets
      paid == {b \in Bets : Pool[b] = p /\ won[b] > 0}
      rest == Sum(pot) - Rake(pot) - SumOf(won, paid)
  IN  /\ 0 <= rest /\ rest < Cardinality(paid)
      /\ \A a, b \in paid : won[a] * Stake[b] - won[b] * Stake[a] < Stake[a]

\* The racer's place in the report wins the pool.
FinishedFor(r, p) ==
  /\ r \in report.entries
  /\ Cardinality({q \in report.entries : Position[q] < Position[r]}) < IF Kind[p] = "WIN" THEN 1 ELSE 3

\* A settled pool pays nobody but those who backed the first in the report, and all
\* those of them whose bets were read, however little of the order was: "finish order
\* is recovered from the stored participant rows".  Only a podium settled from half
\* the rows passes over those whose racer had no position yet.
PaidByFinish == \A b \in Bets : LET p == Pool[b] IN p \in settled =>
  /\ won[b] > 0 => FinishedFor(Selection[b], p)
  /\ b \in basis[p].bets /\ FinishedFor(Selection[b], p)
     /\ (Kind[p] = "WIN" \/ Selection[b] \in Ranked(basis[p].order)) => won[b] > 0

\* A pool pays the right bets, at fair odds, out of what it holds.
PaidRightly == BettingTypeOK /\ PaidByFinish /\ SharesAreFair /\ PoolCovers

\* The pool was claimed by somebody who had read its bets before this one had a row.
LeftOut(b) == status[Pool[b]] \in {"SETTLED", "VOIDED"} /\ b \notin basis[Pool[b]].bets

\* Every bet is settled in the end, by ingestion, by the sweeper after a failed
\* payout, or by the refund of a race that never reports: "failures are retried
\* by the betting sweeper".  Only a bet that came after its pool was read is not, for
\* good, if that claim stands.
EveryBetSettles == \A b \in Bets : b \in created ~> payout[b] >= 0 \/ []LeftOut(b)

\* When placeBet has returned or thrown, a stake that was taken stands in a bet
\* or is back.
StakesReturn == \A b \in staked : bpc[b] = "done" => b \in created \cup returned
=============================================================================
