----------------------------- MODULE BettingInv -----------------------------
(***************************************************************************)
(* The inductive invariant behind the safety properties of Betting, for    *)
(* payouts and creations of bets whose failure has no hidden effect.       *)
(*                                                                         *)
(* The argument.  A claim succeeds only on a pool that is OPEN or LOCKED,  *)
(* and leaves it SETTLED or VOIDED; so a pool has one owner at a time, and *)
(* its status says what the owner is about to post.  A pool whose journal  *)
(* is posted has no owner that would post another one, nor reopen it.      *)
(***************************************************************************)
EXTENDS Betting

Certain == {"payout", "create"} \cap Unacked = {}

Paying == {"mark", "payout", "payout-rows", "reopen"}
Refunding == {"refund", "refund-rows", "void-refund", "void-rows"}
Owning == Paying \cup Refunding
Moving == {"idle", "settling", "finish", "ended", "stale", "voiding"}

\* What the actions need to know of the types.
Shapes ==
  /\ status \in [Pools -> {"OPEN", "LOCKED", "SETTLED", "VOIDED"}]
  /\ bpc \in [Bets -> {"idle", "stake", "create", "return", "done"}]
  /\ position \in [Racers -> 0..8]
  /\ step \in [Workers -> Owning \cup Moving]
  /\ seen \in [Workers -> SUBSET Bets]
  /\ created \subseteq Bets
  /\ order \in [Workers -> [Racers -> 0..8]]
  /\ cur \in [Workers -> Pools \cup {NoPool}]

\* A bet's row appears after its stake, and its stake goes back only when there
\* is no row.
BetInv ==
  \A b \in Bets :
    /\ bpc[b] \in {"idle", "stake"} => b \notin created \cup returned
    /\ bpc[b] = "create" => b \in staked /\ b \notin created \cup returned
    /\ bpc[b] = "return" => b \in staked /\ b \notin created
    /\ b \in created => b \in staked /\ b \notin returned

\* A worker owns a pool, alone, while it settles it, and the pool's status says
\* for what.
OwnerInv ==
  \A w \in Workers :
    /\ cur[w] # NoPool <=> step[w] \in Owning
    /\ step[w] \in Paying => status[cur[w]] = "SETTLED"
    /\ step[w] \in Refunding => status[cur[w]] = "VOIDED"
    /\ \A v \in Workers : cur[v] = cur[w] /\ cur[v] # NoPool => v = w

\* A journal that is posted is final: nobody is about to undo it or add another.
JournalInv ==
  \A p \in Pools :
    /\ p \in settled =>
         /\ status[p] = "SETTLED"
         /\ \A w \in Workers : cur[w] = p => step[w] = "payout-rows"
    /\ p \in voided =>
         /\ status[p] = "VOIDED"
         /\ \A w \in Workers : cur[w] = p => step[w] \in {"refund-rows", "void-rows"}

\* Whoever writes rows writes what the journal of the pool says.
WriterInv ==
  \A w \in Workers :
    /\ step[w] = "payout-rows" =>
         /\ cur[w] \in settled
         /\ \A b \in SeenIn(w, cur[w]) : won[b] = Share(w, b)
    /\ step[w] \in {"refund-rows", "void-rows"} =>
         /\ cur[w] \in voided
         /\ \A b \in SeenIn(w, cur[w]) : refunded[b] = Stake[b]

RowInv ==
  \A b \in Bets : payout[b] # -1 =>
    \/ Pool[b] \in settled /\ payout[b] = won[b]
    \/ Pool[b] \in voided /\ payout[b] = refunded[b]

IInv == Shapes /\ BetInv /\ OwnerInv /\ JournalInv /\ WriterInv /\ RowInv

-----------------------------------------------------------------------------
(* The invariant behind the payouts, whatever bets come late and however   *)
(* much of the finish order has been stored when it is read.               *)
(*                                                                         *)
(* The argument.  The handlers store the report's entries by position, so  *)
(* what anybody reads is the top of the finish order: it ranks the racers  *)
(* it has as the report does, and misses the last.  Who settles has read   *)
(* bets that have rows, and pays by what it had read when it claimed the   *)
(* pool; nobody claims the pool after it is paid.                          *)

\* The least bet of the code, at any rake that is near the usual one, is worth more
\* than what flooring may take.
StakesCount == \A b \in Bets : Stake[b] * (10000 - RakeBps) >= 10000

\* The order ranks the first of those who are reported, by their positions, and nobody
\* else.
TopPlaces(entries, f) ==
  /\ f \in [Racers -> 0..8]
  /\ \A r \in Racers : f[r] > 0 => r \in entries /\ f[r] = Position[r]
  /\ \A q, r \in entries : f[r] > 0 /\ Position[q] < Position[r] => f[q] > 0

\* The stored positions are the first of the report's, up to what a handler has still
\* to store.
StoredInv ==
  /\ TopPlaces(report.entries, position)
  /\ DOMAIN pc = Reports
  /\ DOMAIN left = Reports
  /\ \A i \in Reports : pc[i] = "upsert" =>
       /\ left[i] \subseteq report.entries
       /\ \A r \in report.entries \ left[i] : position[r] > 0

\* What a worker has read: bets with rows and the first of the finish order; and the pool it
\* owns is settled by that.
HasRead(w) ==
  /\ seen[w] \subseteq created
  /\ TopPlaces(report.entries, order[w])
  /\ step[w] \in Owning => basis[cur[w]] = ReadOf(w, cur[w])
  /\ step[w] \in {"payout", "payout-rows", "reopen"} => Backers(w, cur[w]) # {}

ReadAll == \A w \in Workers : HasRead(w)

BasisInv == \A p \in Pools :
  /\ basis[p].bets \subseteq Placed(p)
  /\ TopPlaces(report.entries, basis[p].order)

\* What a settled pool pays, by the bets and the order it was claimed with.
Winning(p) == {b \in basis[p].bets : Selection[b] \in Winners(basis[p].order, p)}
Pot(p) == Sum(basis[p].bets) - Rake(basis[p].bets)
FinalShare(b) ==
  IF b \in Winning(Pool[b]) THEN (Pot(Pool[b]) * Stake[b]) \div Sum(Winning(Pool[b])) ELSE 0

PaidShares ==
  /\ \A p \in settled : Winning(p) # {}
  /\ \A b \in Bets : won[b] = IF Pool[b] \in settled THEN FinalShare(b) ELSE 0

\* What is refunded is a stake that stands in a bet.
RefundedStakes == \A b \in Bets :
  refunded[b] # 0 => Pool[b] \in voided /\ b \in created /\ refunded[b] = Stake[b]

FairInv ==
  /\ report \in Races
  /\ IInv /\ BettingTypeOK
  /\ StoredInv /\ ReadAll /\ BasisInv /\ PaidShares /\ RefundedStakes

\* A stake is taken on the way to a bet or back.
StakeInv == \A b \in Bets :
  /\ bpc[b] \in {"idle", "stake"} => b \notin staked
  /\ bpc[b] = "done" /\ b \in staked => b \in created \cup returned
=============================================================================
