----------------------------- MODULE Tournament -----------------------------
(***************************************************************************)
(* One tournament from registration to its prizes: TournamentsService      *)
(* (apps/api/src/tournaments).  The ledger is the registration record, so  *)
(* the entries are the journals tournament-entry:<t>:<player>.  Calls are  *)
(* interleaved at their awaits; a post may fail, or succeed and lose its   *)
(* answer (Faults), and a process may die.                                 *)
(***************************************************************************)
EXTENDS Calls, Sequences, FiniteSets

CONSTANTS
  Entrants,     \* the players who may register
  EntryFee,
  BracketSize,  \* 4 to 64 in the code
  Rankings      \* what an operator may pass to settle

ASSUME TournamentAssumption ==
  /\ EntryFee \in Nat /\ BracketSize \in Nat \ {0}
  /\ Entrants \subseteq Players /\ Rankings \subseteq Seq(Players)
  /\ IsFiniteSet(Threads)

VARIABLES
  status,       \* tournament.status
  entries,      \* players whose entry is in the ledger
  payout,       \* the ranking in the journal tournament-payout:<t>, or <<>>
  prize,        \* per position, whom the payment usdc-prize:<t>:pos-<i> paid
  unackedPayout,    \* ghost: a payout was posted and its answer lost
  settlerDied,      \* ghost: a settling process died
  inTime            \* ghost: who had registered when settle first closed the registration

tournamentVars == <<status, entries, payout, prize, call, unackedPayout, settlerDied, inTime>>

InitTournament ==
  /\ status = "REGISTRATION"
  /\ entries = {}
  /\ payout = <<>>
  /\ prize = [i \in 1..3 |-> Nobody]
  /\ InitCalls
  /\ unackedPayout = FALSE /\ settlerDied = FALSE /\ inTime = {}

-----------------------------------------------------------------------------
(* register.                                                               *)
RegisterRead(t, p) ==
  /\ status = "REGISTRATION"
  /\ Begin(t, [at |-> "count", who |-> p])
  /\ UNCHANGED <<status, entries, payout, prize, unackedPayout, settlerDied, inTime>>

BracketFull == Cardinality(entries) >= BracketSize

RegisterCheck(t) ==
  /\ At(t, "count")
  /\ IF call[t].who \in entries \/ BracketFull THEN End(t) ELSE Goto(t, "enter")
  /\ UNCHANGED <<status, entries, payout, prize, unackedPayout, settlerDied, inTime>>

\* The fee is posted, once per player, or refused.
RegisterPost(t) ==
  /\ At(t, "enter")
  /\ entries' \in {entries, entries \cup {call[t].who}}
  /\ End(t)
  /\ UNCHANGED <<status, payout, prize, unackedPayout, settlerDied, inTime>>

-----------------------------------------------------------------------------
(* settle.                                                                 *)

\* No duplicates, as many as have paid, and all of those who have paid.
Orders(ranking, paid) ==
  LET ranked == {ranking[i] : i \in DOMAIN ranking} IN
  /\ Cardinality(ranked) = Len(ranking)
  /\ Len(ranking) = Cardinality(paid)
  /\ paid \subseteq ranked

\* The status is not asked for: an operator may settle a tournament at any time.
SettleRead(t, ranking) ==
  /\ entries # {}
  /\ Orders(ranking, entries)
  /\ Begin(t, [at |-> "settle", ranking |-> ranking])
  /\ UNCHANGED <<status, entries, payout, prize, unackedPayout, settlerDied, inTime>>

Unsettled == status # "SETTLED"

ClaimTournament(t) ==
  /\ At(t, "settle")
  /\ IF Unsettled THEN status' = "SETTLED" /\ Goto(t, "payout")
                  ELSE End(t) /\ UNCHANGED status
  /\ inTime' = IF Unsettled /\ inTime = {} THEN entries ELSE inTime
  /\ UNCHANGED <<entries, payout, prize, unackedPayout, settlerDied>>

PrizeSplitBps == <<5000, 3000, 1500, 500>>

\* What the i-th of n gets; the remainder stays with the house.
Prize(i, n) == (EntryFee * n * PrizeSplitBps[i]) \div 10000

\* The payout is posted, unless an earlier settle posted one; or it is not; the
\* caller takes a lost answer for a failure.
PostPayout(t) ==
  /\ At(t, "payout")
  /\ \/ Goto(t, "rollback") /\ UNCHANGED <<payout, unackedPayout>>
     \/ /\ payout' = IF payout = <<>> THEN call[t].ranking ELSE payout
        /\ \/ /\ call' = [call EXCEPT ![t] =
                   [at |-> "disperse", ranking |-> call[t].ranking, next |-> 1]]
              /\ UNCHANGED unackedPayout
           \/ "lost" \in Faults /\ unackedPayout' = TRUE /\ Goto(t, "rollback")
  /\ UNCHANGED <<status, entries, prize, settlerDied, inTime>>

\* Mutant of AfterFailure: the tournament is open again.
AfterFailureOpen == "REGISTRATION"

AfterFailure == "RUNNING"

RollBack(t) ==
  /\ At(t, "rollback")
  /\ status' = IF status = "SETTLED" THEN AfterFailure ELSE status
  /\ End(t)
  /\ UNCHANGED <<entries, payout, prize, unackedPayout, settlerDied, inTime>>

\* disperseUsdcPrizes, behind the caller's back: a prize is paid (if its key is
\* new, see module Payment), or rejected, or the call throws and ends the loop.
Disperse(t) == LET i == call[t].next IN
  /\ At(t, "disperse")
  /\ \/ End(t) /\ UNCHANGED prize
     \/ /\ prize' \in {prize, [prize EXCEPT ![i] = IF @ = Nobody THEN call[t].ranking[i] ELSE @]}
        /\ IF i < 3 /\ i < Len(call[t].ranking)
           THEN call' = [call EXCEPT ![t].next = i + 1]
           ELSE End(t)
  /\ UNCHANGED <<status, entries, payout, unackedPayout, settlerDied, inTime>>

\* The process of a call dies between two steps.
CrashTournament(t) ==
  /\ "crash" \in Faults
  /\ call[t] # Idle
  /\ End(t)
  /\ settlerDied' = (settlerDied \/ call[t].at \in {"payout", "rollback"})
  /\ UNCHANGED <<status, entries, payout, prize, unackedPayout, inTime>>

NextTournament == \E t \in Threads :
  \/ \E p \in Entrants : RegisterRead(t, p)
  \/ RegisterCheck(t) \/ RegisterPost(t)
  \/ \E ranking \in Rankings : SettleRead(t, ranking)
  \/ ClaimTournament(t) \/ PostPayout(t) \/ RollBack(t) \/ Disperse(t) \/ CrashTournament(t)

SpecTournament == InitTournament /\ [][NextTournament]_tournamentVars

-----------------------------------------------------------------------------
(* Properties.                                                             *)
Settling(t) == call[t].at \in {"payout", "rollback"}
PaidCredits == {payout[i] : i \in DOMAIN payout}
PaidTo(i) == IF i <= Len(payout) THEN Prize(i, Len(payout)) ELSE 0

\* Every variable has its type; nobody is in the payout twice.
TournamentTypeOK ==
  /\ status \in {"REGISTRATION", "SETTLED", "RUNNING"}
  /\ entries \subseteq Players /\ inTime \subseteq entries
  /\ payout \in Rankings \cup {<<>>} /\ \A i, j \in DOMAIN payout : payout[i] = payout[j] => i = j
  /\ prize \in [1..3 -> Players \cup {Nobody}]

\* The bracket is overfilled by at most the registrations that were under way when
\* it became full: the entries are counted before the fee is posted.
BracketHolds == Cardinality(entries) <= BracketSize + Cardinality(Threads) - 1

\* Late fees: once a settle call has closed the registration, fees come in only from
\* registrations that were under way: nobody registers anew, whatever fails later.
LateEntries ==
  inTime # {} => Cardinality(entries \ inTime) <= Cardinality(Threads) - 1

\* "The caller cannot inflate" the pool: the prizes never exceed the fees that were
\* paid, and only those who paid get any.
PoolCovers ==
  /\ PaidTo(1) + PaidTo(2) + PaidTo(3) + PaidTo(4) <= EntryFee * Cardinality(entries)
  /\ PaidCredits \subseteq entries

\* "Exactly one settle call wins": one settlement at a time, and a settled
\* tournament has been paid out, unless the settling process died.
SettledMeansPaid ==
  /\ \A t, u \in Threads : Settling(t) /\ Settling(u) => t = u
  /\ status = "SETTLED" /\ ~settlerDied => payout # <<>> \/ \E t \in Threads : Settling(t)

\* The treasury's bonus follows the ranking that the credits were paid by, one
\* position per player, unless the answer of a payout was lost.
PrizesFollowPayout == \A i \in 1..3 : prize[i] # Nobody =>
  /\ prize[i] \in entries
  /\ ~unackedPayout => payout[i] = prize[i]
  /\ \A j \in 1..3 : prize[j] = prize[i] => i = j

\* Registrations and settlements that overlap, fail or die keep the bracket, the fees,
\* the prizes and their ranking together.
TournamentInv ==
  /\ TournamentTypeOK /\ BracketHolds /\ LateEntries /\ PoolCovers
  /\ SettledMeansPaid /\ PrizesFollowPayout
=============================================================================
