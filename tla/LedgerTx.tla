----------------------------- MODULE LedgerTx -----------------------------
(***************************************************************************)
(* LedgerService.post (apps/api/src/economy/ledger.service.ts): the double *)
(* entry journal of Credits and USDC, over Postgres transactions at        *)
(* Serializable isolation, retried on P2034.  One currency is modelled:    *)
(* balances of different currencies never meet.                            *)
(*                                                                         *)
(* The table ledgerEntry is abstracted to what a query can see of it: the  *)
(* idempotency keys it holds and each account's sum.  A journal's legs are *)
(* given per account: no caller passes two debit legs for one player, so   *)
(* the check of the code, leg by leg, is a check of Debit.                 *)
(***************************************************************************)
EXTENDS Integers, FiniteSetsExt

CONSTANTS
  Players,
  House,           \* playerId = null
  Journals,        \* idempotency keys, each with the legs its callers pass
  Debit, Credit,   \* per journal and account
  Calls,           \* calls of post
  MaxAttempts      \* attempt < 3: the last attempt has this number

Accounts == Players \cup {House}

ASSUME JournalAssumption ==
  /\ House \notin Players
  /\ Debit \in [Journals -> [Accounts -> Nat]]
  /\ Credit \in [Journals -> [Accounts -> Nat]]

ASSUME AttemptAssumption == MaxAttempts \in Nat

VARIABLES
  bal,       \* per account, the sum of its entries
  posted,    \* journals with entries in the table
  pc,        \* per call: "idle", "begin", "commit", "done"
  job,       \* the journal it posts
  attempt,
  since,     \* journals committed after its transaction took its snapshot
  reply      \* "ok", or the error it throws

table == <<bal, posted>>
vars == <<bal, posted, pc, job, attempt, since, reply>>

Init ==
  /\ bal = [a \in Accounts |-> 0]
  /\ posted = {}
  /\ pc = [p \in Calls |-> "idle"]
  /\ job \in [Calls -> Journals]
  /\ attempt = [p \in Calls |-> 0]
  /\ since = [p \in Calls |-> {}]
  /\ reply = [p \in Calls |-> "none"]

-----------------------------------------------------------------------------
Total(f) == MapThenSumSet(LAMBDA a : f[a], Accounts)

\* The legs sum to zero.
Balanced(j) == Total(Credit[j]) = Total(Debit[j])

Overdraws(j) == \E a \in Players : Debit[j][a] > 0 /\ bal[a] < Debit[j][a]

Return(p, answer) ==
  /\ pc' = [pc EXCEPT ![p] = "done"]
  /\ reply' = [reply EXCEPT ![p] = answer]
  /\ UNCHANGED <<job, attempt, since>>

\* An unbalanced journal is refused before the database is touched.
Call(p) ==
  /\ pc[p] = "idle"
  /\ UNCHANGED table
  /\ IF Balanced(job[p])
     THEN /\ pc' = [pc EXCEPT ![p] = "begin"]
          /\ UNCHANGED <<job, attempt, since, reply>>
     ELSE Return(p, "unbalanced")

\* The transaction takes its snapshot and reads in it the balance of every
\* player it debits.
Begin(p) ==
  /\ pc[p] = "begin"
  /\ UNCHANGED table
  /\ IF Overdraws(job[p])
     THEN Return(p, "insufficient")
     ELSE /\ pc' = [pc EXCEPT ![p] = "commit"]
          /\ since' = [since EXCEPT ![p] = {}]
          /\ UNCHANGED <<job, attempt, reply>>

\* Another transaction that this one did not see read and wrote an account that
\* this one read and writes: Postgres aborts the later of the two.
Conflict(p) ==
  \E i \in since[p], a \in Players : Debit[i][a] > 0 /\ Debit[job[p]][a] > 0

Apply(p) ==
  /\ bal' = [a \in Accounts |-> bal[a] + Credit[job[p]][a] - Debit[job[p]][a]]
  /\ posted' = posted \cup {job[p]}
  /\ since' = [q \in Calls |-> since[q] \cup {job[p]}]

\* Mutant of Commit: the isolation level is left at its default.
CommitReadCommitted(p) ==
  /\ pc[p] = "commit"
  /\ job[p] \notin posted
  /\ Apply(p)
  /\ pc' = [pc EXCEPT ![p] = "done"]
  /\ \E answer \in {"ok", "fault"} : reply' = [reply EXCEPT ![p] = answer]
  /\ UNCHANGED <<job, attempt>>

\* createMany and COMMIT.  The connection may be lost after the commit: then
\* the caller sees an error for a journal that is posted.
Commit(p) ==
  /\ pc[p] = "commit"
  /\ job[p] \notin posted
  /\ ~Conflict(p)
  /\ Apply(p)
  /\ pc' = [pc EXCEPT ![p] = "done"]
  /\ \E answer \in {"ok", "fault"} : reply' = [reply EXCEPT ![p] = answer]
  /\ UNCHANGED <<job, attempt>>

\* P2002: the unique idempotencyKey is taken, so this journal is posted already.
Duplicate(p) ==
  /\ pc[p] = "commit"
  /\ job[p] \in posted
  /\ UNCHANGED table
  /\ Return(p, "ok")

\* Mutants of Abort: attempts are not counted; the last abort is swallowed.
AbortWithoutCount(p) ==
  /\ pc[p] \in {"begin", "commit"}
  /\ UNCHANGED table
  /\ pc' = [pc EXCEPT ![p] = "begin"]
  /\ UNCHANGED <<job, attempt, since, reply>>

AbortSwallowed(p) ==
  /\ pc[p] \in {"begin", "commit"}
  /\ UNCHANGED table
  /\ IF attempt[p] < MaxAttempts
     THEN /\ pc' = [pc EXCEPT ![p] = "begin"]
          /\ attempt' = [attempt EXCEPT ![p] = @ + 1]
          /\ UNCHANGED <<job, since, reply>>
     ELSE Return(p, "ok")

\* P2034: the transaction is aborted, for a conflict or for one that Postgres
\* suspects (its locks are coarser than the rows read), at a read or at the
\* commit; it is tried again, with a new snapshot, while attempts are left.
Abort(p) ==
  /\ pc[p] \in {"begin", "commit"}
  /\ UNCHANGED table
  /\ IF attempt[p] < MaxAttempts
     THEN /\ pc' = [pc EXCEPT ![p] = "begin"]
          /\ attempt' = [attempt EXCEPT ![p] = @ + 1]
          /\ UNCHANGED <<job, since, reply>>
     ELSE Return(p, "conflict")

\* The process crashes, the transaction times out, or the connection is lost
\* before the commit.
Fault(p) ==
  /\ pc[p] \in {"begin", "commit"}
  /\ UNCHANGED table
  /\ Return(p, "fault")

Step(p) == Call(p) \/ Begin(p) \/ Commit(p) \/ Duplicate(p) \/ Abort(p) \/ Fault(p)

Next == \E p \in Calls : Step(p)

\* A call of post may never be made; one that is made is not abandoned.
Fairness == \A p \in Calls : WF_vars(pc[p] # "idle" /\ Step(p))

Spec == Init /\ [][Next]_vars
FairSpec == Spec /\ Fairness

-----------------------------------------------------------------------------
(* Properties.                                                             *)

\* Every variable has its type.
TypeOK ==
  /\ bal \in [Accounts -> Int]
  /\ posted \in SUBSET Journals
  /\ pc \in [Calls -> {"idle", "begin", "commit", "done"}]
  /\ job \in [Calls -> Journals]
  /\ attempt \in [Calls -> 0..MaxAttempts]
  /\ since \in [Calls -> SUBSET Journals]
  /\ reply \in [Calls -> {"none", "ok", "unbalanced", "insufficient", "conflict", "fault"}]

\* No interleaving of concurrent spends drives a player's balance below zero:
\* "two concurrent spends from the same balance cannot both read the old sum".
NonNegative == \A a \in Players : bal[a] >= 0

\* A call that returns normally has its journal in the ledger, also when all
\* its attempts but the last were aborted.
OkMeansPosted == \A p \in Calls : reply[p] = "ok" => job[p] \in posted

\* Every call of post ends, whatever is aborted: the retries are bounded.
PostEnds == \A p \in Calls : pc[p] = "begin" ~> pc[p] = "done"

\* The transactions implement the atomic ledger.
LedgerAbs == INSTANCE Ledger WITH acked <- {job[p] : p \in {q \in Calls : reply[q] = "ok"}}

ImplementsLedger == LedgerAbs!Spec
=============================================================================
