--------------------------- MODULE LedgerTxProof ---------------------------
(* Theorems about LedgerTx: its types, that no player is overdrawn, that a   *)
(* normal return is true, and that it implements Ledger.                    *)
EXTENDS LedgerTx, TLAPS

\* What a transaction read still holds, or a debit it did not see was committed.
ReadInv == \A p \in Calls : pc[p] = "commit" =>
  \A a \in Players : Debit[job[p]][a] > 0 =>
    \/ Debit[job[p]][a] <= bal[a]
    \/ \E i \in since[p] : Debit[i][a] > 0

\* A call that has not returned has no reply.
ReplyInv == \A p \in Calls : pc[p] # "done" => reply[p] = "none"

IInv == TypeOK /\ NonNegative /\ OkMeansPosted /\ ReadInv /\ ReplyInv

\* Legs are natural numbers.
LEMMA LegTypes ==
  ASSUME NEW j \in Journals, NEW a \in Accounts
  PROVE  Debit[j][a] \in Nat /\ Credit[j][a] \in Nat
BY JournalAssumption

-----------------------------------------------------------------------------
\* The initial states satisfy the types.
LEMMA InitType == Init => TypeOK
BY AttemptAssumption DEF Init, TypeOK

\* A step of a call keeps the types.
LEMMA NextType == TypeOK /\ [Next]_vars => TypeOK'
<1> SUFFICES ASSUME TypeOK, [Next]_vars PROVE TypeOK'
  OBVIOUS
<1> USE DEF TypeOK
<1>1. ASSUME NEW p \in Calls, Call(p) PROVE TypeOK'
  BY <1>1 DEF Call, Return, table
<1>2. ASSUME NEW p \in Calls, Begin(p) PROVE TypeOK'
  BY <1>2 DEF Begin, Return, table
<1>3. ASSUME NEW p \in Calls, Commit(p) PROVE TypeOK'
  <2>1. bal' \in [Accounts -> Int]
    BY <1>3, LegTypes DEF Commit, Apply
  <2>2. posted' \in SUBSET Journals /\ since' \in [Calls -> SUBSET Journals]
    BY <1>3 DEF Commit, Apply
  <2> QED
    BY <1>3, <2>1, <2>2 DEF Commit
<1>4. ASSUME NEW p \in Calls, Duplicate(p) PROVE TypeOK'
  BY <1>4 DEF Duplicate, Return, table
<1>5. ASSUME NEW p \in Calls, Abort(p) PROVE TypeOK'
  BY <1>5, AttemptAssumption DEF Abort, Return, table
<1>6. ASSUME NEW p \in Calls, Fault(p) PROVE TypeOK'
  BY <1>6 DEF Fault, Return, table
<1>7. CASE UNCHANGED vars
  BY <1>7 DEF vars
<1> QED
  BY <1>1, <1>2, <1>3, <1>4, <1>5, <1>6, <1>7 DEF Next, Step

\* Every variable keeps its type; the attempts stay within their bound.
THEOREM TypeCorrect == Spec => []TypeOK
BY InitType, NextType, PTL DEF Spec

-----------------------------------------------------------------------------
\* The initial states satisfy the invariant.
LEMMA InitInv == Init => IInv
BY InitType DEF Init, IInv, NonNegative, OkMeansPosted, ReadInv, ReplyInv, Accounts

\* A committing transaction finds every player it debits able to pay.
LEMMA CommitCovered ==
  ASSUME IInv, NEW p \in Calls, Commit(p), NEW a \in Players
  PROVE  Debit[job[p]][a] <= bal[a]
<1>1. job[p] \in Journals /\ a \in Accounts
  BY DEF IInv, TypeOK, Accounts
<1>2. Debit[job[p]][a] \in Nat /\ bal[a] \in Int
  BY <1>1, LegTypes DEF IInv, TypeOK
<1>3. CASE Debit[job[p]][a] > 0
  BY <1>3 DEF IInv, ReadInv, Commit, Conflict
<1>4. CASE Debit[job[p]][a] = 0
  BY <1>1, <1>4 DEF IInv, NonNegative
<1> QED
  BY <1>2, <1>3, <1>4

\* A commit keeps the invariant: the journal is covered, and a transaction that
\* read a balance it lowers has it among the commits it did not see.
LEMMA CommitInv ==
  ASSUME IInv, TypeOK', NEW p \in Calls, Commit(p)
  PROVE  IInv'
<1> DEFINE j == job[p]
<1>1. j \in Journals
  BY DEF IInv, TypeOK
<1>2. \A a \in Accounts : bal'[a] = bal[a] + Credit[j][a] - Debit[j][a]
  BY DEF Commit, Apply
<1>3. \A a \in Players : /\ bal[a] \in Int
                         /\ Debit[j][a] \in Nat /\ Credit[j][a] \in Nat
                         /\ bal'[a] = bal[a] + Credit[j][a] - Debit[j][a]
  BY <1>1, <1>2, LegTypes DEF Accounts, IInv, TypeOK
<1>4. NonNegative'
  BY <1>3, CommitCovered DEF NonNegative
<1>5. OkMeansPosted'
  BY DEF Commit, Apply, IInv, TypeOK, OkMeansPosted
<1>6. ReadInv'
  <2> SUFFICES ASSUME NEW q \in Calls, pc'[q] = "commit",
                      NEW a \in Players, Debit[job'[q]][a] > 0
               PROVE  \/ Debit[job'[q]][a] <= bal'[a]
                      \/ \E i \in since'[q] : Debit[i][a] > 0
    BY DEF ReadInv
  <2>1. /\ q # p /\ pc[q] = "commit" /\ job' = job
        /\ since'[q] = since[q] \cup {j}
    BY DEF Commit, Apply, IInv, TypeOK
  <2>2. CASE Debit[j][a] > 0
    BY <2>1, <2>2
  <2>3. CASE ~(Debit[j][a] > 0)
    <3>1. bal[a] <= bal'[a] /\ bal[a] \in Int /\ bal'[a] \in Int
      BY <1>3, <2>3
    <3>2. Debit[job[q]][a] \in Nat
      BY LegTypes DEF IInv, TypeOK, Accounts
    <3>3. CASE Debit[job[q]][a] <= bal[a]
      BY <2>1, <3>1, <3>2, <3>3
    <3>4. CASE \E i \in since[q] : Debit[i][a] > 0
      BY <2>1, <3>4
    <3> QED
      BY <2>1, <3>3, <3>4 DEF IInv, ReadInv
  <2> QED
    BY <2>2, <2>3
<1>7. ReplyInv'
  BY DEF Commit, Apply, IInv, TypeOK, ReplyInv
<1> QED
  BY <1>4, <1>5, <1>6, <1>7 DEF IInv

\* Every step keeps the invariant.
LEMMA NextInv == IInv /\ [Next]_vars => IInv'
<1> SUFFICES ASSUME IInv, [Next]_vars PROVE IInv'
  OBVIOUS
<1>0. TypeOK'
  BY NextType DEF IInv
<1> USE DEF IInv, TypeOK, NonNegative, OkMeansPosted, ReadInv, ReplyInv
<1>1. ASSUME NEW p \in Calls, Call(p) PROVE IInv'
  BY <1>0, <1>1 DEF Call, Return, table
<1>2. ASSUME NEW p \in Calls, Begin(p) PROVE IInv'
  <2>1. CASE Overdraws(job[p])
    BY <1>0, <1>2, <2>1 DEF Begin, Return, table
  <2>2. CASE ~Overdraws(job[p])
    <3>1. \A a \in Players : Debit[job[p]][a] > 0 => Debit[job[p]][a] <= bal[a]
      BY <2>2, LegTypes DEF Overdraws, Accounts
    <3> QED
      BY <1>0, <1>2, <2>2, <3>1 DEF Begin, table
  <2> QED
    BY <2>1, <2>2
<1>3. ASSUME NEW p \in Calls, Commit(p) PROVE IInv'
  BY <1>0, <1>3, CommitInv
<1>4. ASSUME NEW p \in Calls, Duplicate(p) PROVE IInv'
  BY <1>0, <1>4 DEF Duplicate, Return, table
<1>5. ASSUME NEW p \in Calls, Abort(p) PROVE IInv'
  BY <1>0, <1>5 DEF Abort, Return, table
<1>6. ASSUME NEW p \in Calls, Fault(p) PROVE IInv'
  BY <1>0, <1>6 DEF Fault, Return, table
<1>7. CASE UNCHANGED vars
  BY <1>0, <1>7 DEF vars
<1> QED
  BY <1>1, <1>2, <1>3, <1>4, <1>5, <1>6, <1>7 DEF Next, Step

LEMMA Invariance == Spec => []IInv
BY InitInv, NextInv, PTL DEF Spec

\* Concurrent spends never overdraw a player, whatever the journals are and
\* however many calls race: "duping is a constraint violation rather than a bug
\* class".
THEOREM NeverOverdrawn == Spec => []NonNegative
BY Invariance, PTL DEF IInv

\* A call that returned normally has its journal in the ledger.
THEOREM RepliesAreTrue == Spec => []OkMeansPosted
BY Invariance, PTL DEF IInv

-----------------------------------------------------------------------------
Ack == {job[p] : p \in {q \in Calls : reply[q] = "ok"}}

\* A call that returns "ok" acknowledges its journal; any other answer of a call
\* that was pending acknowledges nothing.
LEMMA AckChange ==
  ASSUME IInv, NEW p \in Calls, pc[p] # "done", job' = job,
         NEW answer, reply' = [reply EXCEPT ![p] = answer]
  PROVE  Ack' = IF answer = "ok" THEN Ack \cup {job[p]} ELSE Ack
<1>1. reply[p] = "none"
  BY DEF IInv, ReplyInv
<1>2. \A q \in Calls : reply'[q] = IF q = p THEN answer ELSE reply[q]
  BY DEF IInv, TypeOK
<1>3. CASE answer = "ok"
  <2>1. \A q \in Calls : reply'[q] = "ok" <=> (q = p \/ reply[q] = "ok")
    BY <1>2, <1>3
  <2> QED
    BY <1>3, <2>1 DEF Ack
<1>4. CASE answer # "ok"
  <2>1. \A q \in Calls : reply'[q] = "ok" <=> reply[q] = "ok"
    BY <1>1, <1>2, <1>4
  <2> QED
    BY <1>4, <2>1 DEF Ack
<1> QED
  BY <1>3, <1>4

\* The initial states map to the initial state of the atomic ledger.
LEMMA InitSimulation == Init => LedgerAbs!Init
BY DEF Init, LedgerAbs!Init, LedgerAbs!Accounts, Accounts

\* A commit posts its journal in the atomic ledger, acknowledged or not.
LEMMA CommitSimulation ==
  ASSUME IInv, NEW p \in Calls, Commit(p)
  PROVE  LedgerAbs!Next
<1>1. job[p] \in Journals
  BY DEF IInv, TypeOK
<1>2. PICK answer \in {"ok", "fault"} : reply' = [reply EXCEPT ![p] = answer]
  BY DEF Commit
<1>3. Ack' \in {Ack, Ack \cup {job[p]}}
  BY <1>2, AckChange DEF Commit
<1>4. LedgerAbs!Covered(job[p])
  BY CommitCovered DEF LedgerAbs!Covered
<1>5. LedgerAbs!Post(job[p])
  BY <1>3, <1>4 DEF LedgerAbs!Post, LedgerAbs!Accounts, Accounts, Ack, Commit, Apply
<1> QED
  BY <1>1, <1>5 DEF LedgerAbs!Next, LedgerAbs!Post

\* A step that answers without a commit is invisible unless it answers "ok".
LEMMA ReturnSimulation ==
  ASSUME IInv, NEW p \in Calls, pc[p] # "done", UNCHANGED table,
         NEW answer, answer # "ok", Return(p, answer)
  PROVE  UNCHANGED LedgerAbs!vars
<1>1. Ack' = Ack
  BY AckChange DEF Return
<1> QED
  BY <1>1 DEF LedgerAbs!vars, Ack, table

LEMMA QuietSimulation ==
  ASSUME UNCHANGED <<table, job, reply>>
  PROVE  UNCHANGED LedgerAbs!vars
BY DEF LedgerAbs!vars, table

\* Every step of the transactions is a step of the atomic ledger, or none.
LEMMA StepSimulation ==
  ASSUME IInv, [Next]_vars
  PROVE  [LedgerAbs!Next]_(LedgerAbs!vars)
<1>1. ASSUME NEW p \in Calls, Call(p) PROVE UNCHANGED LedgerAbs!vars
  <2>1. pc[p] # "done"
    BY <1>1 DEF Call
  <2>2. CASE Balanced(job[p])
    BY <1>1, <2>2, QuietSimulation DEF Call
  <2>3. CASE ~Balanced(job[p])
    BY <1>1, <2>1, <2>3, ReturnSimulation DEF Call
  <2> QED
    BY <2>2, <2>3
<1>2. ASSUME NEW p \in Calls, Begin(p) PROVE UNCHANGED LedgerAbs!vars
  <2>1. pc[p] # "done"
    BY <1>2 DEF Begin
  <2>2. CASE Overdraws(job[p])
    BY <1>2, <2>1, <2>2, ReturnSimulation DEF Begin
  <2>3. CASE ~Overdraws(job[p])
    BY <1>2, <2>3, QuietSimulation DEF Begin
  <2> QED
    BY <2>2, <2>3
<1>3. ASSUME NEW p \in Calls, Commit(p) PROVE LedgerAbs!Next
  BY <1>3, CommitSimulation
<1>4. ASSUME NEW p \in Calls, Duplicate(p) PROVE LedgerAbs!Next
  <2>1. Ack' = Ack \cup {job[p]}
    BY <1>4, AckChange DEF Duplicate, Return
  <2>2. LedgerAbs!Acknowledge(job[p])
    BY <1>4, <2>1 DEF LedgerAbs!Acknowledge, Ack, Duplicate, table
  <2> QED
    BY <2>2 DEF LedgerAbs!Next, LedgerAbs!Acknowledge, IInv, TypeOK
<1>5. ASSUME NEW p \in Calls, Abort(p) PROVE UNCHANGED LedgerAbs!vars
  <2>1. pc[p] # "done"
    BY <1>5 DEF Abort
  <2>2. CASE attempt[p] < MaxAttempts
    BY <1>5, <2>2, QuietSimulation DEF Abort
  <2>3. CASE ~(attempt[p] < MaxAttempts)
    BY <1>5, <2>1, <2>3, ReturnSimulation DEF Abort
  <2> QED
    BY <2>2, <2>3
<1>6. ASSUME NEW p \in Calls, Fault(p) PROVE UNCHANGED LedgerAbs!vars
  BY <1>6, ReturnSimulation DEF Fault
<1>7. CASE UNCHANGED vars
  BY <1>7, QuietSimulation DEF vars, table
<1> QED
  BY <1>1, <1>2, <1>3, <1>4, <1>5, <1>6, <1>7 DEF Next, Step

\* The retried, concurrent transactions implement the atomic ledger: journals
\* are posted whole, once, and covered.
THEOREM Implementation == Spec => ImplementsLedger
BY InitSimulation, StepSimulation, Invariance, PTL
   DEF Spec, ImplementsLedger, LedgerAbs!Spec
=============================================================================
