------------------------------ MODULE ChainTx ------------------------------
(***************************************************************************)
(* The journal of outgoing USDC payments: ChainTxService.submitUsdcPayment *)
(* with resolveSubmitError (apps/api/src/stellar/chain-tx.service.ts), the *)
(* reconciler that resolves what a request left open                       *)
(* (chain-reconciler.service.ts), and, external, the Stellar network with  *)
(* its Horizon front end as those two use it.                              *)
(*                                                                         *)
(* A request or a sweep is suspended at every await, so each await of the  *)
(* code ends an action.  A request dies between any two of its steps       *)
(* (process crash, or an exception of Prisma or Horizon that the code does *)
(* not catch); what it wrote stays.                                        *)
(***************************************************************************)
EXTENDS Integers

CONSTANTS
  Keys,        \* idempotency keys
  Requests,    \* calls of submitUsdcPayment
  Sweepers,    \* API replicas running the reconciler
  Envelopes,   \* signed transactions, by hash
  NoEnv,       \* "no envelope"
  Timeout,     \* time bounds of an envelope: setTimeout(60)
  Grace,       \* PENDING_GRACE_MS
  Buffer,      \* EXPIRY_BUFFER_MS
  Lag,         \* how long after an envelope's time bounds Horizon may still
               \*   not serve a transaction the network included
  Retries,     \* when callers call again for a FAILED key (see MayCall)
  Redelivery,  \* whether the path to Horizon may deliver an envelope twice
  MaxClock     \* bound on the clock

ASSUME ClockAssumption ==
  /\ {Timeout, Grace, Buffer, Lag, MaxClock} \subseteq Nat
  /\ Lag <= Buffer

ASSUME EnvironmentAssumption ==
  /\ Retries \in {"quiet", "serial", "any"}
  /\ Redelivery \in BOOLEAN
  /\ NoEnv \notin Envelopes

VARIABLES
  \* the table ChainTx
  status,      \* per key; "NONE" when the key has no row
  txHash,      \* the envelope recorded in the row
  createdAt,   \* when the row was created
  \* the requests
  pc,          \* where the request is
  key,         \* its idempotency key
  cur,         \* the envelope it built
  rearm,       \* it found a FAILED row
  reply,       \* what submitXdr answered
  \* the reconcilers
  leader,      \* the Redis lock "chain-reconcile" is taken
  todo,        \* rows of the sweep not resolved yet
  snap,        \* the hash the sweep read for each of them
  sweepNow,    \* Date.now() of the sweep
  ruling,      \* the row being resolved and the status about to be written
  \* the network
  clock,
  env,         \* what was signed into each envelope
  wire,        \* copies of the envelope under way to the network
  ledger,      \* what the network did with the envelope
  indexed,     \* envelopes Horizon serves by hash
  rejected,    \* envelopes refused with result codes at submission
  lastSeq      \* the paying account's sequence number

db == <<status, txHash, createdAt>>
calls == <<pc, key, cur, rearm, reply>>
sweeps == <<leader, todo, snap, sweepNow, ruling>>
network == <<clock, env, wire, ledger, indexed, rejected, lastSeq>>
vars == <<db, calls, sweeps, network>>

Statuses == {"NONE", "PENDING", "SUBMITTED", "CONFIRMED", "FAILED"}
Open == {"PENDING", "SUBMITTED"}
Unbuilt == [key |-> NoEnv, seq |-> 0, expires |-> 0]
Signed == [key : Keys, seq : Nat, expires : Nat]

Built(e) == env[e] # Unbuilt
Active(r) == pc[r] \notin {"idle", "done"}

Init ==
  /\ status = [k \in Keys |-> "NONE"]
  /\ txHash = [k \in Keys |-> NoEnv]
  /\ createdAt = [k \in Keys |-> 0]
  /\ pc = [r \in Requests |-> "idle"]
  /\ key \in [Requests -> Keys]
  /\ cur = [r \in Requests |-> NoEnv]
  /\ rearm = [r \in Requests |-> FALSE]
  /\ reply = [r \in Requests |-> "none"]
  /\ leader = FALSE
  /\ todo = [s \in Sweepers |-> {}]
  /\ snap = [s \in Sweepers |-> [k \in Keys |-> NoEnv]]
  /\ sweepNow = [s \in Sweepers |-> 0]
  /\ ruling = [s \in Sweepers |-> {}]
  /\ clock = 0
  /\ env = [e \in Envelopes |-> Unbuilt]
  /\ wire = [e \in Envelopes |-> 0]
  /\ ledger = [e \in Envelopes |-> "absent"]
  /\ indexed = {}
  /\ rejected = {}
  /\ lastSeq = 0

-----------------------------------------------------------------------------
(* The callers.  A first call may race with others.  A FAILED key may be   *)
(* called again under one of three disciplines:                            *)
(*   "quiet"  no call for the key runs and no sweep still holds its row;   *)
(*   "serial" no call for the key runs;                                    *)
(*   "any"    whenever it is FAILED.                                       *)
Held(k) == \E s \in Sweepers : k \in todo[s] \/ \E x \in ruling[s] : x.key = k

Idle(k) == \A r \in Requests : Active(r) => key[r] # k

MayCall(k) ==
  status[k] = "FAILED" => /\ Retries \in {"quiet", "serial"} => Idle(k)
                          /\ Retries = "quiet" => ~Held(k)

-----------------------------------------------------------------------------
(* submitUsdcPayment.                                                      *)

\* Mutant of Call: a SUBMITTED row is taken for one that may be re-armed.
CallRetriesSubmitted(r) ==
  /\ pc[r] = "idle"
  /\ MayCall(key[r])
  /\ pc' = [pc EXCEPT ![r] = IF status[key[r]] \in {"CONFIRMED", "PENDING"} THEN "done" ELSE "build"]
  /\ rearm' = [rearm EXCEPT ![r] = status[key[r]] \in {"FAILED", "SUBMITTED"}]
  /\ UNCHANGED <<db, key, cur, reply, sweeps, network>>

\* The call reads the row of its key.  A CONFIRMED or open row answers the
\* call; no row, or a FAILED one, lets it build an envelope.
Call(r) ==
  /\ pc[r] = "idle"
  /\ MayCall(key[r])
  /\ pc' = [pc EXCEPT ![r] = IF status[key[r]] \in {"NONE", "FAILED"} THEN "build" ELSE "done"]
  /\ rearm' = [rearm EXCEPT ![r] = status[key[r]] = "FAILED"]
  /\ UNCHANGED <<db, key, cur, reply, sweeps, network>>

\* buildUsdcPayment: a transaction over the account's next sequence number,
\* valid until Timeout from now.  Bounded so that every envelope's time bounds
\* can run out before the clock stops.
BuildUsdcPayment(r) ==
  /\ pc[r] = "build"
  /\ clock + Timeout + Buffer < MaxClock
  /\ \E e \in Envelopes :
       /\ ~Built(e)
       /\ env' = [env EXCEPT ![e] = [key |-> key[r], seq |-> lastSeq + 1,
                                     expires |-> clock + Timeout]]
       /\ cur' = [cur EXCEPT ![r] = e]
  /\ pc' = [pc EXCEPT ![r] = "journal"]
  /\ UNCHANGED <<db, key, rearm, reply, sweeps, clock, wire, ledger, indexed, rejected, lastSeq>>

\* The row is re-armed with the fresh envelope; createdAt keeps its value.
Rearm(r) ==
  /\ pc[r] = "journal"
  /\ rearm[r]
  /\ status' = [status EXCEPT ![key[r]] = "PENDING"]
  /\ txHash' = [txHash EXCEPT ![key[r]] = cur[r]]
  /\ pc' = [pc EXCEPT ![r] = "mark"]
  /\ UNCHANGED <<createdAt, key, cur, rearm, reply, sweeps, network>>

\* The row is created; the unique idempotencyKey lets one creation win.  Bounded
\* so that the row's grace can run out before the clock stops.
Create(r) ==
  /\ pc[r] = "journal"
  /\ ~rearm[r]
  /\ clock + Grace <= MaxClock
  /\ IF status[key[r]] = "NONE"
     THEN /\ status' = [status EXCEPT ![key[r]] = "PENDING"]
          /\ txHash' = [txHash EXCEPT ![key[r]] = cur[r]]
          /\ createdAt' = [createdAt EXCEPT ![key[r]] = clock]
          /\ pc' = [pc EXCEPT ![r] = "mark"]
     ELSE /\ pc' = [pc EXCEPT ![r] = "done"]
          /\ UNCHANGED db
  /\ UNCHANGED <<key, cur, rearm, reply, sweeps, network>>

\* SUBMITTED is written before the network call, whatever the row holds now.
MarkSubmitted(r) ==
  /\ pc[r] = "mark"
  /\ status' = [status EXCEPT ![key[r]] = "SUBMITTED"]
  /\ pc' = [pc EXCEPT ![r] = "send"]
  /\ UNCHANGED <<txHash, createdAt, key, cur, rearm, reply, sweeps, network>>

Copies == IF Redelivery THEN {1, 2} ELSE {1}

\* submitXdr hands the envelope to Horizon and waits.
SubmitXdr(r) ==
  /\ pc[r] = "send"
  /\ \E n \in Copies : wire' = [wire EXCEPT ![cur[r]] = n]
  /\ pc' = [pc EXCEPT ![r] = "await"]
  /\ UNCHANGED <<db, key, cur, rearm, reply, sweeps, clock, env, ledger, indexed, rejected, lastSeq>>

\* The answers submitXdr may return or throw: success once the network executed
\* the payment, result codes when an envelope was refused or executed as failed,
\* and at any time a timeout, a 5xx or a reset.
Answers(e) ==
  {"unknown"} \cup (IF ledger[e] = "paid" THEN {"ok"} ELSE {})
              \cup (IF e \in rejected \/ ledger[e] = "failed" THEN {"codes"} ELSE {})

SubmitReturns(r) ==
  /\ pc[r] = "await"
  /\ \E a \in Answers(cur[r]) :
       /\ reply' = [reply EXCEPT ![r] = a]
       /\ pc' = [pc EXCEPT ![r] = IF a = "ok" THEN "confirm" ELSE "resolve"]
  /\ UNCHANGED <<db, key, cur, rearm, sweeps, network>>

\* The write of CONFIRMED, after submitXdr or after the lookup of
\* resolveSubmitError.
WriteConfirmed(r) ==
  /\ pc[r] = "confirm"
  /\ status' = [status EXCEPT ![key[r]] = "CONFIRMED"]
  /\ pc' = [pc EXCEPT ![r] = "done"]
  /\ UNCHANGED <<txHash, createdAt, key, cur, rearm, reply, sweeps, network>>

\* The write that follows submitXdr is inside the try: when it throws, the
\* error is resolved like a failed submission, one without result codes.
ConfirmThrows(r) ==
  /\ pc[r] = "confirm"
  /\ reply[r] = "ok"
  /\ reply' = [reply EXCEPT ![r] = "unknown"]
  /\ pc' = [pc EXCEPT ![r] = "resolve"]
  /\ UNCHANGED <<db, key, cur, rearm, sweeps, network>>

\* getTransactionStatus: what Horizon serves for the hash, or a network fault.
Lookup(e) == {"fault", IF e \in indexed THEN ledger[e] ELSE "not_found"}

\* Mutant of ResolveSubmitError: a timeout counts as a rejection.
ResolveGuessesFailed(r) ==
  /\ pc[r] = "resolve"
  /\ \E found \in Lookup(cur[r]) :
       pc' = [pc EXCEPT ![r] = IF found = "paid" THEN "confirm" ELSE "fail"]
  /\ UNCHANGED <<db, key, cur, rearm, reply, sweeps, network>>

\* resolveSubmitError: a lookup that throws counts as not_found; then result
\* codes mean FAILED and anything else is left to the reconciler.
ResolveSubmitError(r) ==
  /\ pc[r] = "resolve"
  /\ \E found \in Lookup(cur[r]) :
       pc' = [pc EXCEPT ![r] = CASE found = "paid"       -> "confirm"
                                 [] found # "paid" /\ reply[r] = "codes" -> "fail"
                                 [] OTHER                -> "done"]
  /\ UNCHANGED <<db, key, cur, rearm, reply, sweeps, network>>

WriteFailed(r) ==
  /\ pc[r] = "fail"
  /\ status' = [status EXCEPT ![key[r]] = "FAILED"]
  /\ pc' = [pc EXCEPT ![r] = "done"]
  /\ UNCHANGED <<txHash, createdAt, key, cur, rearm, reply, sweeps, network>>

\* A crash of the process, or an exception that nothing catches.
Crash(r) ==
  /\ Active(r)
  /\ pc' = [pc EXCEPT ![r] = "done"]
  /\ UNCHANGED <<db, key, cur, rearm, reply, sweeps, network>>

RequestStep(r) ==
  \/ Call(r) \/ BuildUsdcPayment(r) \/ Rearm(r) \/ Create(r) \/ MarkSubmitted(r)
  \/ SubmitXdr(r) \/ SubmitReturns(r) \/ WriteConfirmed(r) \/ ConfirmThrows(r)
  \/ ResolveSubmitError(r) \/ WriteFailed(r) \/ Crash(r)

-----------------------------------------------------------------------------
(* ChainReconcilerService.  "sweeping" keeps a replica to one sweep at a   *)
(* time; the leader lock keeps replicas apart only until its TTL runs out. *)

Sweeping(s) == todo[s] # {} \/ ruling[s] # {}

\* Mutant of Due: the sweep forgets PENDING rows.
DueSubmittedOnly(k) == status[k] = "SUBMITTED"

\* A fresh PENDING row is skipped: its request still owns it.
Due(k) == /\ status[k] \in Open
          /\ status[k] = "PENDING" => clock - createdAt[k] >= Grace

\* sweepSafely takes the lock, sweep reads the open rows and the time.  The
\* batch limit of 50 rows is not reached with the few keys of a model.
StartSweep(s) ==
  /\ ~Sweeping(s)
  /\ ~leader
  /\ leader' = TRUE
  /\ todo' = [todo EXCEPT ![s] = {k \in Keys : Due(k)}]
  /\ snap' = [snap EXCEPT ![s] = txHash]
  /\ sweepNow' = [sweepNow EXCEPT ![s] = clock]
  /\ UNCHANGED <<db, calls, ruling, network>>

\* The lock's TTL of 25 s expires, whether or not the sweep is over.
LockExpires ==
  /\ leader
  /\ leader' = FALSE
  /\ UNCHANGED <<db, calls, todo, snap, sweepNow, ruling, network>>

\* Mutant of Ruling: expiry is not awaited.
RulingWithoutExpiry(s, k, found) ==
  CASE found = "paid" -> {[key |-> k, status |-> "CONFIRMED"]}
    [] found \in {"failed", "not_found"} -> {[key |-> k, status |-> "FAILED"]}
    [] OTHER -> {}

\* What resolve decides from the lookup: nothing when not found within the time
\* bounds plus the buffer.
Ruling(s, k, found) ==
  CASE found = "paid"   -> {[key |-> k, status |-> "CONFIRMED"]}
    [] found = "failed" -> {[key |-> k, status |-> "FAILED"]}
    [] found = "not_found" /\ sweepNow[s] > env[snap[s][k]].expires + Buffer
                        -> {[key |-> k, status |-> "FAILED"]}
    [] OTHER            -> {}

\* resolve asks Horizon about the hash it read at the start of the sweep.
ResolveRow(s, k, found) ==
  /\ k \in todo[s]
  /\ ruling[s] = {}
  /\ todo' = [todo EXCEPT ![s] = @ \ {k}]
  /\ ruling' = [ruling EXCEPT ![s] = Ruling(s, k, found)]
  /\ UNCHANGED <<db, calls, leader, snap, sweepNow, network>>

\* The update by row id, whatever the row holds now.
WriteRuling(s) ==
  /\ \E x \in ruling[s] : status' = [status EXCEPT ![x.key] = x.status]
  /\ ruling' = [ruling EXCEPT ![s] = {}]
  /\ UNCHANGED <<txHash, createdAt, calls, leader, todo, snap, sweepNow, network>>

\* The replica dies, or the update throws and the sweep goes on with its rows.
SweepCrash(s) ==
  /\ Sweeping(s)
  /\ todo' = [todo EXCEPT ![s] = {}]
  /\ ruling' = [ruling EXCEPT ![s] = {}]
  /\ UNCHANGED <<db, calls, leader, snap, sweepNow, network>>

WriteThrows(s) ==
  /\ ruling[s] # {}
  /\ ruling' = [ruling EXCEPT ![s] = {}]
  /\ UNCHANGED <<db, calls, leader, todo, snap, sweepNow, network>>

SweepStep(s) ==
  \/ StartSweep(s) \/ WriteRuling(s) \/ SweepCrash(s) \/ WriteThrows(s)
  \/ \E k \in todo[s] : \E found \in Lookup(snap[s][k]) : ResolveRow(s, k, found)

-----------------------------------------------------------------------------
(* The network, external.                                                  *)

\* A copy of the envelope is executed: only with the account's next sequence
\* number, only within the time bounds, and an envelope only once.  A failed
\* execution takes the sequence number and moves no value.
Execute(e) ==
  /\ wire[e] > 0
  /\ ledger[e] = "absent"
  /\ env[e].seq = lastSeq + 1
  /\ clock <= env[e].expires
  /\ \E outcome \in {"paid", "failed"} : ledger' = [ledger EXCEPT ![e] = outcome]
  /\ lastSeq' = lastSeq + 1
  /\ wire' = [wire EXCEPT ![e] = @ - 1]
  /\ UNCHANGED <<db, calls, sweeps, clock, env, indexed, rejected>>

\* A copy is refused with result codes (tx_bad_seq, tx_too_late, a fee too
\* low), or lost on its way.
Refuse(e) ==
  /\ wire[e] > 0
  /\ wire' = [wire EXCEPT ![e] = @ - 1]
  /\ \/ rejected' = rejected \cup {e}
     \/ UNCHANGED rejected
  /\ UNCHANGED <<db, calls, sweeps, clock, env, ledger, indexed, lastSeq>>

\* Horizon ingests the ledger that holds the transaction.
Index(e) ==
  /\ ledger[e] # "absent"
  /\ e \notin indexed
  /\ indexed' = indexed \cup {e}
  /\ UNCHANGED <<db, calls, sweeps, clock, env, wire, ledger, rejected, lastSeq>>

\* Time passes; Horizon is never further behind than Lag.
Tick ==
  /\ clock < MaxClock
  /\ \A e \in Envelopes : ledger[e] # "absent" /\ e \notin indexed
                            => clock < env[e].expires + Lag
  /\ clock' = clock + 1
  /\ UNCHANGED <<db, calls, sweeps, env, wire, ledger, indexed, rejected, lastSeq>>

NetworkStep == Tick \/ \E e \in Envelopes : Execute(e) \/ Refuse(e) \/ Index(e)

-----------------------------------------------------------------------------
Next ==
  \/ \E r \in Requests : RequestStep(r)
  \/ \E s \in Sweepers : SweepStep(s)
  \/ LockExpires
  \/ NetworkStep

Spec == Init /\ [][Next]_vars

-----------------------------------------------------------------------------
(* Fairness.  The sweep timer keeps firing on some replica, the lock's TTL *)
(* runs out, time passes and Horizon catches up.  Strong fairness says     *)
(* that Horizon does not fail every lookup of a row, and that the replica  *)
(* does not die at every write of a row's ruling.  Nothing is asked of the *)
(* requests, nor of the delivery of an envelope.                           *)
Answered(k) == \E s \in Sweepers : \E found \in Lookup(snap[s][k]) \ {"fault"} : ResolveRow(s, k, found)

Written(k) == \E s \in Sweepers : /\ \E x \in ruling[s] : x.key = k
                                  /\ WriteRuling(s)

Fairness ==
  /\ WF_vars(Tick)
  /\ \A e \in Envelopes : WF_vars(Index(e))
  /\ WF_vars(LockExpires)
  /\ WF_vars(\E s \in Sweepers : StartSweep(s))
  /\ \A k \in Keys : SF_vars(Answered(k)) /\ SF_vars(Written(k))

FairSpec == Spec /\ Fairness

-----------------------------------------------------------------------------
(* Properties.                                                             *)

\* Every variable has its type, and an envelope is on the wire or in the ledger
\* only after it was built.
TypeOK ==
  /\ status \in [Keys -> Statuses]
  /\ txHash \in [Keys -> Envelopes \cup {NoEnv}]
  /\ createdAt \in [Keys -> Nat]
  /\ pc \in [Requests -> {"idle", "build", "journal", "mark", "send", "await",
                          "confirm", "resolve", "fail", "done"}]
  /\ key \in [Requests -> Keys]
  /\ cur \in [Requests -> Envelopes \cup {NoEnv}]
  /\ rearm \in [Requests -> BOOLEAN]
  /\ reply \in [Requests -> {"none", "ok", "codes", "unknown"}]
  /\ leader \in BOOLEAN
  /\ todo \in [Sweepers -> SUBSET Keys]
  /\ snap \in [Sweepers -> [Keys -> Envelopes \cup {NoEnv}]]
  /\ sweepNow \in [Sweepers -> Nat]
  /\ ruling \in [Sweepers -> SUBSET [key : Keys, status : {"CONFIRMED", "FAILED"}]]
  /\ clock \in Nat
  /\ env \in [Envelopes -> Signed \cup {Unbuilt}]
  /\ wire \in [Envelopes -> Nat]
  /\ ledger \in [Envelopes -> {"absent", "paid", "failed"}]
  /\ indexed \in SUBSET Envelopes
  /\ rejected \in SUBSET Envelopes
  /\ lastSeq \in Nat

Paid(k) == {e \in Envelopes : env[e].key = k /\ ledger[e] = "paid"}

\* The network pays a key at most once, however often the key is called, across
\* crashes, timeouts, retries and overlapping sweeps.
PaidAtMostOnce == \A k \in Keys : \A e, f \in Paid(k) : e = f

\* A row says FAILED only when no envelope of its key paid: "safe to retry with
\* a fresh tx".
FailedMeansUnpaid == \A k \in Keys : status[k] = "FAILED" => Paid(k) = {}

\* A row says CONFIRMED only when the very envelope it records paid.
ConfirmedMeansPaid == \A k \in Keys : status[k] = "CONFIRMED" => txHash[k] \in Paid(k)

\* A payment is journaled before it can happen: the hash of a paid envelope is
\* the hash its key's row records, so the reconciler can find it.
PaidIsJournaled == \A k \in Keys : Paid(k) \subseteq {txHash[k]}

\* The envelope e of a key can still pay.
Live(e) == /\ Built(e)
           /\ ledger[e] = "absent"
           /\ clock <= env[e].expires
           /\ wire[e] > 0 \/ \E r \in Requests : pc[r] \in {"mark", "send"} /\ cur[r] = e

\* An answer that is final in the table is final on the chain: while a row says
\* FAILED, no envelope of its key is on its way to be executed.
FailedIsFinal == \A k \in Keys : status[k] = "FAILED" =>
                   \A e \in Envelopes : env[e].key = k => ~Live(e)

\* What the journal says is true of the chain, and final: FAILED rows are unpaid and
\* stay so, CONFIRMED ones are paid, and what was paid can be found by its row.
JournalIsTrue == FailedMeansUnpaid /\ ConfirmedMeansPaid /\ PaidIsJournaled /\ FailedIsFinal

\* The reconciler "resolves every PENDING/SUBMITTED ChainTx to a terminal
\* state", also the rows of requests that died.
Settles == \A k \in Keys : status[k] \in Open ~> status[k] \notin Open

\* The journal implements the payment that its callers see.
Answer(k) == CASE status[k] = "NONE"      -> "none"
               [] status[k] \in Open      -> "open"
               [] status[k] = "CONFIRMED" -> "confirmed"
               [] status[k] = "FAILED"    -> "failed"

Payments == INSTANCE Payment WITH answer <- [k \in Keys |-> Answer(k)],
                                  moved  <- [k \in Keys |-> Paid(k) # {}]

ImplementsPayment == Payments!Spec
=============================================================================
