---------------------------- MODULE ChainTxProof ----------------------------
(* The theorems about ChainTx, for every number of keys, calls, replicas   *)
(* and envelopes, and every value of the time constants.                   *)
EXTENDS ChainTxInv, TLAPS

-----------------------------------------------------------------------------
(* Type correctness holds in every environment.                            *)

LEMMA ConstantTypes ==
  /\ Timeout \in Nat /\ Grace \in Nat /\ Buffer \in Nat /\ Lag \in Nat /\ MaxClock \in Nat
  /\ Lag <= Buffer
  /\ NoEnv \notin Envelopes
BY ClockAssumption, EnvironmentAssumption DEF ClockAssumption, EnvironmentAssumption

LEMMA ExceptType ==
  ASSUME NEW S, NEW T, NEW f \in [S -> T], NEW x, NEW y \in T
  PROVE  [f EXCEPT ![x] = y] \in [S -> T]
OBVIOUS

LEMMA InitType == Init => TypeOK
<1> SUFFICES ASSUME Init PROVE TypeOK
  OBVIOUS
<1>1. env \in [Envelopes -> Signed \cup {Unbuilt}]
  BY DEF Init
<1>2. ruling \in [Sweepers -> SUBSET [key : Keys, status : {"CONFIRMED", "FAILED"}]]
  BY DEF Init
<1>3. snap \in [Sweepers -> [Keys -> Envelopes \cup {NoEnv}]]
  BY DEF Init
<1> QED
  BY <1>1, <1>2, <1>3 DEF Init, TypeOK, Statuses

LEMMA RequestType ==
  ASSUME TypeOK, NEW r \in Requests, RequestStep(r)
  PROVE  TypeOK'
<1> USE ConstantTypes DEF TypeOK, Statuses
<1>1. CASE Call(r)
  BY <1>1 DEF Call, db, sweeps, network
<1>2. CASE BuildUsdcPayment(r)
  <2>1. PICK e \in Envelopes :
          /\ env' = [env EXCEPT ![e] = [key |-> key[r], seq |-> lastSeq + 1,
                                        expires |-> clock + Timeout]]
          /\ cur' = [cur EXCEPT ![r] = e]
    BY <1>2 DEF BuildUsdcPayment
  <2>2. [key |-> key[r], seq |-> lastSeq + 1, expires |-> clock + Timeout] \in Signed
    BY DEF Signed
  <2> QED
    BY <1>2, <2>1, <2>2 DEF BuildUsdcPayment, db, sweeps
<1>3. CASE Rearm(r)
  BY <1>3 DEF Rearm, sweeps, network
<1>4. CASE Create(r)
  <2>1. CASE status[key[r]] = "NONE"
    <3>1. createdAt' \in [Keys -> Nat]
      BY <1>4, <2>1, ExceptType DEF Create
    <3>2. txHash' \in [Keys -> Envelopes \cup {NoEnv}]
      BY <1>4, <2>1 DEF Create
    <3>3. status' \in [Keys -> Statuses]
      BY <1>4, <2>1 DEF Create
    <3>4. pc' = [pc EXCEPT ![r] = "mark"] /\ UNCHANGED <<key, cur, rearm, reply, sweeps, network>>
      BY <1>4, <2>1 DEF Create
    <3> HIDE <1>4, <2>1
    <3> QED
      BY <3>1, <3>2, <3>3, <3>4 DEF sweeps, network
  <2>2. CASE status[key[r]] # "NONE"
    <3>1. UNCHANGED <<db, key, cur, rearm, reply, sweeps, network>>
      BY <1>4, <2>2 DEF Create
    <3>2. pc' = [pc EXCEPT ![r] = "done"]
      BY <1>4, <2>2 DEF Create
    <3> QED
      BY <3>1, <3>2 DEF db, sweeps, network
  <2> QED
    BY <2>1, <2>2
<1>5. CASE MarkSubmitted(r)
  BY <1>5 DEF MarkSubmitted, sweeps, network
<1>6. CASE SubmitXdr(r)
  <2>1. PICK n \in {1, 2} : wire' = [wire EXCEPT ![cur[r]] = n]
    BY <1>6 DEF SubmitXdr, Copies
  <2>2. n \in Nat /\ wire \in [Envelopes -> Nat]
    OBVIOUS
  <2>3. [wire EXCEPT ![cur[r]] = n] \in [Envelopes -> Nat]
    BY <2>2, ExceptType
  <2> QED
    BY <1>6, <2>1, <2>3 DEF SubmitXdr, db, sweeps
<1>7. CASE SubmitReturns(r)
  BY <1>7 DEF SubmitReturns, Answers, db, sweeps, network
<1>8. CASE WriteConfirmed(r)
  BY <1>8 DEF WriteConfirmed, sweeps, network
<1>9. CASE ConfirmThrows(r)
  BY <1>9 DEF ConfirmThrows, db, sweeps, network
<1>10. CASE ResolveSubmitError(r)
  BY <1>10 DEF ResolveSubmitError, db, sweeps, network
<1>11. CASE WriteFailed(r)
  BY <1>11 DEF WriteFailed, sweeps, network
<1>12. CASE Crash(r)
  BY <1>12 DEF Crash, db, sweeps, network
<1> QED
  BY <1>1, <1>2, <1>3, <1>4, <1>5, <1>6, <1>7, <1>8, <1>9, <1>10, <1>11, <1>12 DEF RequestStep

LEMMA RulingType ==
  ASSUME NEW s, NEW k \in Keys, NEW found
  PROVE  Ruling(s, k, found) \in SUBSET [key : Keys, status : {"CONFIRMED", "FAILED"}]
BY DEF Ruling

LEMMA SweepType ==
  ASSUME TypeOK, NEW s \in Sweepers, SweepStep(s)
  PROVE  TypeOK'
<1> USE ConstantTypes DEF TypeOK, Statuses
<1>1. CASE StartSweep(s)
  BY <1>1 DEF StartSweep, db, calls, network
<1>2. ASSUME NEW k \in todo[s], NEW found \in Lookup(snap[s][k]), ResolveRow(s, k, found)
      PROVE  TypeOK'
  <2>1. Ruling(s, k, found) \in SUBSET [key : Keys, status : {"CONFIRMED", "FAILED"}]
    BY RulingType
  <2> QED
    BY <1>2, <2>1 DEF ResolveRow, db, calls, network
<1>3. CASE WriteRuling(s)
  <2>1. PICK x \in ruling[s] : status' = [status EXCEPT ![x.key] = x.status]
    BY <1>3 DEF WriteRuling
  <2>2. x.key \in Keys /\ x.status \in {"CONFIRMED", "FAILED"}
    OBVIOUS
  <2> QED
    BY <1>3, <2>1, <2>2 DEF WriteRuling, calls, network
<1>4. CASE SweepCrash(s)
  BY <1>4 DEF SweepCrash, db, calls, network
<1>5. CASE WriteThrows(s)
  BY <1>5 DEF WriteThrows, db, calls, network
<1> QED
  BY <1>1, <1>2, <1>3, <1>4, <1>5 DEF SweepStep

LEMMA NetworkType ==
  ASSUME TypeOK, NetworkStep \/ LockExpires
  PROVE  TypeOK'
<1> USE ConstantTypes DEF TypeOK, Statuses
<1>1. CASE Tick
  BY <1>1 DEF Tick, db, calls, sweeps
<1>2. ASSUME NEW e \in Envelopes, Execute(e)
      PROVE  TypeOK'
  BY <1>2 DEF Execute, db, calls, sweeps
<1>3. ASSUME NEW e \in Envelopes, Refuse(e)
      PROVE  TypeOK'
  BY <1>3 DEF Refuse, db, calls, sweeps
<1>4. ASSUME NEW e \in Envelopes, Index(e)
      PROVE  TypeOK'
  BY <1>4 DEF Index, db, calls, sweeps
<1>5. CASE LockExpires
  BY <1>5 DEF LockExpires, db, calls, network
<1> QED
  BY <1>1, <1>2, <1>3, <1>4, <1>5 DEF NetworkStep

LEMMA StutterType == TypeOK /\ UNCHANGED vars => TypeOK'
BY DEF TypeOK, vars, db, calls, sweeps, network, Signed, Unbuilt

LEMMA NextType == TypeOK /\ [Next]_vars => TypeOK'
BY RequestType, SweepType, NetworkType, StutterType DEF Next

\* The tables, the requests, the sweeps and the network only ever hold values of
\* their types, whatever the callers and the network do.
THEOREM TypeCorrect == Spec => []TypeOK
<1>1. Init => TypeOK
  BY InitType
<1>2. TypeOK /\ [Next]_vars => TypeOK'
  BY NextType
<1> QED
  BY <1>1, <1>2, PTL DEF Spec

-----------------------------------------------------------------------------
(* The inductive invariant, one lemma per action: first the requests.      *)

LEMMA InitInv == Init => IInv
<1> SUFFICES ASSUME Init PROVE IInv
  OBVIOUS
<1> USE ConstantTypes
<1>1. TypeOK
  BY InitType
<1>2. EnvelopeInv
  BY DEF Init, EnvelopeInv, Untouched, Built
<1>3. RowInv
  BY DEF Init, RowInv
<1>4. RequestInv /\ ExclusionInv
  BY DEF Init, RequestInv, ExclusionInv, Preparing, Journaled, Unsent, Active
<1>5. SweepInv
  BY DEF Init, SweepInv
<1> QED
  BY <1>1, <1>2, <1>3, <1>4, <1>5 DEF IInv

LEMMA CallInv ==
  ASSUME Quiet, IInv, NEW r \in Requests, Call(r)
  PROVE  IInv'
<1> USE ConstantTypes
<1>1. TypeOK'
  BY RequestType DEF IInv, RequestStep
<1>2. EnvelopeInv'
  BY DEF Call, db, sweeps, network, IInv, TypeOK, EnvelopeInv, Untouched, Spent, Expired, Built
<1>3. RowInv'
  BY DEF Call, db, sweeps, network, IInv, TypeOK, RowInv, Hopeless, Spent, Expired, Unsent, Built
<1>4. RequestInv'
  <2>1. rearm'[r] => status[key[r]] = "FAILED" /\ ~Held(key[r])
    BY DEF Call, MayCall, Quiet, IInv, TypeOK
  <2>2. pc'[r] \in {"build", "done"}
    BY DEF Call, IInv, TypeOK
  <2>3. \A q \in Requests : q # r => pc'[q] = pc[q] /\ rearm'[q] = rearm[q]
    BY DEF Call, IInv, TypeOK
  <2> QED
    BY <2>1, <2>2, <2>3 DEF Call, db, sweeps, network, IInv, RequestInv, Untouched, Preparing, Journaled, Unsent, Held, Built
<1>5. ExclusionInv'
  <2>1. rearm'[r] => \A q \in Requests : Active(q) => key[q] # key[r]
    BY DEF Call, MayCall, Idle, Quiet, IInv, TypeOK
  <2>2. pc'[r] \in {"build", "done"}
    BY DEF Call, IInv, TypeOK
  <2>3. \A q \in Requests : q # r => pc'[q] = pc[q] /\ rearm'[q] = rearm[q]
    BY DEF Call, IInv, TypeOK
  <2>4. pc'[r] = "build" => status[key[r]] \in {"NONE", "FAILED"}
    BY DEF Call, IInv, TypeOK
  <2> SUFFICES ASSUME NEW a \in Requests, NEW b \in Requests, a # b
               PROVE  /\ key'[a] = key'[b] /\ Active(b)'
                         => /\ Journaled(a)' => Preparing(b)' /\ ~rearm'[b]
                            /\ Preparing(a)' => ~(Preparing(b)' /\ rearm'[b])
                      /\ pc'[a] = "journal" /\ pc'[b] = "journal" => cur'[a] # cur'[b]
    BY DEF ExclusionInv
  <2>5. key' = key /\ cur' = cur
    BY DEF Call
  <2>9. rearm'[r] = (status[key[r]] = "FAILED")
    BY DEF Call, IInv, TypeOK
  <2>6. CASE b = r
    BY <2>1, <2>2, <2>4, <2>3, <2>5, <2>6 DEF IInv, RequestInv, Active, Preparing, Journaled, Idle
  <2>7. CASE a = r /\ b # r
    <3>1. Active(b)' /\ Preparing(b)' /\ rearm'[b] => Active(b) /\ status[key[b]] = "FAILED"
      BY <2>3, <2>7 DEF IInv, RequestInv, Active, Preparing
    <3> QED
      BY <3>1, <2>1, <2>2, <2>3, <2>5, <2>7, <2>9 DEF Active, Preparing, Journaled
  <2>8. CASE a # r /\ b # r
    BY <2>3, <2>5, <2>8 DEF IInv, ExclusionInv, Active, Preparing, Journaled
  <2> QED
    BY <2>6, <2>7, <2>8
<1>6. SweepInv'
  BY DEF Call, db, sweeps, network, IInv, TypeOK, SweepInv, Expired
<1> QED
  BY <1>1, <1>2, <1>3, <1>4, <1>5, <1>6 DEF IInv

LEMMA BuildUsdcPaymentInv ==
  ASSUME Quiet, IInv, NEW r \in Requests, BuildUsdcPayment(r)
  PROVE  IInv'
<1> USE ConstantTypes
<1>1. TypeOK'
  BY RequestType DEF IInv, RequestStep
<1>2. EnvelopeInv'
  BY DEF BuildUsdcPayment, db, sweeps, IInv, TypeOK, EnvelopeInv, Untouched, Spent, Expired, Built, RowInv, Unbuilt
<1>3. RowInv'
  BY DEF BuildUsdcPayment, db, sweeps, IInv, TypeOK, RowInv, Hopeless, Spent, Expired, Unsent, Built
<1>4. RequestInv'
  BY DEF BuildUsdcPayment, db, sweeps, IInv, TypeOK, RequestInv, Untouched, Preparing, Journaled, Unsent, Held, Built, EnvelopeInv, RowInv, Signed, Unbuilt
<1>5. ExclusionInv'
  BY DEF BuildUsdcPayment, db, sweeps, IInv, TypeOK, ExclusionInv, Active, Preparing, Journaled, RequestInv, EnvelopeInv, Built, Untouched
<1>6. SweepInv'
  BY DEF BuildUsdcPayment, db, sweeps, IInv, TypeOK, SweepInv, Expired, RowInv, EnvelopeInv, Built
<1> QED
  BY <1>1, <1>2, <1>3, <1>4, <1>5, <1>6 DEF IInv

LEMMA RearmInv ==
  ASSUME Quiet, IInv, NEW r \in Requests, Rearm(r)
  PROVE  IInv'
<1> USE ConstantTypes
<1>1. TypeOK'
  BY RequestType DEF IInv, RequestStep
<1>2. EnvelopeInv'
  BY DEF Rearm, sweeps, network, IInv, TypeOK, EnvelopeInv, Untouched, Spent, Expired, Built, RequestInv, RowInv, Hopeless, Preparing
<1>3. RowInv'
  BY DEF Rearm, sweeps, network, IInv, TypeOK, RowInv, Hopeless, Spent, Expired, Unsent, Built, RequestInv, Preparing
<1>4. RequestInv'
  <2>1. \A q \in Requests : q # r /\ Active(q) => key[q] # key[r]
    BY DEF Rearm, IInv, ExclusionInv, Active, Preparing, Journaled, TypeOK
  <2>2. \A q \in Requests : q # r => pc'[q] = pc[q] /\ (pc[q] = "journal" => cur[q] # cur[r])
    BY DEF Rearm, IInv, ExclusionInv, TypeOK
  <2>3. pc'[r] = "mark" /\ txHash'[key[r]] = cur[r] /\ Untouched(cur[r]) /\ cur[r] # NoEnv
    BY DEF Rearm, IInv, RequestInv, TypeOK
  <2>4. \A k \in Keys : k # key[r] => status'[k] = status[k] /\ txHash'[k] = txHash[k]
    BY DEF Rearm, IInv, TypeOK
  <2> QED
    BY <2>1, <2>2, <2>3, <2>4 DEF Rearm, sweeps, network, IInv, TypeOK, RequestInv, Untouched,
       Preparing, Journaled, Unsent, Held, Built, Active
<1>5. ExclusionInv'
  <2>1. \A q \in Requests : q # r /\ Active(q) => key[q] # key[r]
    BY DEF Rearm, IInv, ExclusionInv, Active, Preparing, Journaled, TypeOK
  <2>2. \A q \in Requests : q # r => pc'[q] = pc[q]
    BY DEF Rearm, IInv, TypeOK
  <2> QED
    BY <2>1, <2>2 DEF Rearm, IInv, TypeOK, ExclusionInv, Active, Preparing, Journaled
<1>6. SweepInv'
  BY DEF Rearm, sweeps, network, IInv, TypeOK, SweepInv, Expired, RequestInv, RowInv, Held, Preparing
<1> QED
  BY <1>1, <1>2, <1>3, <1>4, <1>5, <1>6 DEF IInv

LEMMA CreateInv ==
  ASSUME Quiet, IInv, NEW r \in Requests, Create(r)
  PROVE  IInv'
<1> USE ConstantTypes
<1>1. TypeOK'
  BY RequestType DEF IInv, RequestStep
<1>2. EnvelopeInv'
  BY DEF Create, db, sweeps, network, IInv, TypeOK, EnvelopeInv, Untouched, Spent, Expired, Built, RequestInv, RowInv, Preparing
<1>3. RowInv'
  BY DEF Create, db, sweeps, network, IInv, TypeOK, RowInv, Hopeless, Spent, Expired, Unsent, Built, RequestInv, Preparing
<1>4. RequestInv'
  <2>1. CASE status[key[r]] # "NONE"
    BY <2>1 DEF Create, db, sweeps, network, IInv, TypeOK, RequestInv, Untouched, Preparing,
       Journaled, Unsent, Held, Built
  <2>2. CASE status[key[r]] = "NONE"
    <3>1. \A q \in Requests : q # r /\ Active(q) /\ key[q] = key[r] => Preparing(q) /\ ~rearm[q]
      BY <2>2 DEF Create, IInv, RequestInv, RowInv, Active, Preparing, Journaled, TypeOK
    <3>2. \A q \in Requests : q # r => pc'[q] = pc[q] /\ (pc[q] = "journal" => cur[q] # cur[r])
      BY <2>2 DEF Create, IInv, ExclusionInv, TypeOK
    <3>3. pc'[r] = "mark" /\ txHash'[key[r]] = cur[r] /\ Untouched(cur[r]) /\ cur[r] # NoEnv
      BY <2>2 DEF Create, IInv, RequestInv, TypeOK
    <3>4. \A k \in Keys : k # key[r] => status'[k] = status[k] /\ txHash'[k] = txHash[k]
      BY <2>2 DEF Create, IInv, TypeOK
    <3> SUFFICES ASSUME NEW q \in Requests
                 PROVE  RequestInv!(q)'
      BY DEF RequestInv
    <3>5. CASE q = r
      BY <3>3, <3>5 DEF Create, sweeps, network, IInv, TypeOK, RequestInv, Untouched, Preparing,
         Journaled, Unsent
    <3>6. CASE q # r /\ key[q] = key[r]
      BY <3>1, <3>2, <3>3, <3>6 DEF Create, sweeps, network, IInv, TypeOK, RequestInv, Untouched,
         Preparing, Journaled, Unsent, Built, Active
    <3>7. CASE q # r /\ key[q] # key[r]
      BY <3>2, <3>4, <3>7 DEF Create, sweeps, network, IInv, TypeOK, RequestInv, Untouched,
         Preparing, Journaled, Unsent, Held, Built
    <3> QED
      BY <3>5, <3>6, <3>7
  <2> QED
    BY <2>1, <2>2
<1>5. ExclusionInv'
  <2>1. CASE status[key[r]] # "NONE"
    BY <2>1 DEF Create, IInv, TypeOK, ExclusionInv, Active, Preparing, Journaled
  <2>2. CASE status[key[r]] = "NONE"
    <3>1. \A q \in Requests : q # r /\ Active(q) /\ key[q] = key[r] => Preparing(q) /\ ~rearm[q]
      BY <2>2 DEF Create, IInv, RequestInv, RowInv, Active, Preparing, Journaled, TypeOK
    <3>2. pc'[r] = "mark" /\ \A q \in Requests : q # r => pc'[q] = pc[q]
      BY <2>2 DEF Create, IInv, TypeOK
    <3>3. key' = key /\ cur' = cur /\ rearm' = rearm
      BY DEF Create
    <3> QED
      BY <3>1, <3>2, <3>3 DEF IInv, ExclusionInv, Active, Preparing, Journaled
  <2> QED
    BY <2>1, <2>2
<1>6. SweepInv'
  <2>1. CASE status[key[r]] # "NONE"
    BY <2>1 DEF Create, db, sweeps, network, IInv, SweepInv, Expired
  <2>2. CASE status[key[r]] = "NONE"
    <3>1. txHash[key[r]] = NoEnv
      BY <2>2 DEF IInv, RowInv, TypeOK
    <3>2. \A k \in Keys : k # key[r] => txHash'[k] = txHash[k]
      BY <2>2 DEF Create, IInv, TypeOK
    <3>3. UNCHANGED <<todo, snap, sweepNow, ruling, clock, env, ledger>>
      BY DEF Create, sweeps, network
    <3>4. \A s \in Sweepers : todo[s] \subseteq Keys /\ \A x \in ruling[s] : x.key \in Keys
      BY DEF IInv, TypeOK
    <3> QED
      BY <3>1, <3>2, <3>3, <3>4 DEF IInv, SweepInv, Expired
  <2> QED
    BY <2>1, <2>2
<1> QED
  BY <1>1, <1>2, <1>3, <1>4, <1>5, <1>6 DEF IInv

LEMMA MarkSubmittedInv ==
  ASSUME Quiet, IInv, NEW r \in Requests, MarkSubmitted(r)
  PROVE  IInv'
<1> USE ConstantTypes
<1>1. TypeOK'
  BY RequestType DEF IInv, RequestStep
<1>2. EnvelopeInv'
  BY DEF MarkSubmitted, sweeps, network, IInv, TypeOK, EnvelopeInv, Untouched, Spent, Expired, Built
<1>3. RowInv'
  BY DEF MarkSubmitted, sweeps, network, IInv, TypeOK, RowInv, Hopeless, Spent, Expired, Unsent, Built, RequestInv, Journaled
<1>4. RequestInv'
  <2>1. \A q \in Requests : Preparing(q) /\ rearm[q] => key[q] # key[r]
    BY DEF MarkSubmitted, IInv, ExclusionInv, TypeOK, Active, Preparing, Journaled
  <2> QED
    BY <2>1 DEF MarkSubmitted, sweeps, network, IInv, TypeOK, RequestInv, Untouched, Preparing,
       Journaled, Unsent, Held, Built
<1>5. ExclusionInv'
  BY DEF MarkSubmitted, sweeps, network, IInv, TypeOK, ExclusionInv, Active, Preparing, Journaled
<1>6. SweepInv'
  BY DEF MarkSubmitted, sweeps, network, IInv, TypeOK, SweepInv, Expired
<1> QED
  BY <1>1, <1>2, <1>3, <1>4, <1>5, <1>6 DEF IInv

LEMMA SubmitXdrInv ==
  ASSUME Quiet, IInv, NEW r \in Requests, SubmitXdr(r)
  PROVE  IInv'
<1> USE ConstantTypes
<1>1. TypeOK'
  BY RequestType DEF IInv, RequestStep
<1>2. EnvelopeInv'
  BY DEF SubmitXdr, db, sweeps, IInv, TypeOK, EnvelopeInv, Untouched, Spent, Expired, Built, RequestInv, RowInv, Unsent, Journaled, Quiet, Copies
<1>3. RowInv'
  BY DEF SubmitXdr, db, sweeps, IInv, TypeOK, RowInv, Hopeless, Spent, Expired, Unsent, Built
<1>4. RequestInv'
  <2>1. \A q \in Requests : q # r /\ (pc[q] = "journal" \/ Journaled(q)) => cur[q] # cur[r]
    <3>1. txHash[key[r]] = cur[r] /\ env[cur[r]].key = key[r]
      BY DEF SubmitXdr, IInv, TypeOK, RequestInv, RowInv, Journaled
    <3>2. ASSUME NEW q \in Requests, pc[q] = "journal"
          PROVE  cur[q] # cur[r]
      BY <3>1, <3>2 DEF IInv, RequestInv
    <3>3. ASSUME NEW q \in Requests, q # r, Journaled(q)
          PROVE  cur[q] # cur[r]
      <4>1. txHash[key[q]] = cur[q] /\ env[cur[q]].key = key[q]
        BY <3>3 DEF IInv, TypeOK, RequestInv, RowInv
      <4>2. key[q] # key[r]
        BY <3>3 DEF SubmitXdr, IInv, TypeOK, ExclusionInv, Active, Preparing, Journaled
      <4> QED
        BY <3>1, <4>1, <4>2
    <3> QED
      BY <3>2, <3>3
  <2>2. \A q \in Requests : q # r => pc'[q] = pc[q]
    BY DEF SubmitXdr, IInv, TypeOK
  <2>3. \A e \in Envelopes : e # cur[r] => wire'[e] = wire[e]
    BY DEF SubmitXdr, IInv, TypeOK
  <2> QED
    BY <2>1, <2>2, <2>3 DEF SubmitXdr, db, sweeps, IInv, TypeOK, RequestInv, Untouched, Preparing,
       Journaled, Unsent, Held, Built
<1>5. ExclusionInv'
  BY DEF SubmitXdr, db, sweeps, IInv, TypeOK, ExclusionInv, Active, Preparing, Journaled
<1>6. SweepInv'
  BY DEF SubmitXdr, db, sweeps, IInv, TypeOK, SweepInv, Expired
<1> QED
  BY <1>1, <1>2, <1>3, <1>4, <1>5, <1>6 DEF IInv

LEMMA SubmitReturnsInv ==
  ASSUME Quiet, IInv, NEW r \in Requests, SubmitReturns(r)
  PROVE  IInv'
<1> USE ConstantTypes
<1>1. TypeOK'
  BY RequestType DEF IInv, RequestStep
<1>2. EnvelopeInv'
  BY DEF SubmitReturns, db, sweeps, network, IInv, TypeOK, EnvelopeInv, Untouched, Spent, Expired, Built
<1>3. RowInv'
  BY DEF SubmitReturns, db, sweeps, network, IInv, TypeOK, RowInv, Hopeless, Spent, Expired, Unsent, Built
<1>4. RequestInv'
  <2>1. PICK a \in Answers(cur[r]) :
          /\ reply' = [reply EXCEPT ![r] = a]
          /\ pc' = [pc EXCEPT ![r] = IF a = "ok" THEN "confirm" ELSE "resolve"]
    BY DEF SubmitReturns
  <2>2. cur[r] \in Envelopes
    BY DEF SubmitReturns, IInv, TypeOK, RequestInv, Journaled
  <2>3. /\ a = "ok" => ledger[cur[r]] = "paid"
        /\ a = "codes" => ledger[cur[r]] = "failed" \/ (ledger[cur[r]] = "absent" /\ wire[cur[r]] = 0)
    BY <2>2 DEF Answers, IInv, EnvelopeInv
  <2> QED
    BY <2>1, <2>3 DEF SubmitReturns, db, sweeps, network, IInv, TypeOK, RequestInv, Untouched,
       Preparing, Journaled, Unsent, Held, Built
<1>5. ExclusionInv'
  BY DEF SubmitReturns, db, sweeps, network, IInv, TypeOK, ExclusionInv, Active, Preparing, Journaled
<1>6. SweepInv'
  BY DEF SubmitReturns, db, sweeps, network, IInv, TypeOK, SweepInv, Expired
<1> QED
  BY <1>1, <1>2, <1>3, <1>4, <1>5, <1>6 DEF IInv

LEMMA WriteConfirmedInv ==
  ASSUME Quiet, IInv, NEW r \in Requests, WriteConfirmed(r)
  PROVE  IInv'
<1> USE ConstantTypes
<1>1. TypeOK'
  BY RequestType DEF IInv, RequestStep
<1>2. EnvelopeInv'
  BY DEF WriteConfirmed, sweeps, network, IInv, TypeOK, EnvelopeInv, Untouched, Spent, Expired, Built
<1>3. RowInv'
  BY DEF WriteConfirmed, sweeps, network, IInv, TypeOK, RowInv, Hopeless, Spent, Expired, Unsent, Built, RequestInv, Journaled
<1>4. RequestInv'
  <2>1. \A q \in Requests : Preparing(q) /\ rearm[q] => key[q] # key[r]
    BY DEF WriteConfirmed, IInv, ExclusionInv, TypeOK, Active, Preparing, Journaled
  <2> QED
    BY <2>1 DEF WriteConfirmed, sweeps, network, IInv, TypeOK, RequestInv, Untouched, Preparing,
       Journaled, Unsent, Held, Built
<1>5. ExclusionInv'
  BY DEF WriteConfirmed, sweeps, network, IInv, TypeOK, ExclusionInv, Active, Preparing, Journaled
<1>6. SweepInv'
  BY DEF WriteConfirmed, sweeps, network, IInv, TypeOK, SweepInv, Expired
<1> QED
  BY <1>1, <1>2, <1>3, <1>4, <1>5, <1>6 DEF IInv

LEMMA ConfirmThrowsInv ==
  ASSUME Quiet, IInv, NEW r \in Requests, ConfirmThrows(r)
  PROVE  IInv'
<1> USE ConstantTypes
<1>1. TypeOK'
  BY RequestType DEF IInv, RequestStep
<1>2. EnvelopeInv'
  BY DEF ConfirmThrows, db, sweeps, network, IInv, TypeOK, EnvelopeInv, Untouched, Spent, Expired, Built
<1>3. RowInv'
  BY DEF ConfirmThrows, db, sweeps, network, IInv, TypeOK, RowInv, Hopeless, Spent, Expired, Unsent, Built
<1>4. RequestInv'
  BY DEF ConfirmThrows, db, sweeps, network, IInv, TypeOK, RequestInv, Untouched, Preparing, Journaled, Unsent, Held, Built
<1>5. ExclusionInv'
  BY DEF ConfirmThrows, db, sweeps, network, IInv, TypeOK, ExclusionInv, Active, Preparing, Journaled
<1>6. SweepInv'
  BY DEF ConfirmThrows, db, sweeps, network, IInv, TypeOK, SweepInv, Expired
<1> QED
  BY <1>1, <1>2, <1>3, <1>4, <1>5, <1>6 DEF IInv

LEMMA ResolveSubmitErrorInv ==
  ASSUME Quiet, IInv, NEW r \in Requests, ResolveSubmitError(r)
  PROVE  IInv'
<1> USE ConstantTypes
<1>1. TypeOK'
  BY RequestType DEF IInv, RequestStep
<1>2. EnvelopeInv'
  BY DEF ResolveSubmitError, db, sweeps, network, IInv, TypeOK, EnvelopeInv, Untouched, Spent, Expired, Built
<1>3. RowInv'
  BY DEF ResolveSubmitError, db, sweeps, network, IInv, TypeOK, RowInv, Hopeless, Spent, Expired, Unsent, Built
<1>4. RequestInv'
  <2>1. cur[r] \in Envelopes
    BY DEF ResolveSubmitError, IInv, TypeOK, RequestInv, Journaled
  <2>2. PICK found \in Lookup(cur[r]) :
          pc' = [pc EXCEPT ![r] = CASE found = "paid"       -> "confirm"
                                    [] found # "paid" /\ reply[r] = "codes" -> "fail"
                                    [] OTHER                -> "done"]
    BY DEF ResolveSubmitError
  <2>3. found = "paid" => ledger[cur[r]] = "paid"
    BY DEF Lookup
  <2>4. /\ pc'[r] \in {"confirm", "fail", "done"}
        /\ pc'[r] = "confirm" => ledger[cur[r]] = "paid"
        /\ pc'[r] = "fail" => reply[r] = "codes"
    BY <2>2, <2>3 DEF IInv, TypeOK
  <2>5. \A q \in Requests : q # r => pc'[q] = pc[q]
    BY <2>2 DEF IInv, TypeOK
  <2> QED
    BY <2>4, <2>5 DEF ResolveSubmitError, db, sweeps, network, IInv, TypeOK, RequestInv, Untouched,
       Preparing, Journaled, Unsent, Held, Built
<1>5. ExclusionInv'
  BY DEF ResolveSubmitError, db, sweeps, network, IInv, TypeOK, ExclusionInv, Active, Preparing, Journaled
<1>6. SweepInv'
  BY DEF ResolveSubmitError, db, sweeps, network, IInv, TypeOK, SweepInv, Expired
<1> QED
  BY <1>1, <1>2, <1>3, <1>4, <1>5, <1>6 DEF IInv

LEMMA WriteFailedInv ==
  ASSUME Quiet, IInv, NEW r \in Requests, WriteFailed(r)
  PROVE  IInv'
<1> USE ConstantTypes
<1>1. TypeOK'
  BY RequestType DEF IInv, RequestStep
<1>2. EnvelopeInv'
  BY DEF WriteFailed, sweeps, network, IInv, TypeOK, EnvelopeInv, Untouched, Spent, Expired, Built
<1>3. RowInv'
  <2>1. txHash[key[r]] = cur[r] /\ cur[r] \in Envelopes
    BY DEF WriteFailed, IInv, TypeOK, RequestInv, Journaled
  <2>2. ledger[cur[r]] = "failed" \/ (ledger[cur[r]] = "absent" /\ wire[cur[r]] = 0)
    BY DEF WriteFailed, IInv, RequestInv
  <2>3. \A q \in Requests : Unsent(q) => cur[q] # cur[r]
    <3> SUFFICES ASSUME NEW q \in Requests, Unsent(q), cur[q] = cur[r]
                 PROVE  FALSE
      OBVIOUS
    <3>1. pc[r] = "fail" /\ q # r /\ Journaled(q)
      BY DEF WriteFailed, Unsent, Journaled
    <3>2. txHash[key[q]] = cur[q] /\ cur[q] # NoEnv
      BY <3>1 DEF IInv, RequestInv
    <3>3. key[q] \in Keys /\ key[r] \in Keys
      BY DEF IInv, TypeOK
    <3>4. key[q] = key[r]
      BY <2>1, <3>2, <3>3 DEF IInv, RowInv
    <3>5. Preparing(r)
      BY <3>1, <3>4 DEF IInv, ExclusionInv, Active
    <3> QED
      BY <3>1, <3>5 DEF Preparing
  <2>4. \A q \in Requests : q # r => pc'[q] = pc[q]
    BY DEF WriteFailed, IInv, TypeOK
  <2> QED
    BY <2>1, <2>2, <2>3, <2>4 DEF WriteFailed, sweeps, network, IInv, TypeOK, RowInv, Hopeless,
       Spent, Expired, Unsent, Built
<1>4. RequestInv'
  BY DEF WriteFailed, sweeps, network, IInv, TypeOK, RequestInv, Untouched, Preparing, Journaled, Unsent, Held, Built
<1>5. ExclusionInv'
  BY DEF WriteFailed, sweeps, network, IInv, TypeOK, ExclusionInv, Active, Preparing, Journaled
<1>6. SweepInv'
  BY DEF WriteFailed, sweeps, network, IInv, TypeOK, SweepInv, Expired
<1> QED
  BY <1>1, <1>2, <1>3, <1>4, <1>5, <1>6 DEF IInv

LEMMA CrashInv ==
  ASSUME Quiet, IInv, NEW r \in Requests, Crash(r)
  PROVE  IInv'
<1> USE ConstantTypes
<1>1. TypeOK'
  BY RequestType DEF IInv, RequestStep
<1>2. EnvelopeInv'
  BY DEF Crash, db, sweeps, network, IInv, TypeOK, EnvelopeInv, Untouched, Spent, Expired, Built
<1>3. RowInv'
  BY DEF Crash, db, sweeps, network, IInv, TypeOK, RowInv, Hopeless, Spent, Expired, Unsent, Built
<1>4. RequestInv'
  BY DEF Crash, db, sweeps, network, IInv, TypeOK, RequestInv, Untouched, Preparing, Journaled, Unsent, Held, Built
<1>5. ExclusionInv'
  BY DEF Crash, db, sweeps, network, IInv, TypeOK, ExclusionInv, Active, Preparing, Journaled
<1>6. SweepInv'
  BY DEF Crash, db, sweeps, network, IInv, TypeOK, SweepInv, Expired
<1> QED
  BY <1>1, <1>2, <1>3, <1>4, <1>5, <1>6 DEF IInv

-----------------------------------------------------------------------------
(* The sweeps and the network.                                             *)

LEMMA StartSweepInv ==
  ASSUME Quiet, IInv, NEW s \in Sweepers, StartSweep(s)
  PROVE  IInv'
<1> USE ConstantTypes
<1>1. TypeOK'
  BY SweepType DEF IInv, SweepStep
<1>2. EnvelopeInv'
  BY DEF StartSweep, db, network, IInv, EnvelopeInv, Untouched, Spent, Expired, Built
<1>3. RowInv'
  BY DEF StartSweep, db, calls, network, IInv, RowInv, Hopeless, Spent, Expired, Unsent, Built
<1>4. RequestInv'
  <2>1. \A t \in Sweepers, k \in Keys :
          k \in todo'[t] => k \in todo[t] \/ status[k] # "FAILED"
    BY DEF StartSweep, Due, Open, IInv, TypeOK
  <2> QED
    BY <2>1 DEF StartSweep, db, calls, network, IInv, TypeOK, RequestInv, Untouched, Preparing,
       Journaled, Unsent, Held, Built
<1>5. ExclusionInv'
  BY DEF StartSweep, calls, IInv, ExclusionInv, Active, Preparing, Journaled
<1>6. SweepInv'
  <2>1. \A k \in Keys : Due(k) => txHash[k] # NoEnv
    BY DEF Due, Open, IInv, RowInv
  <2>2. \A k \in todo'[s] : snap'[s][k] = txHash[k] /\ txHash[k] # NoEnv
    BY <2>1 DEF StartSweep, IInv, TypeOK
  <2> QED
    BY <2>2 DEF StartSweep, db, network, IInv, TypeOK, SweepInv, Expired
<1> QED
  BY <1>1, <1>2, <1>3, <1>4, <1>5, <1>6 DEF IInv

\* What a lookup tells the sweep is true of the envelope the row records.
LEMMA RulingTrue ==
  ASSUME IInv, NEW s \in Sweepers, NEW k \in todo[s], NEW found \in Lookup(snap[s][k]),
         NEW x \in Ruling(s, k, found)
  PROVE  /\ x.key = k
         /\ x.status = "CONFIRMED" => ledger[txHash[k]] = "paid"
         /\ x.status = "FAILED" => \/ ledger[txHash[k]] = "failed"
                                   \/ ledger[txHash[k]] = "absent" /\ Expired(txHash[k])
<1> DEFINE e == txHash[k]
<1>1. e \in Envelopes /\ snap[s][k] = e /\ sweepNow[s] <= clock
  BY DEF IInv, TypeOK, SweepInv
<1>2. e \in indexed => found \in {"fault", ledger[e]} /\ ledger[e] \in {"paid", "failed"}
  BY <1>1 DEF Lookup, IInv, TypeOK, EnvelopeInv
<1>3. e \notin indexed => found \in {"fault", "not_found"}
  BY <1>1 DEF Lookup
<1>4. /\ env[e].expires \in Nat /\ clock \in Nat /\ sweepNow[s] \in Nat
      /\ ledger[e] \in {"absent", "paid", "failed"}
  BY <1>1 DEF IInv, TypeOK, Signed, Unbuilt
<1>5. ASSUME e \notin indexed, sweepNow[s] > env[e].expires + Buffer
      PROVE  ledger[e] = "absent" /\ Expired(e)
  <2>1. ledger[e] # "absent" => clock <= env[e].expires + Lag
    BY <1>1, <1>5 DEF IInv, EnvelopeInv
  <2>2. clock > env[e].expires + Lag /\ clock > env[e].expires
    BY <1>1, <1>4, <1>5, ConstantTypes
  <2> QED
    BY <1>4, <2>1, <2>2, ConstantTypes DEF Expired
<1>6. CASE found = "paid"
  BY <1>2, <1>3, <1>6 DEF Ruling
<1>7. CASE found = "failed"
  BY <1>2, <1>3, <1>7 DEF Ruling
<1>8. CASE found = "not_found" /\ sweepNow[s] > env[snap[s][k]].expires + Buffer
  BY <1>1, <1>2, <1>5, <1>8 DEF Ruling
<1>9. CASE found \notin {"paid", "failed"} /\ ~(found = "not_found" /\ sweepNow[s] > env[snap[s][k]].expires + Buffer)
  BY <1>9 DEF Ruling
<1> QED
  BY <1>6, <1>7, <1>8, <1>9

LEMMA ResolveRowInv ==
  ASSUME Quiet, IInv, NEW s \in Sweepers, NEW k \in todo[s], NEW found \in Lookup(snap[s][k]),
         ResolveRow(s, k, found)
  PROVE  IInv'
<1> USE ConstantTypes
<1>1. TypeOK'
  BY SweepType DEF IInv, SweepStep
<1>2. EnvelopeInv'
  BY DEF ResolveRow, db, network, IInv, EnvelopeInv, Untouched, Spent, Expired, Built
<1>3. RowInv'
  BY DEF ResolveRow, db, calls, network, IInv, RowInv, Hopeless, Spent, Expired, Unsent, Built
<1>a. \A x \in Ruling(s, k, found) : x.key = k
  BY RulingTrue
<1>4. RequestInv'
  <2>1. \A j \in Keys : Held(j)' => Held(j)
    BY <1>a DEF ResolveRow, Held, IInv, TypeOK
  <2> QED
    BY <2>1 DEF ResolveRow, db, calls, network, IInv, TypeOK, RequestInv, Untouched, Preparing,
       Journaled, Unsent, Built
<1>5. ExclusionInv'
  BY DEF ResolveRow, calls, IInv, ExclusionInv, Active, Preparing, Journaled
<1>6. SweepInv'
  <2>1. \A x \in ruling'[s] :
         /\ txHash[x.key] # NoEnv
         /\ x.status = "CONFIRMED" => ledger[txHash[x.key]] = "paid"
         /\ x.status = "FAILED" => \/ ledger[txHash[x.key]] = "failed"
                                   \/ ledger[txHash[x.key]] = "absent" /\ Expired(txHash[x.key])
    BY RulingTrue DEF ResolveRow, IInv, TypeOK, SweepInv
  <2> QED
    BY <2>1 DEF ResolveRow, db, network, IInv, TypeOK, SweepInv, Expired
<1> QED
  BY <1>1, <1>2, <1>3, <1>4, <1>5, <1>6 DEF IInv

LEMMA WriteRulingInv ==
  ASSUME Quiet, IInv, NEW s \in Sweepers, WriteRuling(s)
  PROVE  IInv'
<1> USE ConstantTypes
<1>1. TypeOK'
  BY SweepType DEF IInv, SweepStep
<1>2. EnvelopeInv'
  BY DEF WriteRuling, network, IInv, EnvelopeInv, Untouched, Spent, Expired, Built
<1>a. PICK x \in ruling[s] : status' = [status EXCEPT ![x.key] = x.status]
  BY DEF WriteRuling
<1>b. /\ x.key \in Keys /\ x.status \in {"CONFIRMED", "FAILED"}
      /\ Held(x.key)
      /\ txHash[x.key] # NoEnv
      /\ x.status = "CONFIRMED" => ledger[txHash[x.key]] = "paid"
      /\ x.status = "FAILED" => \/ ledger[txHash[x.key]] = "failed"
                                \/ ledger[txHash[x.key]] = "absent" /\ Expired(txHash[x.key])
  BY DEF IInv, TypeOK, SweepInv, Held
<1>3. RowInv'
  <2>1. status'[x.key] = x.status /\ \A j \in Keys : j # x.key => status'[j] = status[j]
    BY <1>a, <1>b DEF IInv, TypeOK
  <2>2. UNCHANGED <<txHash, pc, cur, clock, env, wire, ledger>>
    BY DEF WriteRuling, calls, network
  <2>3. \A e : Hopeless(e)' <=> Hopeless(e)
    BY <2>2 DEF Hopeless, Spent, Expired, Unsent
  <2>4. ASSUME x.status = "FAILED"
        PROVE  Hopeless(txHash[x.key])
    <3>1. CASE ledger[txHash[x.key]] = "failed"
      BY <3>1 DEF Hopeless, Spent
    <3>2. CASE ledger[txHash[x.key]] = "absent" /\ Expired(txHash[x.key])
      BY <3>2 DEF Hopeless, Spent
    <3> QED
      BY <1>b, <2>4, <3>1, <3>2
  <2> SUFFICES ASSUME NEW j \in Keys
               PROVE  /\ status'[j] = "NONE" <=> txHash[j] = NoEnv
                      /\ txHash[j] # NoEnv => Built(txHash[j]) /\ env[txHash[j]].key = j
                      /\ status'[j] = "FAILED" => Hopeless(txHash[j])
                      /\ status'[j] = "CONFIRMED" => ledger[txHash[j]] = "paid"
    BY <2>2, <2>3 DEF RowInv, Built
  <2>5. CASE j = x.key
    BY <1>b, <2>1, <2>4, <2>5 DEF IInv, RowInv
  <2>6. CASE j # x.key
    BY <2>1, <2>6 DEF IInv, RowInv
  <2> QED
    BY <2>5, <2>6
<1>4. RequestInv'
  <2>1. \A j \in Keys : (Held(j)' => Held(j)) /\ (~Held(j) => status'[j] = status[j])
    BY <1>a, <1>b DEF WriteRuling, Held, IInv, TypeOK
  <2> QED
    BY <2>1 DEF WriteRuling, calls, network, IInv, TypeOK, RequestInv, Untouched, Preparing,
       Journaled, Unsent, Built
<1>5. ExclusionInv'
  BY DEF WriteRuling, calls, IInv, ExclusionInv, Active, Preparing, Journaled
<1>6. SweepInv'
  BY DEF WriteRuling, network, IInv, TypeOK, SweepInv, Expired
<1> QED
  BY <1>1, <1>2, <1>3, <1>4, <1>5, <1>6 DEF IInv

LEMMA SweepEndsInv ==
  ASSUME Quiet, IInv, NEW s \in Sweepers, SweepCrash(s) \/ WriteThrows(s)
  PROVE  IInv'
<1> USE ConstantTypes
<1>1. TypeOK'
  BY SweepType DEF IInv, SweepStep
<1>2. EnvelopeInv'
  BY DEF SweepCrash, WriteThrows, db, network, IInv, EnvelopeInv, Untouched, Spent, Expired, Built
<1>3. RowInv'
  BY DEF SweepCrash, WriteThrows, db, calls, network, IInv, RowInv, Hopeless, Spent, Expired, Unsent, Built
<1>4. RequestInv'
  <2>1. \A j \in Keys : Held(j)' => Held(j)
    BY DEF SweepCrash, WriteThrows, Held, IInv, TypeOK
  <2> QED
    BY <2>1 DEF SweepCrash, WriteThrows, db, calls, network, IInv, TypeOK, RequestInv, Untouched,
       Preparing, Journaled, Unsent, Built
<1>5. ExclusionInv'
  BY DEF SweepCrash, WriteThrows, calls, IInv, ExclusionInv, Active, Preparing, Journaled
<1>6. SweepInv'
  BY DEF SweepCrash, WriteThrows, db, network, IInv, TypeOK, SweepInv, Expired
<1> QED
  BY <1>1, <1>2, <1>3, <1>4, <1>5, <1>6 DEF IInv

LEMMA TickInv ==
  ASSUME Quiet, IInv, Tick
  PROVE  IInv'
<1> USE ConstantTypes
<1>1. TypeOK'
  BY NetworkType DEF IInv, NetworkStep
<1>a. /\ clock \in Nat /\ clock' = clock + 1 /\ UNCHANGED env
      /\ \A e \in Envelopes : env[e].expires \in Nat
  BY DEF Tick, IInv, TypeOK, Signed, Unbuilt
<1>b. \A e \in Envelopes : Expired(e) => Expired(e)'
  BY <1>a DEF Expired
<1>2. EnvelopeInv'
  BY <1>a, <1>b DEF Tick, db, IInv, EnvelopeInv, Untouched, Spent, Built
<1>3. RowInv'
  BY <1>b DEF Tick, db, calls, IInv, TypeOK, RowInv, Hopeless, Spent, Unsent, Built
<1>4. RequestInv'
  BY DEF Tick, db, calls, sweeps, IInv, RequestInv, Untouched, Preparing, Journaled, Unsent, Held, Built
<1>5. ExclusionInv'
  BY DEF Tick, calls, IInv, ExclusionInv, Active, Preparing, Journaled
<1>6. SweepInv'
  BY <1>a, <1>b DEF Tick, db, sweeps, IInv, TypeOK, SweepInv
<1> QED
  BY <1>1, <1>2, <1>3, <1>4, <1>5, <1>6 DEF IInv

LEMMA ExecuteInv ==
  ASSUME Quiet, IInv, NEW e \in Envelopes, Execute(e)
  PROVE  IInv'
<1> USE ConstantTypes
<1>1. TypeOK'
  BY NetworkType DEF IInv, NetworkStep
<1>a. /\ wire[e] = 1 /\ ledger[e] = "absent" /\ ~Expired(e) /\ ~Spent(e)
      /\ Built(e) /\ e \notin rejected /\ e \notin indexed
      /\ env[e].expires \in Nat /\ clock \in Nat
  BY DEF Execute, IInv, TypeOK, EnvelopeInv, Untouched, Expired, Spent, Signed, Unbuilt
<1>b. /\ ledger'[e] \in {"paid", "failed"} /\ wire'[e] = 0 /\ clock' = clock /\ env' = env
      /\ \A f \in Envelopes : f # e => ledger'[f] = ledger[f] /\ wire'[f] = wire[f]
  BY <1>a DEF Execute, IInv, TypeOK
<1>c. txHash[env[e].key] = e /\ env[e].key \in Keys
  BY <1>a DEF IInv, EnvelopeInv
<1>d. clock <= env[e].expires + Lag
  BY <1>a DEF Expired
<1>2. EnvelopeInv'
  BY <1>a, <1>b, <1>c, <1>d DEF Execute, db, IInv, EnvelopeInv, Untouched, Spent, Expired, Built
<1>3. RowInv'
  BY <1>a, <1>b DEF Execute, db, calls, IInv, TypeOK, RowInv, Hopeless, Spent, Expired, Unsent, Built
<1>4. RequestInv'
  BY <1>a, <1>b DEF Execute, db, calls, sweeps, IInv, TypeOK, RequestInv, Untouched, Preparing,
     Journaled, Unsent, Held, Built
<1>5. ExclusionInv'
  BY DEF Execute, calls, IInv, ExclusionInv, Active, Preparing, Journaled
<1>6. SweepInv'
  BY <1>a, <1>b DEF Execute, db, sweeps, IInv, TypeOK, SweepInv, Expired
<1> QED
  BY <1>1, <1>2, <1>3, <1>4, <1>5, <1>6 DEF IInv

LEMMA RefuseInv ==
  ASSUME Quiet, IInv, NEW e \in Envelopes, Refuse(e)
  PROVE  IInv'
<1> USE ConstantTypes
<1>1. TypeOK'
  BY NetworkType DEF IInv, NetworkStep
<1>a. /\ wire[e] = 1 /\ ledger[e] = "absent" /\ wire'[e] = 0
      /\ \A f \in Envelopes : f # e => wire'[f] = wire[f]
      /\ \A f \in Envelopes : f # e => (f \in rejected' <=> f \in rejected)
  BY DEF Refuse, IInv, TypeOK, EnvelopeInv
<1>2. EnvelopeInv'
  BY <1>a DEF Refuse, db, IInv, EnvelopeInv, Untouched, Spent, Expired, Built
<1>3. RowInv'
  BY <1>a DEF Refuse, db, calls, IInv, TypeOK, RowInv, Hopeless, Spent, Expired, Unsent, Built
<1>4. RequestInv'
  BY <1>a DEF Refuse, db, calls, sweeps, IInv, TypeOK, RequestInv, Untouched, Preparing,
     Journaled, Unsent, Held, Built
<1>5. ExclusionInv'
  BY DEF Refuse, calls, IInv, ExclusionInv, Active, Preparing, Journaled
<1>6. SweepInv'
  BY DEF Refuse, db, sweeps, IInv, TypeOK, SweepInv, Expired
<1> QED
  BY <1>1, <1>2, <1>3, <1>4, <1>5, <1>6 DEF IInv

LEMMA IndexInv ==
  ASSUME Quiet, IInv, (\E e \in Envelopes : Index(e)) \/ LockExpires
  PROVE  IInv'
<1> USE ConstantTypes
<1>1. TypeOK'
  BY NetworkType DEF IInv, NetworkStep
<1>2. EnvelopeInv'
  BY DEF Index, LockExpires, db, network, IInv, EnvelopeInv, Untouched, Spent, Expired, Built
<1>3. RowInv'
  BY DEF Index, LockExpires, db, calls, network, IInv, RowInv, Hopeless, Spent, Expired, Unsent, Built
<1>4. RequestInv'
  BY DEF Index, LockExpires, db, calls, sweeps, network, IInv, RequestInv, Untouched, Preparing,
     Journaled, Unsent, Held, Built
<1>5. ExclusionInv'
  BY DEF Index, LockExpires, calls, IInv, ExclusionInv, Active, Preparing, Journaled
<1>6. SweepInv'
  BY DEF Index, LockExpires, db, sweeps, network, IInv, SweepInv, Expired
<1> QED
  BY <1>1, <1>2, <1>3, <1>4, <1>5, <1>6 DEF IInv

-----------------------------------------------------------------------------
(* The theorems.                                                           *)

LEMMA StutterInv == IInv /\ UNCHANGED vars => IInv'
<1> SUFFICES ASSUME IInv, UNCHANGED vars PROVE IInv'
  OBVIOUS
<1> USE DEF vars, db, calls, sweeps, network
<1>1. TypeOK'
  BY StutterType DEF IInv
<1>2. EnvelopeInv'
  BY DEF IInv, EnvelopeInv, Untouched, Spent, Expired, Built
<1>3. RowInv'
  BY DEF IInv, RowInv, Hopeless, Spent, Expired, Unsent, Built
<1>4. RequestInv'
  BY DEF IInv, RequestInv, Untouched, Preparing, Journaled, Unsent, Held, Built
<1>5. ExclusionInv' /\ SweepInv'
  BY DEF IInv, ExclusionInv, SweepInv, Active, Preparing, Journaled, Expired
<1> QED
  BY <1>1, <1>2, <1>3, <1>4, <1>5 DEF IInv

LEMMA NextInv ==
  ASSUME Quiet
  PROVE  IInv /\ [Next]_vars => IInv'
<1> SUFFICES ASSUME IInv, [Next]_vars PROVE IInv'
  OBVIOUS
<1>1. ASSUME NEW r \in Requests, RequestStep(r)
      PROVE  IInv'
  BY <1>1, CallInv, BuildUsdcPaymentInv, RearmInv, CreateInv, MarkSubmittedInv, SubmitXdrInv,
     SubmitReturnsInv, WriteConfirmedInv, ConfirmThrowsInv, ResolveSubmitErrorInv, WriteFailedInv,
     CrashInv DEF RequestStep
<1>2. ASSUME NEW s \in Sweepers, SweepStep(s)
      PROVE  IInv'
  <2>1. ASSUME NEW k \in todo[s], NEW found \in Lookup(snap[s][k]), ResolveRow(s, k, found)
        PROVE  IInv'
    BY <2>1, ResolveRowInv
  <2> QED
    BY <1>2, <2>1, StartSweepInv, WriteRulingInv, SweepEndsInv DEF SweepStep
<1>3. CASE NetworkStep \/ LockExpires
  BY <1>3, TickInv, ExecuteInv, RefuseInv, IndexInv DEF NetworkStep
<1> QED
  BY <1>1, <1>2, <1>3, StutterInv DEF Next

\* With quiet retries and single delivery the invariant holds: at any moment only
\* the envelope a row records can still pay for its key.
THEOREM Invariance ==
  ASSUME Quiet
  PROVE  Spec => []IInv
<1>1. Init => IInv
  BY InitInv
<1>2. IInv /\ [Next]_vars => IInv'
  BY NextInv
<1> QED
  BY <1>1, <1>2, PTL DEF Spec

LEMMA PaidIsRecorded ==
  ASSUME IInv, NEW k \in Keys, NEW e \in Paid(k)
  PROVE  e = txHash[k]
BY DEF Paid, IInv, TypeOK, EnvelopeInv, Spent, Built, Unbuilt, Untouched

\* No key is ever paid twice.
THEOREM NeverPaidTwice ==
  ASSUME Quiet
  PROVE  Spec => []PaidAtMostOnce
<1>1. IInv => PaidAtMostOnce
  BY PaidIsRecorded DEF PaidAtMostOnce
<1> QED
  BY <1>1, Invariance, PTL

\* What a row says is true of the chain, FAILED now and for good, and it records the
\* envelope that paid its key.
THEOREM AnswersAreTrue ==
  ASSUME Quiet
  PROVE  Spec => []JournalIsTrue
<1>1. IInv => FailedMeansUnpaid
  BY PaidIsRecorded DEF FailedMeansUnpaid, IInv, RowInv, Hopeless, Spent, Paid
<1>2. IInv => ConfirmedMeansPaid
  <2> SUFFICES ASSUME IInv, NEW k \in Keys, status[k] = "CONFIRMED"
               PROVE  txHash[k] \in Paid(k)
    BY DEF ConfirmedMeansPaid
  <2>1. txHash[k] \in Envelopes /\ env[txHash[k]].key = k /\ ledger[txHash[k]] = "paid"
    BY DEF IInv, TypeOK, RowInv
  <2> QED
    BY <2>1 DEF Paid
<1>3. IInv => FailedIsFinal
  <2> SUFFICES ASSUME IInv, NEW k \in Keys, status[k] = "FAILED",
                      NEW e \in Envelopes, env[e].key = k, Live(e)
               PROVE  FALSE
    BY DEF FailedIsFinal
  <2>1. ledger[e] = "absent" /\ ~Expired(e) /\ Built(e)
    BY DEF Live, Expired, IInv, TypeOK, Signed, Unbuilt
  <2>2. txHash[k] # e
    BY <2>1 DEF IInv, RowInv, Hopeless, Spent, Live, Unsent
  <2>3. wire[e] = 0
    BY <2>1, <2>2 DEF IInv, EnvelopeInv, Spent, TypeOK
  <2>4. \A r \in Requests : Unsent(r) => cur[r] # e
    BY <2>2 DEF IInv, RequestInv, RowInv, Journaled, Unsent, TypeOK
  <2> QED
    BY <2>3, <2>4 DEF Live, Unsent, IInv, TypeOK
<1>4. IInv => PaidIsJournaled
  BY PaidIsRecorded DEF PaidIsJournaled
<1>5. IInv => JournalIsTrue
  BY <1>1, <1>2, <1>3, <1>4 DEF JournalIsTrue
<1> QED
  BY <1>5, Invariance, PTL

-----------------------------------------------------------------------------
(* The journal implements the payments its callers see.                    *)

LEMMA InitRefines == Init => Payments!Init
<1> SUFFICES ASSUME Init PROVE Payments!Init
  OBVIOUS
<1>1. \A k \in Keys : Answer(k) = "none"
  BY DEF Init, Answer, Open
<1>2. \A k \in Keys : Paid(k) = {}
  BY DEF Init, Paid
<1> QED
  BY <1>1, <1>2 DEF Payments!Init

\* A step that writes no status and executes no payment is invisible.
LEMMA Invisible ==
  ASSUME UNCHANGED status, \A k \in Keys : Paid(k)' = Paid(k)
  PROVE  UNCHANGED Payments!vars
BY DEF Payments!vars, Answer

LEMMA PaidUnchanged ==
  ASSUME UNCHANGED <<env, ledger>>
  PROVE  \A k \in Keys : Paid(k)' = Paid(k)
BY DEF Paid

\* A write of one row's status is one of the steps callers may see.
LEMMA StatusStep ==
  ASSUME TypeOK, NEW k \in Keys, NEW v \in Statuses \ {"NONE"},
         status' = [status EXCEPT ![k] = v],
         \A j \in Keys : Paid(j)' = Paid(j),
         v \in Open => status[k] # "CONFIRMED",
         v = "CONFIRMED" => status[k] \notin {"NONE", "FAILED"} /\ Paid(k) # {},
         v = "FAILED" => status[k] \notin {"NONE", "CONFIRMED"} /\ Paid(k) = {}
  PROVE  [Payments!Next]_(Payments!vars)
<1> DEFINE ans == [j \in Keys |-> Answer(j)]
           mov == [j \in Keys |-> Paid(j) # {}]
<1>1. mov' = mov
  OBVIOUS
<1>2. \A j \in Keys : j # k => Answer(j)' = Answer(j)
  BY DEF Answer, TypeOK
<1>3. status[k] \in Statuses /\ status'[k] = v
  BY DEF TypeOK
<1>4. ans' = [ans EXCEPT ![k] = Answer(k)']
  BY <1>2
<1>5. CASE v \in Open
  <2>1. Answer(k)' = "open"
    BY <1>3, <1>5 DEF Answer, Open
  <2>2. CASE status[k] \in Open
    <3>1. Answer(k) = "open"
      BY <2>2 DEF Answer, Open
    <3> QED
      BY <1>1, <1>4, <2>1, <3>1 DEF Payments!vars
  <2>3. CASE status[k] \notin Open
    <3>1. ans[k] \in {"none", "failed"}
      BY <1>3, <1>5, <2>3 DEF Answer, Open, Statuses
    <3> QED
      BY <1>1, <1>4, <2>1, <3>1 DEF Payments!Next, Payments!Open
  <2> QED
    BY <2>2, <2>3
<1>6. CASE v = "CONFIRMED"
  <2>1. Answer(k)' = "confirmed"
    BY <1>3, <1>6 DEF Answer, Open
  <2>2. CASE status[k] = "CONFIRMED"
    <3>1. Answer(k) = "confirmed"
      BY <2>2 DEF Answer, Open
    <3> QED
      BY <1>1, <1>4, <2>1, <3>1 DEF Payments!vars
  <2>3. CASE status[k] # "CONFIRMED"
    <3>1. ans[k] = "open" /\ mov[k]
      BY <1>3, <1>6, <2>3 DEF Answer, Open, Statuses
    <3> QED
      BY <1>1, <1>4, <2>1, <3>1 DEF Payments!Next, Payments!Confirm
  <2> QED
    BY <2>2, <2>3
<1>7. CASE v = "FAILED"
  <2>1. Answer(k)' = "failed"
    BY <1>3, <1>7 DEF Answer, Open
  <2>2. CASE status[k] = "FAILED"
    <3>1. Answer(k) = "failed"
      BY <2>2 DEF Answer, Open
    <3> QED
      BY <1>1, <1>4, <2>1, <3>1 DEF Payments!vars
  <2>3. CASE status[k] # "FAILED"
    <3>1. ans[k] = "open" /\ ~mov[k]
      BY <1>3, <1>7, <2>3 DEF Answer, Open, Statuses
    <3> QED
      BY <1>1, <1>4, <2>1, <3>1 DEF Payments!Next, Payments!Fail
  <2> QED
    BY <2>2, <2>3
<1> QED
  BY <1>5, <1>6, <1>7 DEF Statuses, Open

LEMMA RequestRefines ==
  ASSUME Quiet, IInv, NEW r \in Requests, RequestStep(r)
  PROVE  [Payments!Next]_(Payments!vars)
<1> USE DEF db, network
<1>1. CASE Call(r) \/ SubmitReturns(r) \/ ConfirmThrows(r) \/ ResolveSubmitError(r) \/ Crash(r)
  BY <1>1, Invisible, PaidUnchanged DEF Call, SubmitReturns, ConfirmThrows, ResolveSubmitError, Crash
<1>2. CASE SubmitXdr(r)
  BY <1>2, Invisible, PaidUnchanged DEF SubmitXdr
<1>3. CASE BuildUsdcPayment(r)
  <2>1. \A e \in Envelopes : env'[e] # env[e] => ledger[e] = "absent"
    BY <1>3 DEF BuildUsdcPayment, Built, Untouched, IInv, TypeOK, EnvelopeInv
  <2>2. \A k \in Keys : Paid(k)' = Paid(k)
    BY <1>3, <2>1 DEF BuildUsdcPayment, Paid
  <2> QED
    BY <1>3, <2>2, Invisible DEF BuildUsdcPayment
<1>4. CASE Rearm(r)
  <2>1. status[key[r]] = "FAILED" /\ key[r] \in Keys
    BY <1>4 DEF Rearm, IInv, TypeOK, RequestInv, Preparing
  <2> QED
    BY <1>4, <2>1, StatusStep, PaidUnchanged DEF Rearm, Open, Statuses, IInv
<1>5. CASE Create(r)
  <2>1. CASE status[key[r]] = "NONE"
    BY <1>5, <2>1, StatusStep, PaidUnchanged DEF Create, Open, Statuses, IInv, TypeOK
  <2>2. CASE status[key[r]] # "NONE"
    BY <1>5, <2>2, Invisible, PaidUnchanged DEF Create
  <2> QED
    BY <2>1, <2>2
<1>6. CASE MarkSubmitted(r)
  <2>1. ledger[txHash[key[r]]] = "absent" /\ key[r] \in Keys
    BY <1>6 DEF MarkSubmitted, IInv, TypeOK, RequestInv, Unsent, Journaled, Untouched
  <2>2. status[key[r]] # "CONFIRMED"
    BY <2>1 DEF IInv, RowInv
  <2> QED
    BY <1>6, <2>1, <2>2, StatusStep, PaidUnchanged DEF MarkSubmitted, Open, Statuses, IInv
<1>7. CASE WriteConfirmed(r)
  <2>1. /\ key[r] \in Keys /\ txHash[key[r]] = cur[r] /\ cur[r] \in Envelopes
        /\ env[cur[r]].key = key[r] /\ ledger[cur[r]] = "paid"
    BY <1>7 DEF WriteConfirmed, IInv, TypeOK, RequestInv, RowInv, Journaled
  <2>2. cur[r] \in Paid(key[r]) /\ status[key[r]] \notin {"NONE", "FAILED"}
    BY <2>1, ConstantTypes DEF Paid, IInv, RowInv, Hopeless, Spent
  <2> QED
    BY <1>7, <2>1, <2>2, StatusStep, PaidUnchanged DEF WriteConfirmed, Open, Statuses, IInv
<1>8. CASE WriteFailed(r)
  <2>1. /\ key[r] \in Keys /\ txHash[key[r]] = cur[r] /\ cur[r] \in Envelopes
        /\ ledger[cur[r]] # "paid"
    BY <1>8 DEF WriteFailed, IInv, TypeOK, RequestInv, Journaled
  <2>2. Paid(key[r]) = {} /\ status[key[r]] \notin {"NONE", "CONFIRMED"}
    BY <2>1, PaidIsRecorded, ConstantTypes DEF Paid, IInv, RowInv
  <2> QED
    BY <1>8, <2>1, <2>2, StatusStep, PaidUnchanged DEF WriteFailed, Open, Statuses, IInv
<1> QED
  BY <1>1, <1>2, <1>3, <1>4, <1>5, <1>6, <1>7, <1>8 DEF RequestStep

LEMMA SweepRefines ==
  ASSUME Quiet, IInv, NEW s \in Sweepers, SweepStep(s)
  PROVE  [Payments!Next]_(Payments!vars)
<1> USE DEF db, network
<1>1. CASE StartSweep(s) \/ SweepCrash(s) \/ WriteThrows(s)
  BY <1>1, Invisible, PaidUnchanged DEF StartSweep, SweepCrash, WriteThrows
<1>2. ASSUME NEW k \in todo[s], NEW found \in Lookup(snap[s][k]), ResolveRow(s, k, found)
      PROVE  [Payments!Next]_(Payments!vars)
  BY <1>2, Invisible, PaidUnchanged DEF ResolveRow
<1>3. CASE WriteRuling(s)
  <2>1. PICK x \in ruling[s] : status' = [status EXCEPT ![x.key] = x.status]
    BY <1>3 DEF WriteRuling
  <2>2. /\ x.key \in Keys /\ x.status \in {"CONFIRMED", "FAILED"}
        /\ txHash[x.key] \in Envelopes /\ env[txHash[x.key]].key = x.key
        /\ status[x.key] # "NONE"
    BY DEF IInv, TypeOK, SweepInv, RowInv
  <2>3. CASE x.status = "CONFIRMED"
    <3>1. ledger[txHash[x.key]] = "paid"
      BY <2>3 DEF IInv, SweepInv
    <3>2. Paid(x.key) # {} /\ status[x.key] # "FAILED"
      BY <2>2, <3>1 DEF Paid, IInv, RowInv, Hopeless, Spent
    <3> QED
      BY <1>3, <2>1, <2>2, <2>3, <3>2, StatusStep, PaidUnchanged DEF WriteRuling, Open, Statuses, IInv
  <2>4. CASE x.status = "FAILED"
    <3>1. ledger[txHash[x.key]] # "paid"
      BY <2>4 DEF IInv, SweepInv
    <3>2. Paid(x.key) = {} /\ status[x.key] # "CONFIRMED"
      BY <2>2, <3>1, PaidIsRecorded DEF Paid, IInv, RowInv
    <3> QED
      BY <1>3, <2>1, <2>2, <2>4, <3>2, StatusStep, PaidUnchanged DEF WriteRuling, Open, Statuses, IInv
  <2> QED
    BY <2>2, <2>3, <2>4
<1> QED
  BY <1>1, <1>2, <1>3 DEF SweepStep

LEMMA ExecuteRefines ==
  ASSUME Quiet, IInv, NEW e \in Envelopes, Execute(e)
  PROVE  [Payments!Next]_(Payments!vars)
<1> DEFINE k == env[e].key
<1>1. /\ wire[e] > 0 /\ ledger[e] = "absent" /\ ~Expired(e)
      /\ ledger'[e] \in {"paid", "failed"} /\ UNCHANGED <<status, env>>
      /\ \A f \in Envelopes : f # e => ledger'[f] = ledger[f]
  BY DEF Execute, db, Expired, IInv, TypeOK, Signed, Unbuilt
<1>2. /\ Built(e) /\ k \in Keys /\ txHash[k] = e
  BY <1>1 DEF IInv, TypeOK, EnvelopeInv, Untouched, Spent
<1>3. status[k] \in Open
  <2>1. status[k] # "NONE"
    BY <1>2, ConstantTypes DEF IInv, RowInv
  <2>2. status[k] # "CONFIRMED"
    BY <1>1, <1>2 DEF IInv, RowInv
  <2>3. ~Spent(e)
    BY <1>1 DEF Spent
  <2>4. status[k] # "FAILED"
    BY <1>2, <2>3 DEF IInv, RowInv, Hopeless
  <2> QED
    BY <1>2, <2>1, <2>2, <2>4 DEF IInv, TypeOK, Open, Statuses
<1>4. Paid(k) = {}
  BY <1>1, <1>2, PaidIsRecorded DEF Paid
<1>5. \A j \in Keys : j # k => Paid(j)' = Paid(j)
  BY <1>1 DEF Paid
<1>6. CASE ledger'[e] = "failed"
  <2>1. Paid(k)' = Paid(k)
    BY <1>1, <1>6 DEF Paid
  <2> QED
    BY <1>1, <1>5, <2>1, Invisible
<1>7. CASE ledger'[e] = "paid"
  <2> DEFINE ans == [j \in Keys |-> Answer(j)]
             mov == [j \in Keys |-> Paid(j) # {}]
  <2>1. e \in Paid(k)'
    BY <1>1, <1>7 DEF Paid
  <2>2. mov' = [mov EXCEPT ![k] = TRUE]
    BY <1>1, <1>2, <1>5, <2>1
  <2>3. ans' = ans
    BY <1>1 DEF Answer
  <2>4. ans[k] = "open" /\ ~mov[k]
    BY <1>2, <1>3, <1>4 DEF Answer, Open
  <2> QED
    BY <1>2, <2>2, <2>3, <2>4 DEF Payments!Next, Payments!Move
<1> QED
  BY <1>1, <1>6, <1>7

LEMMA NetworkRefines ==
  ASSUME Quiet, IInv, NetworkStep \/ LockExpires
  PROVE  [Payments!Next]_(Payments!vars)
<1> USE DEF db, network
<1>1. CASE Tick \/ LockExpires
  BY <1>1, Invisible, PaidUnchanged DEF Tick, LockExpires
<1>2. ASSUME NEW e \in Envelopes, Refuse(e) \/ Index(e)
      PROVE  [Payments!Next]_(Payments!vars)
  BY <1>2, Invisible, PaidUnchanged DEF Refuse, Index
<1> QED
  BY <1>1, <1>2, ExecuteRefines DEF NetworkStep

\* Seen from its callers the journal is Payment: whatever crashes, times out,
\* overlaps or is retried, a key's money moves once and its answer is true.
THEOREM Implementation ==
  ASSUME Quiet
  PROVE  Spec => ImplementsPayment
<1>1. Init => Payments!Init
  BY InitRefines
<1>2. IInv /\ [Next]_vars => [Payments!Next]_(Payments!vars)
  <2>1. IInv /\ UNCHANGED vars => UNCHANGED Payments!vars
    BY Invisible, PaidUnchanged DEF vars, db, network
  <2> QED
    BY <2>1, RequestRefines, SweepRefines, NetworkRefines DEF Next
<1> QED
  BY <1>1, <1>2, Invariance, PTL DEF Spec, ImplementsPayment, Payments!Spec
=============================================================================
