----------------------------- MODULE ChainTxInv -----------------------------
(***************************************************************************)
(* The inductive invariant behind the safety properties of ChainTx, for    *)
(* the environment they hold in: retries of a FAILED key are quiet and an  *)
(* envelope is delivered at most once.                                     *)
(*                                                                         *)
(* The argument.  The row of a key records one envelope.  Every other      *)
(* envelope of the key is spent: it can never pay.  A retry replaces the   *)
(* recorded envelope only when that one is spent too, and the row says so  *)
(* by FAILED; so at any moment at most one envelope of a key can pay.      *)
(***************************************************************************)
EXTENDS ChainTx

Quiet == Retries = "quiet" /\ ~Redelivery

Preparing(r) == pc[r] \in {"build", "journal"}
Journaled(r) == pc[r] \in {"mark", "send", "await", "confirm", "resolve", "fail"}
Unsent(r) == pc[r] \in {"mark", "send"}

Expired(e) == clock > env[e].expires

\* The network will never execute e as a payment, given what is on the wire.
Spent(e) == \/ ledger[e] = "failed"
            \/ ledger[e] = "absent" /\ (wire[e] = 0 \/ Expired(e))

\* Nor will it after what the requests may still send.
Hopeless(e) ==
  /\ Spent(e)
  /\ ledger[e] = "absent" /\ ~Expired(e) => \A r \in Requests : Unsent(r) => cur[r] # e

\* Nothing happened to e yet.
Untouched(e) == wire[e] = 0 /\ ledger[e] = "absent" /\ e \notin indexed /\ e \notin rejected

EnvelopeInv ==
  \A e \in Envelopes :
    /\ ~Built(e) => Untouched(e)
    /\ Built(e) => env[e].key \in Keys
    /\ Built(e) /\ txHash[env[e].key] # e => Spent(e)
    /\ wire[e] <= 1
    /\ ledger[e] # "absent" => wire[e] = 0
    /\ e \in rejected => wire[e] = 0 /\ ledger[e] = "absent"
    /\ e \in indexed => ledger[e] # "absent"
    /\ ledger[e] # "absent" /\ e \notin indexed => clock <= env[e].expires + Lag

RowInv ==
  \A k \in Keys :
    /\ status[k] = "NONE" <=> txHash[k] = NoEnv
    /\ txHash[k] # NoEnv => Built(txHash[k]) /\ env[txHash[k]].key = k
    /\ status[k] = "FAILED" => Hopeless(txHash[k])
    /\ status[k] = "CONFIRMED" => ledger[txHash[k]] = "paid"

RequestInv ==
  \A r \in Requests :
    /\ pc[r] = "journal" => /\ cur[r] \in Envelopes
                            /\ Built(cur[r]) /\ env[cur[r]].key = key[r]
                            /\ Untouched(cur[r])
                            /\ txHash[key[r]] # cur[r]
    /\ Journaled(r) => txHash[key[r]] = cur[r] /\ cur[r] # NoEnv
    /\ Unsent(r) => Untouched(cur[r])
    /\ pc[r] = "confirm" => ledger[cur[r]] = "paid"
    /\ pc[r] \in {"resolve", "fail"} /\ reply[r] = "codes"
         => ledger[cur[r]] = "failed" \/ (ledger[cur[r]] = "absent" /\ wire[cur[r]] = 0)
    /\ pc[r] = "fail" => reply[r] = "codes"
    /\ Preparing(r) /\ rearm[r] => status[key[r]] = "FAILED" /\ ~Held(key[r])

\* Two calls for one key are active together only while all but one of them
\* are first calls that have not created the row.
ExclusionInv ==
  \A r, q \in Requests :
    /\ r # q /\ key[r] = key[q] /\ Active(q)
       => /\ Journaled(r) => Preparing(q) /\ ~rearm[q]
          /\ Preparing(r) => ~(Preparing(q) /\ rearm[q])
    /\ r # q /\ pc[r] = "journal" /\ pc[q] = "journal" => cur[r] # cur[q]

SweepInv ==
  \A s \in Sweepers :
    /\ sweepNow[s] <= clock
    /\ \A k \in todo[s] : snap[s][k] = txHash[k] /\ txHash[k] # NoEnv
    /\ \A x \in ruling[s] :
         /\ txHash[x.key] # NoEnv
         /\ x.status = "CONFIRMED" => ledger[txHash[x.key]] = "paid"
         /\ x.status = "FAILED" => \/ ledger[txHash[x.key]] = "failed"
                                   \/ ledger[txHash[x.key]] = "absent" /\ Expired(txHash[x.key])

IInv == TypeOK /\ EnvelopeInv /\ RowInv /\ RequestInv /\ ExclusionInv /\ SweepInv
=============================================================================
