------------------------------ MODULE Payment ------------------------------
(***************************************************************************)
(* What ChainTxService promises to its callers (apps/api/src/stellar):     *)
(* an idempotency key stands for one payment.  A key is opened by a call,  *)
(* the money moves at most once while the key is open, and the recorded    *)
(* answer is the truth about it: CONFIRMED means moved, FAILED means not   *)
(* moved, and only a FAILED key may be opened again.  ChainTx implements   *)
(* this specification under its refinement mapping.                        *)
(***************************************************************************)
CONSTANT Keys

VARIABLES answer,   \* the recorded answer of each key
          moved     \* whether the payment of each key moved value

vars == <<answer, moved>>

Answers == {"none", "open", "confirmed", "failed"}

Init == /\ answer = [k \in Keys |-> "none"]
        /\ moved = [k \in Keys |-> FALSE]

\* A call journals a first attempt, or another one after a definitive failure.
Open(k) ==
  /\ answer[k] \in {"none", "failed"}
  /\ answer' = [answer EXCEPT ![k] = "open"]
  /\ UNCHANGED moved

\* The network executes the payment.
Move(k) ==
  /\ answer[k] = "open"
  /\ ~moved[k]
  /\ moved' = [moved EXCEPT ![k] = TRUE]
  /\ UNCHANGED answer

Confirm(k) ==
  /\ answer[k] = "open"
  /\ moved[k]
  /\ answer' = [answer EXCEPT ![k] = "confirmed"]
  /\ UNCHANGED moved

Fail(k) ==
  /\ answer[k] = "open"
  /\ ~moved[k]
  /\ answer' = [answer EXCEPT ![k] = "failed"]
  /\ UNCHANGED moved

Next == \E k \in Keys : Open(k) \/ Move(k) \/ Confirm(k) \/ Fail(k)

Spec == Init /\ [][Next]_vars
=============================================================================
