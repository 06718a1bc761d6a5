------------------------------- MODULE Ledger -------------------------------
(***************************************************************************)
(* What LedgerService promises the rest of the API: a journal is posted    *)
(* whole, once, and only when every player it debits can pay for it; a     *)
(* caller who is told that a journal is posted can rely on it.             *)
(***************************************************************************)
EXTENDS Integers

CONSTANTS
  Players, House,
  Journals,        \* idempotency keys
  Debit, Credit    \* what a journal takes from and gives to each account

VARIABLES
  bal,      \* balances
  posted,   \* journals in the ledger
  acked     \* journals some caller was told are posted

vars == <<bal, posted, acked>>

Accounts == Players \cup {House}

Init ==
  /\ bal = [a \in Accounts |-> 0]
  /\ posted = {}
  /\ acked = {}

\* Only players are kept from overdrawing; the house absorbs float.
Covered(j) == \A a \in Players : Debit[j][a] <= bal[a]

\* The journal is posted; its caller learns of it now, later, or never.
Post(j) ==
  /\ j \notin posted
  /\ Covered(j)
  /\ bal' = [a \in Accounts |-> bal[a] + Credit[j][a] - Debit[j][a]]
  /\ posted' = posted \cup {j}
  /\ acked' \in {acked, acked \cup {j}}

Acknowledge(j) ==
  /\ j \in posted
  /\ acked' = acked \cup {j}
  /\ UNCHANGED <<bal, posted>>

Next == \E j \in Journals : Post(j) \/ Acknowledge(j)

Spec == Init /\ [][Next]_vars
=============================================================================
