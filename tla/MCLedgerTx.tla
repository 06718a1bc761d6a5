----------------------------- MODULE MCLedgerTx -----------------------------
(* A ledger with two players: a reward to one of them, two spends of it that *)
(* cannot both be covered, a transfer to the other player that competes with *)
(* them, and a journal that does not balance.                               *)
EXTENDS LedgerTx, TLC

CONSTANTS p1, p2, reward, spend, bet, transfer, broken

Side(legs) == [a \in {p1, p2, House} |-> IF a \in DOMAIN legs THEN legs[a] ELSE 0]

MCDebit == (reward   :> Side(House :> 2)) @@
           (spend    :> Side(p1 :> 2))    @@
           (bet      :> Side(p1 :> 1))    @@
           (transfer :> Side(p1 :> 1))    @@
           (broken   :> Side(p1 :> 1))

MCCredit == (reward   :> Side(p1 :> 2))    @@
            (spend    :> Side(House :> 2)) @@
            (bet      :> Side(House :> 1)) @@
            (transfer :> Side(p2 :> 1))    @@
            (broken   :> Side(p2 :> 2))

Symmetry == Permutations(Calls)
=============================================================================
