----------------------------- MODULE MCChainTx -----------------------------
(* Instances of ChainTx for TLC. *)
EXTENDS ChainTxInv, TLC

Symmetry == Permutations(Keys) \cup Permutations(Requests)
              \cup Permutations(Sweepers) \cup Permutations(Envelopes)
=============================================================================
