------------------------------ MODULE MCMarket -----------------------------
EXTENDS Market, TLC

CONSTANTS ann, bolt, dart

MCOwners == {(bolt :> ann) @@ (dart :> Nobody)}
Symmetry == Permutations(Threads) \cup Permutations(Traders \ {ann})
=============================================================================
