----------------------------- MODULE Collections -----------------------------
(***************************************************************************)
(* Lists of entries that say who they are for, as a sorted set of Redis or *)
(* a Map that keeps the order in which it was filled; and sums over finite *)
(* sets.                                                                   *)
(***************************************************************************)
EXTENDS Integers, Sequences, FiniteSetsExt

\* The entries that are not for anyone of S, in their order.  It is a recursive function,
\* which a proof can unfold place by place.
Without(q, S) ==
  LET kept[i \in 0..Len(q)] ==
        IF i = 0 THEN <<>>
        ELSE IF q[i].who \in S THEN kept[i - 1] ELSE Append(kept[i - 1], q[i])
  IN kept[Len(q)]

\* What f gives the members of S, taken together.
SumOf(f, S) == MapThenSumSet(LAMBDA x : f[x], S)
=============================================================================
