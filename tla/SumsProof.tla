------------------------------ MODULE SumsProof ------------------------------
(* Facts about sums over finite sets of natural numbers.  A sum counts a   *)
(* set of blocks, one for each unit of each member: so the fold does not   *)
(* depend on the order in which it picks them.                             *)
EXTENDS Collections, FiniteSetTheorems, NaturalsInduction, WellFoundedInduction, TLAPS

\* A set of natural numbers has a least member.
LEMMA LeastOf ==
  ASSUME NEW N \in SUBSET Nat, N # {}
  PROVE  \E n \in N : \A m \in N : n <= m
<1>1. IsWellFoundedOn(OpToRel(<, Nat), Nat)
  BY NatLessThanWellFounded
<1>2. PICK n \in N : \A m \in N : ~(<<m, n>> \in OpToRel(<, Nat))
  BY <1>1, WFMin
<1>3. \A m \in N : ~(m < n)
  BY <1>2 DEF OpToRel
<1> QED
  BY <1>3

\* Induction over the subsets of a finite set: G holds them all when it holds the
\* empty one and every other that it holds without some member.
LEMMA BySubsets ==
  ASSUME NEW S, IsFiniteSet(S), NEW G, {} \in G,
         \A U \in SUBSET S : U # {} => \E x \in U : U \ {x} \in G => U \in G
  PROVE  SUBSET S \subseteq G
<1> SUFFICES ASSUME NEW V \in SUBSET S, V \notin G
             PROVE  FALSE
  OBVIOUS
<1> DEFINE Bad == {U \in SUBSET S : U \notin G}
<1> DEFINE Sizes == {Cardinality(U) : U \in Bad}
<1>1. \A U \in SUBSET S : IsFiniteSet(U) /\ Cardinality(U) \in Nat
  BY FS_Subset, FS_CardinalityType
<1>2. Sizes \in SUBSET Nat /\ Sizes # {}
  BY <1>1
<1>3. PICK n \in Sizes : \A m \in Sizes : n <= m
  <2> HIDE DEF Sizes
  <2> QED
    BY <1>2, LeastOf
<1>4. PICK U \in Bad : Cardinality(U) = n
  OBVIOUS
<1>5. PICK x \in U : U \ {x} \in Bad
  <2>1. U \in SUBSET S /\ U \notin G
    OBVIOUS
  <2>2. U # {}
    BY <2>1
  <2>3. PICK x \in U : U \ {x} \in G => U \in G
    BY <2>1, <2>2
  <2> QED
    BY <2>1, <2>3
<1>6. Cardinality(U \ {x}) = Cardinality(U) - 1
  BY <1>1, FS_RemoveElement
<1>7. Cardinality(U \ {x}) \in Sizes
  BY <1>5
<1>8. n \in Nat /\ n <= Cardinality(U \ {x}) /\ Cardinality(U \ {x}) = n - 1
  BY <1>2, <1>3, <1>4, <1>6, <1>7
<1> QED
  BY <1>8

-----------------------------------------------------------------------------
(* The fold.                                                               *)
AnyOf(S) == CHOOSE x \in S : TRUE

IsSum(f, S, it) ==
  it = [s \in SUBSET S |-> IF s = {} THEN 0 ELSE f[AnyOf(s)] + it[s \ {AnyOf(s)}]]

LEMMA SumDef ==
  ASSUME NEW f, NEW S
  PROVE  SumOf(f, S) = (CHOOSE it : IsSum(f, S, it))[S]
BY DEF SumOf, MapThenSumSet, MapThenFoldSet, IsSum, AnyOf

Block(f, x) == {x} \X (1..f[x])
Blocks(f, S) == UNION {Block(f, x) : x \in S}

LEMMA BlockSize ==
  ASSUME NEW f, NEW x, f[x] \in Nat
  PROVE  IsFiniteSet(Block(f, x)) /\ Cardinality(Block(f, x)) = f[x]
<1>1. IsFiniteSet(1..f[x]) /\ Cardinality(1..f[x]) = f[x]
  BY FS_Interval
<1>2. IsFiniteSet({x}) /\ Cardinality({x}) = 1
  BY FS_Singleton
<1>3. IsFiniteSet({x} \X (1..f[x])) /\ Cardinality({x} \X (1..f[x])) = 1 * f[x]
  BY <1>1, <1>2, FS_Product
<1> QED
  BY <1>3 DEF Block

\* The blocks are as many as those of one member and those of the others.
LEMMA BlocksStep ==
  ASSUME NEW f, NEW S, NEW x \in S, f[x] \in Nat, IsFiniteSet(Blocks(f, S \ {x}))
  PROVE  /\ IsFiniteSet(Blocks(f, S))
         /\ Cardinality(Blocks(f, S)) = f[x] + Cardinality(Blocks(f, S \ {x}))
<1> DEFINE B == Block(f, x)
           R == Blocks(f, S \ {x})
<1>1. Blocks(f, S) = B \cup R
  BY DEF Blocks
<1>2. B \cap R = {}
  BY DEF Blocks, Block
<1>3. IsFiniteSet(B) /\ Cardinality(B) = f[x]
  BY BlockSize
<1>4. Cardinality(R) \in Nat
  BY FS_CardinalityType
<1>5. Cardinality({}) = 0
  BY FS_EmptySet
<1>6. IsFiniteSet(R)
  OBVIOUS
<1> HIDE DEF B, R
<1>7. IsFiniteSet(B \cup R) /\ Cardinality(B \cup R) = Cardinality(B) + Cardinality(R) - Cardinality(B \cap R)
  BY <1>3, <1>6, FS_Union
<1>8. Cardinality(B \cup R) = f[x] + Cardinality(R)
  <2>1. Cardinality(B \cap R) = 0
    BY <1>2, <1>5
  <2> QED
    BY <1>3, <1>4, <1>7, <2>1
<1>9. IsFiniteSet(Blocks(f, S))
  BY <1>1, <1>7
<1>10. Cardinality(Blocks(f, S)) = f[x] + Cardinality(R)
  BY <1>1, <1>8
<1> QED
  BY <1>9, <1>10 DEF R

LEMMA BlocksFinite ==
  ASSUME NEW f, NEW S, IsFiniteSet(S), \A x \in S : f[x] \in Nat
  PROVE  \A U \in SUBSET S : IsFiniteSet(Blocks(f, U))
<1> DEFINE G == {U \in SUBSET S : IsFiniteSet(Blocks(f, U))}
<1>1. {} \in G
  <2>1. Blocks(f, {}) = {}
    BY DEF Blocks
  <2> QED
    BY <2>1, FS_EmptySet
<1>2. \A U \in SUBSET S : U # {} => \E x \in U : U \ {x} \in G => U \in G
  BY BlocksStep
<1>3. SUBSET S \subseteq G
  <2> HIDE DEF G
  <2> QED
    BY <1>1, <1>2, BySubsets
<1> QED
  BY <1>3

LEMMA SumExists ==
  ASSUME NEW f, NEW S, IsFiniteSet(S), \A x \in S : f[x] \in Nat
  PROVE  \E it : IsSum(f, S, it)
<1> DEFINE it == [s \in SUBSET S |-> Cardinality(Blocks(f, s))]
<1>1. \A s \in SUBSET S : it[s] = IF s = {} THEN 0 ELSE f[AnyOf(s)] + it[s \ {AnyOf(s)}]
  <2> SUFFICES ASSUME NEW s \in SUBSET S
               PROVE  it[s] = IF s = {} THEN 0 ELSE f[AnyOf(s)] + it[s \ {AnyOf(s)}]
    OBVIOUS
  <2>1. CASE s = {}
    <3>1. Blocks(f, {}) = {}
      BY DEF Blocks
    <3> QED
      BY <2>1, <3>1, FS_EmptySet
  <2>2. CASE s # {}
    <3>1. AnyOf(s) \in s
      BY <2>2 DEF AnyOf
    <3>2. PICK x \in s : x = AnyOf(s)
      BY <3>1
    <3>3. Cardinality(Blocks(f, s)) = f[x] + Cardinality(Blocks(f, s \ {x}))
      <4> HIDE DEF it
      <4>1. IsFiniteSet(Blocks(f, s \ {x})) /\ f[x] \in Nat
        BY BlocksFinite
      <4> QED
        BY <4>1, BlocksStep
    <3> QED
      BY <2>2, <3>2, <3>3
  <2> QED
    BY <2>1, <2>2
<1>2. it = [s \in SUBSET S |-> IF s = {} THEN 0 ELSE f[AnyOf(s)] + it[s \ {AnyOf(s)}]]
  BY <1>1
<1> QED
  BY <1>2 DEF IsSum

LEMMA SumIsSize ==
  ASSUME NEW f, NEW S, IsFiniteSet(S), \A x \in S : f[x] \in Nat
  PROVE  SumOf(f, S) = Cardinality(Blocks(f, S))
<1> DEFINE sum == CHOOSE it : IsSum(f, S, it)
<1>1. IsSum(f, S, sum)
  BY SumExists
<1>2. PICK it : IsSum(f, S, it) /\ SumOf(f, S) = it[S]
  BY <1>1, SumDef
<1>3. \A s \in SUBSET S : it[s] = IF s = {} THEN 0 ELSE f[AnyOf(s)] + it[s \ {AnyOf(s)}]
  BY <1>2 DEF IsSum
<1> DEFINE G == {U \in SUBSET S : it[U] = Cardinality(Blocks(f, U))}
<1>4. {} \in G
  <2>1. Blocks(f, {}) = {}
    BY DEF Blocks
  <2> QED
    BY <1>3, <2>1, FS_EmptySet
<1>5. ASSUME NEW U \in SUBSET S, U # {}
      PROVE  \E x \in U : U \ {x} \in G => U \in G
  <2>1. AnyOf(U) \in U
    BY <1>5 DEF AnyOf
  <2>2. PICK x \in U : x = AnyOf(U)
    BY <2>1
  <2>3. it[U] = f[x] + it[U \ {x}]
    BY <1>3, <1>5, <2>2
  <2>4. Cardinality(Blocks(f, U)) = f[x] + Cardinality(Blocks(f, U \ {x}))
    <3>1. IsFiniteSet(Blocks(f, U \ {x})) /\ f[x] \in Nat
      BY BlocksFinite
    <3> QED
      BY <3>1, BlocksStep
  <2> QED
    BY <2>3, <2>4
<1>6. SUBSET S \subseteq G
  <2> HIDE DEF G
  <2> QED
    BY <1>4, <1>5, BySubsets
<1> QED
  BY <1>2, <1>6

-----------------------------------------------------------------------------
(* What the other modules use.                                             *)

LEMMA SumEmpty ==
  ASSUME NEW f
  PROVE  SumOf(f, {}) = 0
<1>1. Blocks(f, {}) = {}
  BY DEF Blocks
<1> QED
  BY <1>1, SumIsSize, FS_EmptySet

LEMMA SumType ==
  ASSUME NEW f, NEW S, IsFiniteSet(S), \A x \in S : f[x] \in Nat
  PROVE  SumOf(f, S) \in Nat
BY SumIsSize, BlocksFinite, FS_CardinalityType

LEMMA SumStep ==
  ASSUME NEW f, NEW S, IsFiniteSet(S), \A x \in S : f[x] \in Nat, NEW x \in S
  PROVE  SumOf(f, S) = f[x] + SumOf(f, S \ {x})
<1>1. IsFiniteSet(S \ {x})
  BY FS_RemoveElement
<1>2. SumOf(f, S) = Cardinality(Blocks(f, S)) /\ SumOf(f, S \ {x}) = Cardinality(Blocks(f, S \ {x}))
  BY <1>1, SumIsSize
<1>3. IsFiniteSet(Blocks(f, S \ {x})) /\ f[x] \in Nat
  BY BlocksFinite
<1> QED
  BY <1>2, <1>3, BlocksStep

LEMMA SumAdd ==
  ASSUME NEW f, NEW S, IsFiniteSet(S), NEW x, x \notin S, \A y \in S \cup {x} : f[y] \in Nat
  PROVE  SumOf(f, S \cup {x}) = f[x] + SumOf(f, S)
<1>1. IsFiniteSet(S \cup {x})
  BY FS_AddElement
<1>2. (S \cup {x}) \ {x} = S
  OBVIOUS
<1> QED
  BY <1>1, <1>2, SumStep

\* Only what f gives the members matters.
LEMMA SumSame ==
  ASSUME NEW f, NEW g, NEW S, IsFiniteSet(S), \A x \in S : f[x] \in Nat /\ g[x] = f[x]
  PROVE  SumOf(g, S) = SumOf(f, S)
<1>1. Blocks(g, S) = Blocks(f, S)
  BY DEF Blocks, Block
<1> QED
  BY <1>1, SumIsSize

\* A part is at most the whole.
LEMMA SumPart ==
  ASSUME NEW f, NEW S, IsFiniteSet(S), \A x \in S : f[x] \in Nat, NEW T \in SUBSET S
  PROVE  SumOf(f, T) <= SumOf(f, S)
<1>1. Blocks(f, T) \subseteq Blocks(f, S)
  BY DEF Blocks
<1>2. IsFiniteSet(T)
  BY FS_Subset
<1>3. Cardinality(Blocks(f, T)) <= Cardinality(Blocks(f, S))
  BY <1>1, BlocksFinite, FS_Subset
<1> QED
  BY <1>2, <1>3, SumIsSize

\* Members that f gives nothing do not matter.
LEMMA SumZeros ==
  ASSUME NEW f, NEW S, IsFiniteSet(S), \A x \in S : f[x] \in Nat, NEW T \in SUBSET S,
         \A x \in S \ T : f[x] = 0
  PROVE  SumOf(f, T) = SumOf(f, S)
<1>1. Blocks(f, T) = Blocks(f, S)
  <2>1. \A x \in S \ T : Block(f, x) = {}
    BY DEF Block
  <2> QED
    BY <2>1 DEF Blocks
<1>2. IsFiniteSet(T)
  BY FS_Subset
<1> QED
  BY <1>1, <1>2, SumIsSize

LEMMA SumBelow ==
  ASSUME NEW f, NEW g, NEW S, IsFiniteSet(S), \A x \in S : f[x] \in Nat /\ g[x] \in Nat /\ f[x] <= g[x]
  PROVE  SumOf(f, S) <= SumOf(g, S)
<1>1. Blocks(f, S) \subseteq Blocks(g, S)
  BY DEF Blocks, Block
<1>2. Cardinality(Blocks(f, S)) <= Cardinality(Blocks(g, S))
  BY <1>1, BlocksFinite, FS_Subset
<1> QED
  BY <1>2, SumIsSize

\* A number for each member of a finite set.
Weights(f, D) == IsFiniteSet(D) /\ \A x \in D : f[x] \in Nat

\* One member more, and one less.
LEMMA SumGains ==
  ASSUME NEW D, NEW f, Weights(f, D), NEW S \in SUBSET D, NEW x \in D
  PROVE  /\ SumOf(f, S) \in Nat /\ f[x] \in Nat
         /\ x \notin S => SumOf(f, S \cup {x}) = SumOf(f, S) + f[x]
         /\ x \in S => SumOf(f, S \ {x}) = SumOf(f, S) - f[x]
<1>1. IsFiniteSet(S) /\ IsFiniteSet(S \ {x})
  BY FS_Subset DEF Weights
<1>2. SumOf(f, S) \in Nat /\ SumOf(f, S \ {x}) \in Nat
  BY <1>1, SumType DEF Weights
<1>3. x \notin S => SumOf(f, S \cup {x}) = f[x] + SumOf(f, S)
  BY <1>1, SumAdd DEF Weights
<1>4. x \in S => SumOf(f, S) = f[x] + SumOf(f, S \ {x})
  BY <1>1, SumStep DEF Weights
<1> QED
  BY <1>2, <1>3, <1>4 DEF Weights

LEMMA SumLoses ==
  ASSUME NEW D, NEW f, Weights(f, D), NEW S \in SUBSET D, NEW x \in S
  PROVE  SumOf(f, S) \in Nat /\ SumOf(f, S \ {x}) = SumOf(f, S) - f[x]
<1>1. IsFiniteSet(S) /\ IsFiniteSet(S \ {x}) /\ \A y \in S : f[y] \in Nat
  BY FS_Subset DEF Weights
<1>2. SumOf(f, S) \in Nat /\ SumOf(f, S \ {x}) \in Nat /\ f[x] \in Nat
  BY <1>1, SumType
<1>3. SumOf(f, S) = f[x] + SumOf(f, S \ {x})
  BY <1>1, SumStep
<1> QED
  BY <1>2, <1>3

-----------------------------------------------------------------------------
(* Proportional shares, floored.                                           *)

LEMMA Floor ==
  ASSUME NEW m \in Nat, NEW d \in Nat, d > 0
  PROVE  /\ m \div d \in Nat
         /\ (m \div d) * d <= m
         /\ m < (m \div d) * d + d
OBVIOUS

LEMMA Products ==
  ASSUME NEW a \in Nat, NEW b \in Nat
  PROVE  a * b \in Nat
OBVIOUS

LEMMA OneShareMore ==
  ASSUME NEW n \in Nat, NEW s \in Nat, NEW t \in Nat, NEW q \in Nat, NEW g \in Nat,
         NEW c \in Nat, NEW d \in Nat, d > 0,
         q * d <= n * s, n * s < q * d + d,
         g * d <= n * t, n * t <= g * d + c * (d - 1)
  PROVE  /\ (q + g) * d <= n * (s + t)
         /\ n * (s + t) <= (q + g) * d + (c + 1) * (d - 1)
<1>1. (q + g) * d = q * d + g * d /\ n * (s + t) = n * s + n * t
  OBVIOUS
<1>2. (c + 1) * (d - 1) = c * (d - 1) + (d - 1)
  OBVIOUS
<1>3. /\ q * d \in Nat /\ g * d \in Nat /\ n * s \in Nat /\ n * t \in Nat /\ c * (d - 1) \in Nat
  OBVIOUS
<1> QED
  BY <1>1, <1>2, <1>3

\* What is paid in shares of n, and what flooring leaves of it.
LEMMA FlooredShares ==
  ASSUME NEW S, IsFiniteSet(S), NEW st, NEW g, NEW n \in Nat, NEW d \in Nat, d > 0,
         \A x \in S : st[x] \in Nat /\ g[x] = (n * st[x]) \div d
  PROVE  /\ \A x \in S : g[x] \in Nat
         /\ SumOf(g, S) * d <= n * SumOf(st, S)
         /\ n * SumOf(st, S) <= SumOf(g, S) * d + Cardinality(S) * (d - 1)
<1>1. \A x \in S : g[x] \in Nat /\ g[x] * d <= n * st[x] /\ n * st[x] < g[x] * d + d
  <2> SUFFICES ASSUME NEW x \in S
               PROVE  g[x] \in Nat /\ g[x] * d <= n * st[x] /\ n * st[x] < g[x] * d + d
    OBVIOUS
  <2>1. PICK s \in Nat : s = st[x]
    OBVIOUS
  <2>2. PICK m \in Nat : m = n * s
    BY Products
  <2>3. g[x] = m \div d
    BY <2>1, <2>2
  <2>4. g[x] \in Nat /\ g[x] * d <= m /\ m < g[x] * d + d
    BY <2>3, Floor
  <2> QED
    BY <2>1, <2>2, <2>4
<1> DEFINE G == {U \in SUBSET S :
                   /\ SumOf(g, U) * d <= n * SumOf(st, U)
                   /\ n * SumOf(st, U) <= SumOf(g, U) * d + Cardinality(U) * (d - 1)}
<1>2. {} \in G
  <2>1. SumOf(g, {}) = 0 /\ SumOf(st, {}) = 0 /\ Cardinality({}) = 0
    BY SumEmpty, FS_EmptySet
  <2>2. 0 * d <= n * 0 /\ n * 0 <= 0 * d + 0 * (d - 1)
    OBVIOUS
  <2> QED
    BY <2>1, <2>2
<1>3. ASSUME NEW U \in SUBSET S, U # {}
      PROVE  \E x \in U : U \ {x} \in G => U \in G
  <2>1. PICK x \in U : TRUE
    BY <1>3
  <2>2. SUFFICES ASSUME U \ {x} \in G PROVE U \in G
    BY <2>1
  <2>3. IsFiniteSet(U) /\ IsFiniteSet(U \ {x})
    BY FS_Subset, FS_RemoveElement
  <2>4. PICK q \in Nat, s \in Nat : q = g[x] /\ s = st[x] /\ q * d <= n * s /\ n * s < q * d + d
    BY <1>1
  <2>5. PICK r \in Nat : r = SumOf(g, U \ {x})
    BY <1>1, <2>3, SumType
  <2>6. PICK t \in Nat : t = SumOf(st, U \ {x})
    BY <2>3, SumType
  <2>7. PICK c \in Nat : c = Cardinality(U \ {x})
    BY <2>3, FS_CardinalityType
  <2>8. SumOf(g, U) = q + r /\ SumOf(st, U) = s + t
    BY <1>1, <2>3, <2>4, <2>5, <2>6, SumStep
  <2>9. Cardinality(U) = c + 1
    <3>1. Cardinality(U) \in Nat
      BY <2>3, FS_CardinalityType
    <3> QED
      BY <2>3, <2>7, <3>1, FS_RemoveElement
  <2>10. r * d <= n * t /\ n * t <= r * d + c * (d - 1)
    BY <2>2, <2>5, <2>6, <2>7
  <2>11. (q + r) * d <= n * (s + t) /\ n * (s + t) <= (q + r) * d + (c + 1) * (d - 1)
    BY <2>4, <2>10, OneShareMore
  <2> QED
    BY <2>8, <2>9, <2>11
<1>4. S \in G
  <2> HIDE DEF G
  <2> QED
    BY <1>2, <1>3, BySubsets
<1> QED
  BY <1>1, <1>4

LEMMA Cancelling ==
  ASSUME NEW n \in Nat, NEW r \in Nat, NEW c \in Nat, NEW d \in Nat, d > 0, c > 0,
         r * d <= n * d, n * d <= r * d + c * (d - 1)
  PROVE  r <= n /\ n < r + c
<1>1. r <= n
  <2> SUFFICES ASSUME n < r PROVE FALSE
    OBVIOUS
  <2>1. PICK k \in Nat : r = n + k /\ k > 0
    <3>1. r - n \in Nat /\ r - n > 0 /\ r = n + (r - n)
      OBVIOUS
    <3> QED
      BY <3>1
  <2>2. r * d = n * d + k * d
    BY <2>1
  <2>3. k * d > 0
    BY <2>1
  <2>4. n * d \in Nat /\ k * d \in Nat
    BY <2>1
  <2> QED
    BY <2>2, <2>3, <2>4
<1>2. n < r + c
  <2> SUFFICES ASSUME r + c <= n PROVE FALSE
    OBVIOUS
  <2>1. PICK k \in Nat : n = r + c + k
    <3>1. n - (r + c) \in Nat /\ n = r + c + (n - (r + c))
      OBVIOUS
    <3> QED
      BY <3>1
  <2>2. n * d = r * d + c * d + k * d
    BY <2>1
  <2>3. c * (d - 1) = c * d - c
    OBVIOUS
  <2>4. r * d \in Nat /\ c * d \in Nat /\ k * d \in Nat
    BY <2>1
  <2> QED
    BY <2>2, <2>3, <2>4
<1> QED
  BY <1>1, <1>2

\* A pot that is split in proportion to all stakes is paid out, but for less than one
\* unit each.
LEMMA SplitWhole ==
  ASSUME NEW S, IsFiniteSet(S), S # {}, NEW st, NEW g, NEW n \in Nat,
         \A x \in S : st[x] \in Nat /\ g[x] = (n * st[x]) \div SumOf(st, S),
         SumOf(st, S) > 0
  PROVE  /\ \A x \in S : g[x] \in Nat
         /\ SumOf(g, S) <= n
         /\ n - SumOf(g, S) < Cardinality(S)
<1>1. PICK d \in Nat : d = SumOf(st, S)
  BY SumType
<1>2. /\ \A x \in S : g[x] \in Nat
      /\ SumOf(g, S) * d <= n * d
      /\ n * d <= SumOf(g, S) * d + Cardinality(S) * (d - 1)
  BY <1>1, FlooredShares
<1>3. PICK r \in Nat : r = SumOf(g, S)
  BY <1>2, SumType
<1>4. PICK c \in Nat : c = Cardinality(S)
  BY FS_CardinalityType
<1>5. c > 0
  BY <1>4, FS_EmptySet
<1>6. r <= n /\ n < r + c
  BY <1>1, <1>2, <1>3, <1>4, <1>5, Cancelling
<1> QED
  BY <1>2, <1>3, <1>4, <1>6

LEMMA SumPositive ==
  ASSUME NEW f, NEW S, IsFiniteSet(S), \A x \in S : f[x] \in Nat, NEW x \in S, f[x] > 0
  PROVE  SumOf(f, S) > 0
<1>1. SumOf(f, S) = f[x] + SumOf(f, S \ {x})
  BY SumStep
<1>2. SumOf(f, S \ {x}) \in Nat
  BY FS_RemoveElement, SumType
<1> QED
  BY <1>1, <1>2

LEMMA LessTimes ==
  ASSUME NEW a \in Nat, NEW b \in Nat, NEW m \in Nat, a <= b
  PROVE  a * m <= b * m
<1>1. PICK k \in Nat : b = a + k
  <2>1. b - a \in Nat /\ b = a + (b - a)
    OBVIOUS
  <2> QED
    BY <2>1
<1>2. (a + k) * m = a * m + k * m /\ a * m \in Nat /\ k * m \in Nat
  OBVIOUS
<1> QED
  BY <1>1, <1>2

\* No more than a cap for each member.
LEMMA SumCapped ==
  ASSUME NEW D, NEW f, Weights(f, D), NEW m \in Nat, \A x \in D : f[x] <= m
  PROVE  \A S \in SUBSET D : SumOf(f, S) <= Cardinality(S) * m
<1> DEFINE G == {S \in SUBSET D : SumOf(f, S) <= Cardinality(S) * m}
<1>1. {} \in G
  BY SumEmpty, FS_EmptySet
<1>2. ASSUME NEW U \in SUBSET D, NEW x \in U, U \ {x} \in G
      PROVE  U \in G
  <2>1. IsFiniteSet(U) /\ Cardinality(U) \in Nat /\ Cardinality(U \ {x}) = Cardinality(U) - 1
    BY FS_Subset, FS_CardinalityType, FS_RemoveElement DEF Weights
  <2>2. PICK c \in Nat : Cardinality(U) = c + 1 /\ Cardinality(U \ {x}) = c
    <3>1. Cardinality(U \ {x}) \in Nat
      BY <2>1, FS_RemoveElement, FS_CardinalityType
    <3> QED
      BY <2>1, <3>1
  <2>3. SumOf(f, U) = SumOf(f, U \ {x}) + f[x] /\ SumOf(f, U \ {x}) \in Nat /\ f[x] \in Nat
    <3>1. U \in SUBSET D /\ x \in D /\ x \in U /\ U \ {x} \in SUBSET D
      OBVIOUS
    <3>2. SumOf(f, U \ {x}) = SumOf(f, U) - f[x] /\ SumOf(f, U) \in Nat /\ f[x] \in Nat
      BY <3>1, SumGains
    <3>3. SumOf(f, U \ {x}) \in Nat
      BY <3>1, SumGains
    <3> QED
      BY <3>2, <3>3
  <2>4. SumOf(f, U \ {x}) <= c * m /\ f[x] <= m
    BY <1>2, <2>2
  <2>5. (c + 1) * m = c * m + m /\ c * m \in Nat
    OBVIOUS
  <2> QED
    BY <2>2, <2>3, <2>4, <2>5
<1> HIDE DEF G
<1>3. \A U \in SUBSET D : U # {} => \E x \in U : U \ {x} \in G => U \in G
  BY <1>2
<1>4. IsFiniteSet(D)
  BY DEF Weights
<1>5. SUBSET D \subseteq G
  BY <1>1, <1>3, <1>4, BySubsets
<1> QED
  BY <1>5 DEF G
=============================================================================
