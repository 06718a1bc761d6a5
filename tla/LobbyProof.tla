----------------------------- MODULE LobbyProof -----------------------------
(* Theorems about Matchmaking and RaceRoom, for any players, workers, lobbies,
   drivers, bots and rooms.                                                 *)
EXTENDS Matchmaking, RaceRoom, Integers, FiniteSetTheorems, WellFoundedInduction, TLAPS

-----------------------------------------------------------------------------
(* Lists.                                                                  *)

\* What holds of some natural number holds of a least one.
LEMMA Least ==
  ASSUME NEW T \in SUBSET Nat, T # {}
  PROVE  \E n \in T : \A m \in T : n <= m
<1>1. IsWellFoundedOn(OpToRel(<, Nat), Nat)
  BY NatLessThanWellFounded
<1>2. PICK n \in T : \A m \in T : ~(<<m, n>> \in OpToRel(<, Nat))
  BY <1>1, WFMin
<1>3. \A m \in T : ~(m < n)
  BY <1>2 DEF OpToRel
<1> QED
  BY <1>3

\* Without's function, up to n.
KeptTo(f, q, S, n) ==
  f = [i \in 0..n |->
         IF i = 0 THEN <<>>
         ELSE IF q[i].who \in S THEN f[i - 1] ELSE Append(f[i - 1], q[i])]

LEMMA KeptExtends ==
  ASSUME NEW q, NEW S, NEW n \in Nat, NEW f, KeptTo(f, q, S, n)
  PROVE  \E g : KeptTo(g, q, S, n + 1)
<1> DEFINE g == [i \in 0..n + 1 |->
                   IF i = n + 1
                   THEN IF q[i].who \in S THEN f[n] ELSE Append(f[n], q[i])
                   ELSE f[i]]
<1>1. \A i \in 0..n : g[i] = f[i]
  OBVIOUS
<1>2. g[n + 1] = IF q[n + 1].who \in S THEN f[n] ELSE Append(f[n], q[n + 1])
  OBVIOUS
<1>3. \A i \in 0..n : f[i] = IF i = 0 THEN <<>>
                            ELSE IF q[i].who \in S THEN f[i - 1] ELSE Append(f[i - 1], q[i])
  BY DEF KeptTo
<1>4. DOMAIN g = 0..n + 1 /\ g = [i \in 0..n + 1 |-> g[i]]
  OBVIOUS
<1> HIDE DEF g
<1>5. \A i \in 0..n + 1 : g[i] = IF i = 0 THEN <<>>
                                ELSE IF q[i].who \in S THEN g[i - 1] ELSE Append(g[i - 1], q[i])
  <2> SUFFICES ASSUME NEW i \in 0..n + 1
               PROVE  g[i] = IF i = 0 THEN <<>>
                             ELSE IF q[i].who \in S THEN g[i - 1] ELSE Append(g[i - 1], q[i])
    OBVIOUS
  <2>1. CASE i = 0
    BY <2>1, <1>1, <1>3
  <2>2. CASE i = n + 1
    BY <2>2, <1>1, <1>2
  <2>3. CASE i \in 1..n
    <3>1. i - 1 \in 0..n /\ i \in 0..n /\ i # 0
      BY <2>3
    <3> QED
      BY <3>1, <1>1, <1>3
  <2> QED
    BY <2>1, <2>2, <2>3
<1>6. KeptTo(g, q, S, n + 1)
  BY <1>4, <1>5 DEF KeptTo
<1> QED
  BY <1>6

LEMMA KeptExists ==
  ASSUME NEW q, NEW S, NEW n \in Nat
  PROVE  \E f : KeptTo(f, q, S, n)
<1> DEFINE T == {m \in Nat : ~\E f : KeptTo(f, q, S, m)}
<1>1. 0 \notin T
  <2>1. KeptTo([i \in {0} |-> <<>>], q, S, 0)
    BY DEF KeptTo
  <2> QED
    BY <2>1
<1>2. \A m \in Nat : m \notin T => m + 1 \notin T
  BY KeptExtends
<1>3. T \in SUBSET Nat
  OBVIOUS
<1> HIDE DEF T
<1>4. T = {}
  <2> SUFFICES ASSUME T # {} PROVE FALSE
    OBVIOUS
  <2>1. PICK m \in T : \A k \in T : m <= k
    BY <1>3, Least
  <2>2. m \in Nat /\ m # 0
    BY <1>1, <1>3
  <2>3. m - 1 \in Nat /\ m - 1 \notin T
    BY <2>1, <2>2
  <2> QED
    BY <1>2, <2>2, <2>3
<1> QED
  BY <1>4 DEF T

\* h says where the entries of r stand in the first n of q; all but those of S are there.
Keeps(r, q, S, n, h) ==
  /\ h \in [1..Len(r) -> 1..n]
  /\ \A k \in 1..Len(r) : r[k] = q[h[k]] /\ q[h[k]].who \notin S
  /\ \A k, l \in 1..Len(r) : k < l => h[k] < h[l]
  /\ \A i \in 1..n : q[i].who \notin S => \E k \in 1..Len(r) : h[k] = i

LEMMA KeepsExtends ==
  ASSUME NEW E, NEW q \in Seq(E), NEW S, NEW n \in Nat, n + 1 \in 1..Len(q),
         NEW r \in Seq(E), NEW h, Keeps(r, q, S, n, h)
  PROVE  LET s == IF q[n + 1].who \in S THEN r ELSE Append(r, q[n + 1]) IN
         s \in Seq(E) /\ \E g : Keeps(s, q, S, n + 1, g)
<1>1. CASE q[n + 1].who \in S
  <2>1. Keeps(r, q, S, n + 1, h)
    BY <1>1 DEF Keeps
  <2> QED
    BY <1>1, <2>1
<1>2. CASE q[n + 1].who \notin S
  <2> DEFINE s == Append(r, q[n + 1])
             g == [k \in 1..Len(r) + 1 |-> IF k = Len(r) + 1 THEN n + 1 ELSE h[k]]
  <2>1. q[n + 1] \in E /\ Len(r) \in Nat
    OBVIOUS
  <2>2. /\ s \in Seq(E) /\ Len(s) = Len(r) + 1 /\ s[Len(r) + 1] = q[n + 1]
        /\ \A k \in 1..Len(r) : s[k] = r[k]
    BY <2>1
  <2>3. g[Len(r) + 1] = n + 1 /\ \A k \in 1..Len(r) : g[k] = h[k] /\ g[k] \in 1..n
    BY <2>1 DEF Keeps
  <2>4. g \in [1..Len(s) -> 1..n + 1]
    <3>0. DOMAIN g = 1..Len(r) + 1 /\ g = [k \in 1..Len(r) + 1 |-> g[k]]
      OBVIOUS
    <3> HIDE DEF g, s
    <3>1. \A k \in 1..Len(r) + 1 : g[k] \in 1..n + 1
      <4> SUFFICES ASSUME NEW k \in 1..Len(r) + 1 PROVE g[k] \in 1..n + 1
        OBVIOUS
      <4>1. CASE k = Len(r) + 1
        BY <4>1, <2>3
      <4>2. CASE k \in 1..Len(r)
        BY <4>2, <2>3
      <4> QED
        BY <4>1, <4>2, <2>1
    <3>3. g \in [1..Len(r) + 1 -> 1..n + 1]
      BY <3>0, <3>1
    <3> QED
      BY <2>2, <3>3
  <2> HIDE DEF s, g
  <2>5. \A k \in 1..Len(s) : k = Len(r) + 1 \/ k \in 1..Len(r)
    BY <2>1, <2>2
  <2>6. \A k \in 1..Len(s) : s[k] = q[g[k]] /\ q[g[k]].who \notin S
    BY <1>2, <2>2, <2>3, <2>5 DEF Keeps
  <2>7. \A k, l \in 1..Len(s) : k < l => g[k] < g[l]
    <3> SUFFICES ASSUME NEW k \in 1..Len(s), NEW l \in 1..Len(s), k < l PROVE g[k] < g[l]
      OBVIOUS
    <3>1. k \in 1..Len(r)
      BY <2>1, <2>2
    <3>2. CASE l = Len(r) + 1
      BY <3>1, <3>2, <2>3
    <3>3. CASE l \in 1..Len(r)
      BY <3>1, <3>3, <2>3 DEF Keeps
    <3> QED
      BY <3>2, <3>3, <2>5
  <2>8. \A i \in 1..n + 1 : q[i].who \notin S => \E k \in 1..Len(s) : g[k] = i
    <3> SUFFICES ASSUME NEW i \in 1..n + 1, q[i].who \notin S PROVE \E k \in 1..Len(s) : g[k] = i
      OBVIOUS
    <3>1. CASE i = n + 1
      BY <3>1, <2>1, <2>2, <2>3
    <3>2. CASE i \in 1..n
      <4>1. PICK k \in 1..Len(r) : h[k] = i
        BY <3>2 DEF Keeps
      <4> QED
        BY <4>1, <2>1, <2>2, <2>3
    <3> QED
      BY <3>1, <3>2
  <2>9. Keeps(s, q, S, n + 1, g)
    BY <2>4, <2>6, <2>7, <2>8 DEF Keeps
  <2> QED
    BY <1>2, <2>2, <2>9 DEF s
<1> QED
  BY <1>1, <1>2

\* What Without leaves, and where it stood.
LEMMA WithoutKeeps ==
  ASSUME NEW E, NEW q \in Seq(E), NEW S
  PROVE  Without(q, S) \in Seq(E) /\ \E h : Keeps(Without(q, S), q, S, Len(q), h)
<1>1. Len(q) \in Nat
  OBVIOUS
<1> DEFINE f == CHOOSE f : KeptTo(f, q, S, Len(q))
<1>2. KeptTo(f, q, S, Len(q))
  BY <1>1, KeptExists
<1>3. Without(q, S) = f[Len(q)]
  BY DEF Without, KeptTo
<1> HIDE DEF f
<1>4. /\ f[0] = <<>>
      /\ \A n \in 0..Len(q) - 1 :
           f[n + 1] = IF q[n + 1].who \in S THEN f[n] ELSE Append(f[n], q[n + 1])
  <2>1. \A i \in 0..Len(q) : f[i] = IF i = 0 THEN <<>>
                                    ELSE IF q[i].who \in S THEN f[i - 1] ELSE Append(f[i - 1], q[i])
    BY <1>2 DEF KeptTo
  <2>2. f[0] = <<>>
    BY <1>1, <2>1
  <2>3. ASSUME NEW n \in 0..Len(q) - 1
        PROVE  f[n + 1] = IF q[n + 1].who \in S THEN f[n] ELSE Append(f[n], q[n + 1])
    <3>1. n + 1 \in 0..Len(q) /\ n + 1 # 0 /\ (n + 1) - 1 = n
      BY <1>1
    <3> QED
      BY <2>1, <3>1
  <2> QED
    BY <2>2, <2>3
<1> DEFINE T == {n \in 0..Len(q) : ~(f[n] \in Seq(E) /\ \E h : Keeps(f[n], q, S, n, h))}
<1>5. 0 \notin T
  <2>1. Keeps(<<>>, q, S, 0, <<>>)
    BY DEF Keeps
  <2>2. <<>> \in Seq(E)
    OBVIOUS
  <2> QED
    BY <1>4, <2>1, <2>2
<1>6. \A n \in 0..Len(q) - 1 : n \notin T => n + 1 \notin T
  <2> SUFFICES ASSUME NEW n \in 0..Len(q) - 1, n \notin T PROVE n + 1 \notin T
    OBVIOUS
  <2>1. n \in Nat /\ n \in 0..Len(q) /\ n + 1 \in 1..Len(q) /\ f[n] \in Seq(E)
    BY <1>1
  <2>2. PICK h : Keeps(f[n], q, S, n, h)
    BY <2>1
  <2>3. PICK r \in Seq(E) : r = f[n]
    BY <2>1
  <2>4. PICK s : s = IF q[n + 1].who \in S THEN r ELSE Append(r, q[n + 1])
    OBVIOUS
  <2>5. s \in Seq(E) /\ \E g : Keeps(s, q, S, n + 1, g)
    BY <2>1, <2>2, <2>3, <2>4, KeepsExtends
  <2>6. f[n + 1] = s
    BY <1>4, <2>3, <2>4
  <2> QED
    BY <2>5, <2>6
<1>7. T \in SUBSET Nat /\ T \subseteq 0..Len(q)
  OBVIOUS
<1>8. Len(q) \notin T => f[Len(q)] \in Seq(E) /\ \E h : Keeps(f[Len(q)], q, S, Len(q), h)
  BY <1>1
<1> HIDE DEF T
<1>9. T = {}
  <2> SUFFICES ASSUME T # {} PROVE FALSE
    OBVIOUS
  <2>1. PICK m \in T : \A k \in T : m <= k
    BY <1>7, Least
  <2>2. m \in Nat /\ m # 0 /\ m <= Len(q)
    BY <1>5, <1>7
  <2>3. m - 1 \in 0..Len(q) - 1 /\ m - 1 \notin T
    BY <1>1, <2>1, <2>2
  <2> QED
    BY <1>6, <2>2, <2>3
<1> QED
  BY <1>3, <1>8, <1>9

Who(q) == {q[i].who : i \in DOMAIN q}
OncePerPlayer(q) == \A i, j \in 1..Len(q) : q[i].who = q[j].who => i = j
OldestFirst(q) == \A i, j \in 1..Len(q) : i < j /\ q[j].waited => q[i].waited

\* Those of S are gone, everybody else is there as before.
LEMMA WithoutWho ==
  ASSUME NEW E, NEW q \in Seq(E), NEW S
  PROVE  /\ Without(q, S) \in Seq(E)
         /\ Who(Without(q, S)) = Who(q) \ S
         /\ OncePerPlayer(q) => OncePerPlayer(Without(q, S))
         /\ OldestFirst(q) => OldestFirst(Without(q, S))
<1>1. PICK r \in Seq(E) : r = Without(q, S)
  BY WithoutKeeps
<1>2. PICK h : Keeps(r, q, S, Len(q), h)
  BY <1>1, WithoutKeeps
<1>3. DOMAIN r = 1..Len(r) /\ DOMAIN q = 1..Len(q) /\ Len(r) \in Nat /\ Len(q) \in Nat
  OBVIOUS
<1>4. \A k \in 1..Len(r) : h[k] \in 1..Len(q) /\ r[k] = q[h[k]] /\ q[h[k]].who \notin S
  BY <1>2 DEF Keeps
<1>5. \A k, l \in 1..Len(r) : k < l => h[k] < h[l]
  BY <1>2 DEF Keeps
<1>6. \A i \in 1..Len(q) : q[i].who \notin S => \E k \in 1..Len(r) : h[k] = i
  BY <1>2 DEF Keeps
<1>7. Who(r) \subseteq Who(q) \ S
  BY <1>3, <1>4 DEF Who
<1>8. Who(q) \ S \subseteq Who(r)
  <2> SUFFICES ASSUME NEW i \in 1..Len(q), q[i].who \notin S PROVE q[i].who \in Who(r)
    BY <1>3 DEF Who
  <2>1. PICK k \in 1..Len(r) : h[k] = i
    BY <1>6
  <2> QED
    BY <2>1, <1>3, <1>4 DEF Who
<1>9. OncePerPlayer(q) => OncePerPlayer(r)
  <2> SUFFICES ASSUME OncePerPlayer(q), NEW k \in 1..Len(r), NEW l \in 1..Len(r),
                      r[k].who = r[l].who
               PROVE  k = l
    BY DEF OncePerPlayer
  <2>1. h[k] = h[l]
    BY <1>4 DEF OncePerPlayer
  <2>2. ~(k < l) /\ ~(l < k)
    BY <2>1, <1>4, <1>5
  <2> QED
    BY <2>2
<1>10. OldestFirst(q) => OldestFirst(r)
  <2> SUFFICES ASSUME OldestFirst(q), NEW k \in 1..Len(r), NEW l \in 1..Len(r),
                      k < l, r[l].waited
               PROVE  r[k].waited
    BY DEF OldestFirst
  <2>1. h[k] < h[l] /\ q[h[l]].waited
    BY <1>4, <1>5
  <2> QED
    BY <2>1, <1>4 DEF OldestFirst
<1> QED
  BY <1>1, <1>7, <1>8, <1>9, <1>10

-----------------------------------------------------------------------------
(* The inductive invariant of Matchmaking.                                 *)

Entry == [who : Queuers, waited : BOOLEAN]
Hand == [at : {"rest", "stopped", "read", "zrem", "create", "tickets"},
         todo : SUBSET Queuers, bots : Nat, room : Nat]
Counters == [Queuers -> Nat]

QueueOK == queue \in Seq(Entry) /\ OncePerPlayer(queue) /\ OldestFirst(queue)

RowsOK ==
  /\ formed \in Nat /\ DOMAIN lobby \subseteq 1..formed
  /\ \A i \in DOMAIN lobby : Cardinality(lobby[i].who) + lobby[i].bots = LobbySize

\* What a worker holds at its place: nobody before it has selected, a full lobby with
\* a name that no row has yet, players of the row it has made.
Holds(r) ==
  /\ r.at \in {"rest", "stopped", "read"} => r.todo = {}
  /\ r.at \in {"zrem", "create"} =>
       /\ r.room \in 1..formed /\ r.room \notin DOMAIN lobby
       /\ Cardinality(r.todo) + r.bots = LobbySize
  /\ r.at = "tickets" =>
       r.room \in 1..formed /\ r.room \in DOMAIN lobby /\ r.todo \subseteq lobby[r.room].who

Naming(w) == worker[w].at \in {"zrem", "create"}

HandsOK ==
  /\ worker \in [Workers -> Hand]
  /\ \A w \in Workers : Holds(worker[w])
  /\ \A w, v \in Workers : Naming(w) /\ Naming(v) /\ w # v => worker[w].room # worker[v].room

CountersOK ==
  /\ ticket \in Counters /\ polled \in Counters /\ seats \in Counters /\ enqueues \in Counters
  /\ owed \subseteq Queuers

Active(w) == worker[w].at \notin {"rest", "stopped"}

\* While no lock has expired under its holder, one worker at most is at work, and
\* whoever is queued or selected has a ticket less than he has queued times; two less
\* when he has queued again after he was selected.
Alone ==
  /\ \A w \in Workers : Active(w) => locked = TRUE
  /\ \A w, v \in Workers : Active(w) /\ Active(v) => w = v
SeatsDue ==
  /\ \A p \in Queuers : seats[p] <= enqueues[p]
  /\ \A p \in Who(queue) : seats[p] + 1 <= enqueues[p]
  /\ \A w \in Workers : \A p \in worker[w].todo : seats[p] + 1 <= enqueues[p]
  /\ \A w \in Workers : worker[w].at \in {"create", "tickets"} =>
       \A p \in worker[w].todo : p \in Who(queue) => seats[p] + 2 <= enqueues[p]
OneScan == overran \/ (Alone /\ SeatsDue)

Remembered == \A p \in owed :
  \/ p \in Who(queue) \/ ticket[p] # 0 \/ polled[p] # 0
  \/ \E w \in Workers : p \in worker[w].todo

IInv == QueueOK /\ RowsOK /\ HandsOK /\ CountersOK /\ OneScan /\ Remembered /\ RaceBeforeTicket

-----------------------------------------------------------------------------
(* What the actions build on.                                              *)

LEMMA AppendWho ==
  ASSUME NEW q \in Seq(Entry), NEW e \in Entry
  PROVE  /\ Append(q, e) \in Seq(Entry)
         /\ Who(Append(q, e)) = Who(q) \cup {e.who}
         /\ OncePerPlayer(q) /\ e.who \notin Who(q) => OncePerPlayer(Append(q, e))
         /\ OldestFirst(q) /\ ~e.waited => OldestFirst(Append(q, e))
<1> DEFINE t == Append(q, e)
<1>0. t \in Seq(Entry)
  OBVIOUS
<1> HIDE DEF t
<1>1. PICK s \in Seq(Entry) : s = t
  BY <1>0
<1>2. /\ Len(s) = Len(q) + 1 /\ s[Len(q) + 1] = e /\ Len(q) \in Nat
      /\ \A k \in 1..Len(q) : s[k] = q[k]
  BY <1>1 DEF t
<1>3. DOMAIN s = 1..Len(s) /\ DOMAIN q = 1..Len(q)
  OBVIOUS
<1>4. \A k \in 1..Len(s) : k \in 1..Len(q) \/ k = Len(q) + 1
  BY <1>2
<1>5. \A k \in 1..Len(q) : k \in 1..Len(s) /\ k # Len(q) + 1
  BY <1>2
<1>6. Len(q) + 1 \in 1..Len(s)
  BY <1>2
<1>7. Who(s) = Who(q) \cup {e.who}
  BY <1>2, <1>3, <1>4, <1>5, <1>6 DEF Who
<1>8. OncePerPlayer(q) /\ e.who \notin Who(q) => OncePerPlayer(s)
  BY <1>2, <1>3, <1>4, <1>5 DEF Who, OncePerPlayer
<1>9. OldestFirst(q) /\ ~e.waited => OldestFirst(s)
  <2> SUFFICES ASSUME OldestFirst(q), ~e.waited, NEW k \in 1..Len(s), NEW l \in 1..Len(s),
                      k < l, s[l].waited
               PROVE  s[k].waited
    BY DEF OldestFirst
  <2>1. l \in 1..Len(q)
    BY <1>2, <1>4
  <2>2. k \in 1..Len(q)
    BY <1>2, <2>1
  <2> QED
    BY <1>2, <2>1, <2>2 DEF OldestFirst
<1> QED
  BY <1>1, <1>7, <1>8, <1>9 DEF t

LEMMA SameQueue ==
  ASSUME QueueOK, queue' = queue PROVE QueueOK' /\ Who(queue)' = Who(queue)
BY DEF QueueOK, OncePerPlayer, OldestFirst, Who

\* The queue without some players.
LEMMA QueueShrinks ==
  ASSUME QueueOK, NEW S, queue' = Without(queue, S)
  PROVE  QueueOK' /\ Who(queue)' = Who(queue) \ S
<1>1. queue \in Seq(Entry) /\ OncePerPlayer(queue) /\ OldestFirst(queue)
  BY DEF QueueOK
<1>2. /\ queue' \in Seq(Entry) /\ Who(queue') = Who(queue) \ S
      /\ OncePerPlayer(queue') /\ OldestFirst(queue')
  BY <1>1, WithoutWho
<1> QED
  BY <1>2 DEF QueueOK, Who, OncePerPlayer, OldestFirst

LEMMA SameRows ==
  ASSUME RowsOK, formed' = formed, lobby' = lobby PROVE RowsOK'
BY DEF RowsOK

LEMMA SameHands ==
  ASSUME HandsOK, worker' = worker, formed' = formed, lobby' = lobby PROVE HandsOK'
BY DEF HandsOK, Holds, Naming

\* One worker's hand changes, and neither the names nor the rows.
LEMMA HandChanges ==
  ASSUME HandsOK, NEW w \in Workers, NEW r \in Hand, worker' = [worker EXCEPT ![w] = r],
         formed' = formed, lobby' = lobby, Holds(r),
         r.at \in {"zrem", "create"} => Naming(w) /\ r.room = worker[w].room
  PROVE  HandsOK'
<1>1. worker \in [Workers -> Hand]
  BY DEF HandsOK
<1>2. worker' \in [Workers -> Hand] /\ worker'[w] = r
  BY <1>1
<1>3. \A v \in Workers : v # w => worker'[v] = worker[v]
  BY <1>1
<1>4. Holds(r)'
  BY DEF Holds
<1>5. ASSUME NEW v \in Workers PROVE Holds(worker[v])'
  <2>1. CASE v = w
    BY <2>1, <1>2 DEF Holds
  <2>2. CASE v # w
    <3>1. Holds(worker[v])
      BY DEF HandsOK
    <3> QED
      BY <2>2, <1>3, <3>1 DEF Holds
  <2> QED
    BY <2>1, <2>2
<1>6. ASSUME NEW v \in Workers, NEW u \in Workers, Naming(v)', Naming(u)', v # u
      PROVE  (worker[v].room # worker[u].room)'
  <2>1. /\ \A x \in Workers : Naming(x)' => Naming(x) /\ worker'[x].room = worker[x].room
    BY <1>2, <1>3 DEF Naming
  <2> QED
    BY <1>6, <2>1 DEF HandsOK
<1> QED
  BY <1>2, <1>5, <1>6 DEF HandsOK

\* A hand in the shape of its record.
LEMMA HandShape ==
  ASSUME NEW r \in Hand
  PROVE  /\ r.at \in {"rest", "stopped", "read", "zrem", "create", "tickets"}
         /\ r.todo \in SUBSET Queuers /\ r.bots \in Nat /\ r.room \in Nat
         /\ \A a \in {"rest", "stopped", "read", "zrem", "create", "tickets"} :
              /\ [r EXCEPT !.at = a] \in Hand
              /\ [r EXCEPT !.at = a].at = a /\ [r EXCEPT !.at = a].todo = r.todo
              /\ [r EXCEPT !.at = a].bots = r.bots /\ [r EXCEPT !.at = a].room = r.room
         /\ \A S \in SUBSET Queuers :
              /\ [r EXCEPT !.todo = S] \in Hand
              /\ [r EXCEPT !.todo = S].at = r.at /\ [r EXCEPT !.todo = S].todo = S
              /\ [r EXCEPT !.todo = S].bots = r.bots /\ [r EXCEPT !.todo = S].room = r.room
<1> DEFINE Places == {"rest", "stopped", "read", "zrem", "create", "tickets"}
<1>1. PICK a \in Places, S \in SUBSET Queuers, b \in Nat, n \in Nat :
        r = [at |-> a, todo |-> S, bots |-> b, room |-> n]
  <2>1. r \in [at : Places, todo : SUBSET Queuers, bots : Nat, room : Nat]
    BY DEF Hand
  <2>2. r = [at |-> r.at, todo |-> r.todo, bots |-> r.bots, room |-> r.room]
    BY <2>1
  <2>3. r.at \in Places /\ r.todo \in SUBSET Queuers /\ r.bots \in Nat /\ r.room \in Nat
    BY <2>1
  <2> QED
    BY <2>2, <2>3
<1>2. r.at = a /\ r.todo = S /\ r.bots = b /\ r.room = n
  BY <1>1
<1>3. \A c : [r EXCEPT !.at = c] = [at |-> c, todo |-> S, bots |-> b, room |-> n]
  BY <1>1
<1>4. \A T : [r EXCEPT !.todo = T] = [at |-> a, todo |-> T, bots |-> b, room |-> n]
  BY <1>1
<1>5. \A c \in Places : [r EXCEPT !.at = c] \in Hand
  BY <1>3 DEF Hand
<1>6. \A T \in SUBSET Queuers : [r EXCEPT !.todo = T] \in Hand
  BY <1>4 DEF Hand
<1>7. \A c \in Places :
        /\ [r EXCEPT !.at = c].at = c /\ [r EXCEPT !.at = c].todo = r.todo
        /\ [r EXCEPT !.at = c].bots = r.bots /\ [r EXCEPT !.at = c].room = r.room
  BY <1>2, <1>3
<1>8. \A T \in SUBSET Queuers :
        /\ [r EXCEPT !.todo = T].at = r.at /\ [r EXCEPT !.todo = T].todo = T
        /\ [r EXCEPT !.todo = T].bots = r.bots /\ [r EXCEPT !.todo = T].room = r.room
  BY <1>2, <1>4
<1>9. r.at \in Places /\ r.todo \in SUBSET Queuers /\ r.bots \in Nat /\ r.room \in Nat
  BY <1>2
<1> QED
  BY <1>5, <1>6, <1>7, <1>8, <1>9

LEMMA RestShape ==
  /\ Resting \in Hand /\ Resting.at = "rest" /\ Resting.todo = {}
  /\ Stopped \in Hand /\ Stopped.at = "stopped" /\ Stopped.todo = {}
BY DEF Hand, Resting, Stopped


-----------------------------------------------------------------------------
(* The players' calls.                                                     *)

LEMMA InitIInv == InitMatchmaking => IInv
<1> SUFFICES ASSUME InitMatchmaking PROVE IInv
  OBVIOUS
<1>1. /\ queue = <<>> /\ locked = FALSE /\ formed = 0 /\ lobby = <<>>
      /\ worker \in [Workers -> {Resting, Stopped}]
      /\ ticket = [p \in Queuers |-> 0] /\ polled = [p \in Queuers |-> 0]
      /\ seats = [p \in Queuers |-> 0] /\ enqueues = [p \in Queuers |-> 0]
      /\ owed = {} /\ overran = FALSE
  BY DEF InitMatchmaking
<1>2. \A w \in Workers : /\ worker[w].at \in {"rest", "stopped"} /\ worker[w].todo = {}
                         /\ worker[w] \in Hand
  <2>1. \A w \in Workers : worker[w] = Resting \/ worker[w] = Stopped
    BY <1>1
  <2> QED
    BY <2>1, RestShape
<1>3. queue \in Seq(Entry) /\ Len(queue) = 0 /\ DOMAIN queue = {} /\ DOMAIN lobby = {}
  BY <1>1
<1>4. QueueOK /\ Who(queue) = {}
  BY <1>3 DEF QueueOK, OncePerPlayer, OldestFirst, Who
<1>5. RowsOK
  BY <1>1, <1>3 DEF RowsOK
<1>6. HandsOK
  <2>1. worker \in [Workers -> Hand]
    BY <1>1, <1>2
  <2>2. \A w \in Workers : Holds(worker[w]) /\ ~Naming(w)
    BY <1>2 DEF Holds, Naming
  <2> QED
    BY <2>1, <2>2 DEF HandsOK
<1>7. CountersOK
  BY <1>1 DEF CountersOK, Counters
<1>8. Alone
  BY <1>2 DEF Alone, Active
<1>9. SeatsDue
  BY <1>1, <1>2, <1>4 DEF SeatsDue
<1>10. Remembered /\ RaceBeforeTicket
  BY <1>1 DEF Remembered, RaceBeforeTicket
<1> QED
  BY <1>4, <1>5, <1>6, <1>7, <1>8, <1>9, <1>10 DEF IInv, OneScan

LEMMA EnqueueStep ==
  ASSUME IInv, NEW p \in Queuers, Enqueue(p) PROVE IInv'
<1>1. /\ queue' = Append(Without(queue, {p}), [who |-> p, waited |-> FALSE])
      /\ enqueues' = [enqueues EXCEPT ![p] = @ + 1] /\ owed' = owed \cup {p}
      /\ locked' = locked /\ formed' = formed /\ lobby' = lobby /\ worker' = worker
      /\ ticket' = ticket /\ polled' = polled /\ seats' = seats /\ overran' = overran
  BY DEF Enqueue, ticketVars
<1>2. QueueOK /\ RowsOK /\ HandsOK /\ CountersOK /\ OneScan /\ Remembered /\ RaceBeforeTicket
  BY DEF IInv
<1>3. QueueOK' /\ Who(queue)' = Who(queue) \cup {p}
  <2>1. queue \in Seq(Entry) /\ OncePerPlayer(queue) /\ OldestFirst(queue)
    BY <1>2 DEF QueueOK
  <2>2. PICK r \in Seq(Entry) : r = Without(queue, {p})
    BY <2>1, WithoutWho
  <2>3. Who(r) = Who(queue) \ {p} /\ OncePerPlayer(r) /\ OldestFirst(r)
    BY <2>1, <2>2, WithoutWho
  <2>4. PICK e \in Entry : e = [who |-> p, waited |-> FALSE]
    BY DEF Entry
  <2>5. e.who = p /\ ~e.waited
    BY <2>4
  <2>6. queue' = Append(r, e)
    BY <1>1, <2>2, <2>4
  <2>7. queue' \in Seq(Entry) /\ Who(queue') = Who(r) \cup {p}
    BY <2>5, <2>6, AppendWho
  <2>8. OncePerPlayer(queue') /\ OldestFirst(queue')
    BY <2>3, <2>5, <2>6, AppendWho
  <2> QED
    BY <2>3, <2>7, <2>8 DEF QueueOK, Who, OncePerPlayer, OldestFirst
<1>4. RowsOK' /\ HandsOK'
  BY <1>1, <1>2, SameRows, SameHands
<1>5. /\ enqueues \in [Queuers -> Nat] /\ seats \in [Queuers -> Nat]
      /\ enqueues' \in [Queuers -> Nat] /\ enqueues'[p] = enqueues[p] + 1
      /\ \A x \in Queuers : x # p => enqueues'[x] = enqueues[x]
  BY <1>1, <1>2 DEF CountersOK, Counters
<1>6. CountersOK'
  BY <1>1, <1>2, <1>5 DEF CountersOK, Counters
<1>7. OneScan'
  <2>1. CASE overran
    BY <2>1, <1>1 DEF OneScan
  <2>2. CASE Alone /\ SeatsDue
    <3>1. Alone'
      BY <2>2, <1>1 DEF Alone, Active
    <3>2. \A x \in Queuers : seats[x] <= enqueues[x]
      BY <2>2 DEF SeatsDue
    <3>3. \A x \in Queuers : seats'[x] <= enqueues'[x]
      BY <1>1, <1>5, <3>2
    <3>4. Who(queue) \subseteq Queuers /\ \A w \in Workers : worker[w].todo \subseteq Queuers
      <4>1. worker \in [Workers -> Hand] /\ queue \in Seq(Entry)
        BY <1>2 DEF HandsOK, QueueOK
      <4>2. \A i \in DOMAIN queue : queue[i] \in Entry
        BY <4>1
      <4> QED
        BY <4>1, <4>2 DEF Hand, Entry, Who
    <3>5. \A x \in Who(queue)' : seats'[x] + 1 <= enqueues'[x]
      <4> SUFFICES ASSUME NEW x \in Who(queue)' PROVE seats'[x] + 1 <= enqueues'[x]
        OBVIOUS
      <4>1. CASE x = p
        BY <4>1, <1>1, <1>5, <3>2
      <4>2. CASE x # p /\ x \in Who(queue)
        BY <4>2, <1>1, <1>5, <2>2, <3>4 DEF SeatsDue
      <4> QED
        BY <4>1, <4>2, <1>3
    <3>6. \A w \in Workers : \A x \in worker'[w].todo : seats'[x] + 1 <= enqueues'[x]
      <4> SUFFICES ASSUME NEW w \in Workers, NEW x \in worker[w].todo
                   PROVE  seats'[x] + 1 <= enqueues'[x]
        BY <1>1
      <4>1. seats[x] + 1 <= enqueues[x] /\ x \in Queuers
        BY <2>2, <3>4 DEF SeatsDue
      <4> QED
        BY <4>1, <1>1, <1>5
    <3>7. ASSUME NEW w \in Workers, worker'[w].at \in {"create", "tickets"},
                 NEW x \in worker'[w].todo, x \in Who(queue)'
          PROVE  seats'[x] + 2 <= enqueues'[x]
      <4>1. seats[x] + 1 <= enqueues[x] /\ x \in Queuers
        BY <1>1, <2>2, <3>4 DEF SeatsDue
      <4>2. CASE x = p
        BY <4>1, <4>2, <1>1, <1>5
      <4>3. CASE x # p
        <5>1. seats[x] + 2 <= enqueues[x]
          BY <4>3, <3>7, <1>1, <1>3, <2>2 DEF SeatsDue
        <5> QED
          BY <4>1, <4>3, <5>1, <1>1, <1>5
      <4> QED
        BY <4>2, <4>3
    <3>8. SeatsDue'
      BY <3>3, <3>5, <3>6, <3>7 DEF SeatsDue
    <3> QED
      BY <3>1, <3>8 DEF OneScan
  <2> QED
    BY <1>2, <2>1, <2>2 DEF OneScan
<1>8. Remembered'
  BY <1>1, <1>2, <1>3 DEF Remembered
<1>9. RaceBeforeTicket'
  BY <1>1, <1>2 DEF RaceBeforeTicket
<1> QED
  BY <1>3, <1>4, <1>6, <1>7, <1>8, <1>9 DEF IInv


LEMMA DequeueStep ==
  ASSUME IInv, NEW p \in Queuers, Dequeue(p) PROVE IInv'
<1>1. /\ queue' = Without(queue, {p}) /\ owed' = owed \ {p}
      /\ locked' = locked /\ formed' = formed /\ lobby' = lobby /\ worker' = worker
      /\ ticket' = ticket /\ polled' = polled /\ seats' = seats /\ enqueues' = enqueues
      /\ overran' = overran
  BY DEF Dequeue, ticketVars
<1>2. QueueOK /\ RowsOK /\ HandsOK /\ CountersOK /\ OneScan /\ Remembered /\ RaceBeforeTicket
  BY DEF IInv
<1>3. QueueOK' /\ Who(queue)' = Who(queue) \ {p}
  BY <1>1, <1>2, QueueShrinks
<1>4. RowsOK' /\ HandsOK'
  BY <1>1, <1>2, SameRows, SameHands
<1>5. CountersOK'
  BY <1>1, <1>2 DEF CountersOK, Counters
<1>6. OneScan'
  <2>1. Alone => Alone'
    BY <1>1 DEF Alone, Active
  <2>2. SeatsDue => SeatsDue'
    BY <1>1, <1>3 DEF SeatsDue
  <2> QED
    BY <1>1, <1>2, <2>1, <2>2 DEF OneScan
<1>7. Remembered'
  BY <1>1, <1>2, <1>3 DEF Remembered
<1>8. RaceBeforeTicket'
  BY <1>1, <1>2 DEF RaceBeforeTicket
<1> QED
  BY <1>3, <1>4, <1>5, <1>6, <1>7, <1>8 DEF IInv

\* A poll and the expiry of a ticket touch neither the queue nor a worker.
LEMMA TicketStep ==
  ASSUME IInv, NEW p \in Queuers, PollRead(p) \/ PollDelete(p) \/ TicketExpires(p) PROVE IInv'
<1>1. /\ queue' = queue /\ locked' = locked /\ formed' = formed /\ lobby' = lobby
      /\ worker' = worker /\ seats' = seats /\ enqueues' = enqueues /\ overran' = overran
  BY DEF PollRead, PollDelete, TicketExpires, queueVars, ghostVars
<1>2. QueueOK /\ RowsOK /\ HandsOK /\ CountersOK /\ OneScan /\ Remembered /\ RaceBeforeTicket
  BY DEF IInv
<1>3. /\ ticket \in [Queuers -> Nat] /\ polled \in [Queuers -> Nat] /\ owed \subseteq Queuers
  BY <1>2 DEF CountersOK, Counters
<1>4. /\ ticket' \in [Queuers -> Nat] /\ polled' \in [Queuers -> Nat] /\ owed' \subseteq owed
      /\ \A x \in Queuers : ticket'[x] # 0 => ticket'[x] = ticket[x]
      /\ \A x \in owed' : ticket[x] # 0 => ticket'[x] # 0
      /\ \A x \in owed' : polled[x] # 0 => polled'[x] # 0
  <2>1. CASE PollRead(p)
    <3>1. /\ ticket' = ticket /\ owed' = owed /\ ticket[p] # 0
          /\ polled' = [polled EXCEPT ![p] = ticket[p]]
      BY <2>1 DEF PollRead, ghostVars
    <3> QED
      BY <3>1, <1>3
  <2>2. CASE PollDelete(p)
    <3>1. /\ ticket' = [ticket EXCEPT ![p] = 0] /\ owed' = owed \ {p}
          /\ polled' = [polled EXCEPT ![p] = 0]
      BY <2>2 DEF PollDelete
    <3> QED
      BY <3>1, <1>3
  <2>3. CASE TicketExpires(p)
    <3>1. /\ ticket' = [ticket EXCEPT ![p] = 0] /\ owed' = owed \ {p} /\ polled' = polled
      BY <2>3 DEF TicketExpires
    <3> QED
      BY <3>1, <1>3
  <2> QED
    BY <2>1, <2>2, <2>3
<1>5. QueueOK' /\ Who(queue)' = Who(queue)
  BY <1>1, <1>2, SameQueue
<1>6. RowsOK' /\ HandsOK'
  BY <1>1, <1>2, SameRows, SameHands
<1>7. CountersOK'
  BY <1>1, <1>2, <1>4 DEF CountersOK, Counters
<1>8. OneScan'
  <2>1. Alone => Alone'
    BY <1>1 DEF Alone, Active
  <2>2. SeatsDue => SeatsDue'
    BY <1>1, <1>5 DEF SeatsDue
  <2> QED
    BY <1>1, <1>2, <2>1, <2>2 DEF OneScan
<1>9. Remembered'
  <2> SUFFICES ASSUME NEW x \in owed'
               PROVE  \/ x \in Who(queue)' \/ ticket'[x] # 0 \/ polled'[x] # 0
                      \/ \E w \in Workers : x \in worker'[w].todo
    BY DEF Remembered
  <2>1. \/ x \in Who(queue) \/ ticket[x] # 0 \/ polled[x] # 0
        \/ \E w \in Workers : x \in worker[w].todo
    BY <1>2, <1>4 DEF Remembered
  <2> QED
    BY <2>1, <1>1, <1>4, <1>5
<1>10. RaceBeforeTicket'
  BY <1>1, <1>2, <1>4 DEF RaceBeforeTicket
<1> QED
  BY <1>5, <1>6, <1>7, <1>8, <1>9, <1>10 DEF IInv

LEMMA WaitStep ==
  ASSUME IInv, Wait PROVE IInv'
<1>1. PICK i \in DOMAIN queue :
        /\ ~queue[i].waited /\ \A j \in 1..(i - 1) : queue[j].waited
        /\ queue' = [queue EXCEPT ![i].waited = TRUE]
        /\ UNCHANGED <<locked, formed, lobby, worker, ticketVars, ghostVars>>
  BY DEF Wait
<1>2. /\ locked' = locked /\ formed' = formed /\ lobby' = lobby /\ worker' = worker
      /\ ticket' = ticket /\ polled' = polled /\ seats' = seats /\ enqueues' = enqueues
      /\ owed' = owed /\ overran' = overran
  BY <1>1 DEF ticketVars, ghostVars
<1>3. QueueOK /\ RowsOK /\ HandsOK /\ CountersOK /\ OneScan /\ Remembered /\ RaceBeforeTicket
  BY DEF IInv
<1>4. /\ queue \in Seq(Entry) /\ OncePerPlayer(queue) /\ OldestFirst(queue)
      /\ DOMAIN queue = 1..Len(queue) /\ Len(queue) \in Nat
  BY <1>3 DEF QueueOK
<1>5. PICK e \in Entry : e = [queue[i] EXCEPT !.waited = TRUE]
  <2>1. queue[i] \in Entry
    BY <1>4
  <2>2. [queue[i] EXCEPT !.waited = TRUE] \in Entry
    BY <2>1 DEF Entry
  <2> QED
    BY <2>2
<1>6. e.who = queue[i].who /\ e.waited
  <2>1. queue[i] \in Entry
    BY <1>4
  <2> QED
    BY <1>5, <2>1 DEF Entry
<1>7. queue' = [queue EXCEPT ![i] = e]
  BY <1>1, <1>5
<1>8. /\ queue' \in Seq(Entry) /\ Len(queue') = Len(queue) /\ DOMAIN queue' = DOMAIN queue
      /\ queue'[i] = e /\ \A j \in DOMAIN queue : j # i => queue'[j] = queue[j]
  BY <1>4, <1>7
<1>9. \A j \in DOMAIN queue : queue'[j].who = queue[j].who
  BY <1>6, <1>8
<1>10. Who(queue)' = Who(queue)
  BY <1>8, <1>9 DEF Who
<1>11. OncePerPlayer(queue)'
  BY <1>4, <1>8, <1>9 DEF OncePerPlayer
<1>12. OldestFirst(queue)'
  <2> SUFFICES ASSUME NEW k \in 1..Len(queue), NEW l \in 1..Len(queue), k < l, queue'[l].waited
               PROVE  queue'[k].waited
    BY <1>8 DEF OldestFirst
  <2>1. CASE k = i
    BY <2>1, <1>6, <1>8
  <2>2. CASE k # i /\ l = i
    <3>1. k \in 1..(i - 1)
      BY <2>2, <1>4
    <3> QED
      BY <3>1, <2>2, <1>1, <1>4, <1>8
  <2>3. CASE k # i /\ l # i
    BY <2>3, <1>4, <1>8 DEF OldestFirst
  <2> QED
    BY <2>1, <2>2, <2>3
<1>13. QueueOK'
  BY <1>8, <1>11, <1>12 DEF QueueOK, Entry
<1>14. RowsOK' /\ HandsOK'
  BY <1>2, <1>3, SameRows, SameHands
<1>15. CountersOK'
  BY <1>2, <1>3 DEF CountersOK, Counters
<1>16. OneScan'
  <2>1. Alone => Alone'
    BY <1>2 DEF Alone, Active
  <2>2. SeatsDue => SeatsDue'
    BY <1>2, <1>10 DEF SeatsDue
  <2> QED
    BY <1>2, <1>3, <2>1, <2>2 DEF OneScan
<1>17. Remembered'
  BY <1>2, <1>3, <1>10 DEF Remembered
<1>18. RaceBeforeTicket'
  BY <1>2, <1>3 DEF RaceBeforeTicket
<1> QED
  BY <1>13, <1>14, <1>15, <1>16, <1>17, <1>18 DEF IInv

LEMMA LockExpiresStep ==
  ASSUME IInv, LockExpires PROVE IInv'
<1>1. /\ queue' = queue /\ formed' = formed /\ lobby' = lobby /\ worker' = worker
      /\ ticket' = ticket /\ polled' = polled /\ seats' = seats /\ enqueues' = enqueues
      /\ owed' = owed
      /\ overran' = (overran \/ \E w \in Workers : Active(w))
  BY DEF LockExpires, ticketVars, Active
<1>2. QueueOK /\ RowsOK /\ HandsOK /\ CountersOK /\ OneScan /\ Remembered /\ RaceBeforeTicket
  BY DEF IInv
<1>3. QueueOK' /\ Who(queue)' = Who(queue)
  BY <1>1, <1>2, SameQueue
<1>4. RowsOK' /\ HandsOK'
  BY <1>1, <1>2, SameRows, SameHands
<1>5. CountersOK'
  BY <1>1, <1>2 DEF CountersOK, Counters
<1>6. OneScan'
  <2>1. CASE overran \/ \E w \in Workers : Active(w)
    <3>1. overran'
      BY <2>1, <1>1
    <3> QED
      BY <3>1 DEF OneScan
  <2>2. CASE ~overran /\ \A w \in Workers : ~Active(w)
    <3>1. Alone'
      BY <2>2, <1>1 DEF Alone, Active
    <3>2. SeatsDue'
      BY <2>2, <1>1, <1>2, <1>3 DEF SeatsDue, OneScan
    <3> QED
      BY <3>1, <3>2 DEF OneScan
  <2> QED
    BY <2>1, <2>2
<1>7. Remembered'
  BY <1>1, <1>2, <1>3 DEF Remembered
<1>8. RaceBeforeTicket'
  BY <1>1, <1>2 DEF RaceBeforeTicket
<1> QED
  BY <1>3, <1>4, <1>5, <1>6, <1>7, <1>8 DEF IInv


-----------------------------------------------------------------------------
(* A worker's tick.                                                        *)

LEMMA TryLockStep ==
  ASSUME IInv, NEW w \in Workers, TryLock(w) PROVE IInv'
<1>1. /\ worker[w].at = "rest" /\ ~locked /\ locked'
      /\ worker' = [worker EXCEPT ![w].at = "read"]
      /\ queue' = queue /\ formed' = formed /\ lobby' = lobby
      /\ ticket' = ticket /\ polled' = polled /\ seats' = seats /\ enqueues' = enqueues
      /\ owed' = owed /\ overran' = overran /\ locked' = TRUE
  BY DEF TryLock, Lockable, ticketVars, ghostVars
<1>2. QueueOK /\ RowsOK /\ HandsOK /\ CountersOK /\ OneScan /\ Remembered /\ RaceBeforeTicket
  BY DEF IInv
<1>3. worker \in [Workers -> Hand] /\ worker[w] \in Hand /\ worker[w].todo = {}
  BY <1>1, <1>2 DEF HandsOK, Holds
<1>4. PICK r \in Hand : r = [worker[w] EXCEPT !.at = "read"]
  BY <1>3, HandShape
<1>5. r.at = "read" /\ r.todo = {}
  BY <1>3, <1>4, HandShape
<1>6. worker' = [worker EXCEPT ![w] = r]
  BY <1>1, <1>4
<1>7. worker'[w] = r /\ \A v \in Workers : v # w => worker'[v] = worker[v]
  BY <1>3, <1>6
<1>8. QueueOK' /\ Who(queue)' = Who(queue)
  BY <1>1, <1>2, SameQueue
<1>9. RowsOK'
  BY <1>1, <1>2, SameRows
<1>10. HandsOK'
  <2>1. Holds(r)
    BY <1>5 DEF Holds
  <2>2. ~(r.at \in {"zrem", "create"})
    BY <1>5
  <2> QED
    BY <1>1, <1>2, <1>6, <2>1, <2>2, HandChanges
<1>11. CountersOK'
  BY <1>1, <1>2 DEF CountersOK, Counters
<1>12. \A v \in Workers : worker'[v].todo = worker[v].todo
  BY <1>3, <1>5, <1>7
<1>13. OneScan'
  <2>1. Alone => Alone'
    <3> SUFFICES ASSUME Alone PROVE Alone'
      OBVIOUS
    <3>1. \A v \in Workers : ~Active(v)
      BY <1>1 DEF Alone
    <3>2. \A v \in Workers : v # w => ~Active(v)'
      BY <1>7, <3>1 DEF Active
    <3> QED
      BY <1>1, <3>2 DEF Alone
  <2>2. SeatsDue => SeatsDue'
    <3> SUFFICES ASSUME SeatsDue PROVE SeatsDue'
      OBVIOUS
    <3>1. \A v \in Workers : worker'[v].at \in {"create", "tickets"} =>
            worker[v].at \in {"create", "tickets"}
      BY <1>5, <1>7
    <3> QED
      BY <1>1, <1>8, <1>12, <3>1 DEF SeatsDue
  <2> QED
    BY <1>1, <1>2, <2>1, <2>2 DEF OneScan
<1>14. Remembered'
  BY <1>1, <1>2, <1>8, <1>12 DEF Remembered
<1>15. RaceBeforeTicket'
  BY <1>1, <1>2 DEF RaceBeforeTicket
<1> QED
  BY <1>8, <1>9, <1>10, <1>11, <1>13, <1>14, <1>15 DEF IInv

\* The selected stand in the queue, and a lobby is full with them and its bots.
LEMMA SelectedFill ==
  ASSUME QueueOK
  PROVE  /\ Selected \subseteq Who(queue) /\ Selected \in SUBSET Queuers
         /\ BotsNeeded \in Nat /\ Cardinality(Selected) + BotsNeeded = LobbySize
<1>1. /\ queue \in Seq(Entry) /\ OncePerPlayer(queue) /\ LobbySize \in Nat
      /\ Len(queue) \in Nat /\ DOMAIN queue = 1..Len(queue)
  BY MatchmakingAssumption DEF QueueOK
<1>2. PICK L \in Nat, k \in Nat : L = LobbySize /\ k = Len(queue)
  BY <1>1
<1>3. CanFill <=> L <= k
  BY <1>2 DEF CanFill
<1>4. PICK n \in Nat : n <= L /\ n <= k /\ (L <= k => n = L) /\ (~(L <= k) => n = k)
  OBVIOUS
<1>5. \A j \in Nat : j \in 1..n <=> j \in 1..k /\ j <= L
  BY <1>4
<1>6. {j \in DOMAIN queue : j <= LobbySize} = 1..n
  BY <1>1, <1>2, <1>5
<1>7. Selected = {queue[i].who : i \in 1..n}
  BY <1>6 DEF Selected
<1>8. \A i \in 1..n : i \in 1..Len(queue)
  BY <1>2, <1>5
<1>9. Selected \subseteq Who(queue)
  BY <1>1, <1>7, <1>8 DEF Who
<1>10. Who(queue) \subseteq Queuers
  <2>1. \A i \in DOMAIN queue : queue[i] \in Entry
    BY <1>1
  <2> QED
    BY <2>1 DEF Entry, Who
<1>11. Cardinality(Selected) = n
  <2> DEFINE f == [i \in 1..n |-> queue[i].who]
  <2>1. f \in [1..n -> Selected] /\ \A s \in Selected : \E i \in 1..n : f[i] = s
    BY <1>7
  <2>2. \A i, j \in 1..n : f[i] = f[j] => i = j
    BY <1>1, <1>8 DEF OncePerPlayer
  <2> HIDE DEF f
  <2>3. f \in Bijection(1..n, Selected)
    BY <2>1, <2>2 DEF Bijection, Injection, Surjection, IsInjective
  <2> QED
    BY <1>2, <2>3, FS_CountingElements DEF ExistsBijection
<1>12. BotsNeeded = L - n
  BY <1>2, <1>11, <1>3, <1>4 DEF BotsNeeded
<1>13. L - n \in Nat /\ n + (L - n) = L
  BY <1>4
<1> QED
  BY <1>2, <1>9, <1>10, <1>11, <1>12, <1>13

LEMMA ScanStep ==
  ASSUME IInv, NEW w \in Workers, Scan(w) PROVE IInv'
<1>1. /\ worker[w].at = "read"
      /\ queue' = queue /\ locked' = locked /\ lobby' = lobby
      /\ ticket' = ticket /\ polled' = polled /\ seats' = seats /\ enqueues' = enqueues
      /\ owed' = owed /\ overran' = overran
      /\ \/ /\ formed' = formed + 1
            /\ worker' = [worker EXCEPT ![w] =
                 [at |-> "zrem", todo |-> Selected, room |-> formed + 1, bots |-> BotsNeeded]]
         \/ formed' = formed /\ worker' = [worker EXCEPT ![w] = Resting]
  BY DEF Scan, ticketVars, ghostVars
<1>2. QueueOK /\ RowsOK /\ HandsOK /\ CountersOK /\ OneScan /\ Remembered /\ RaceBeforeTicket
  BY DEF IInv
<1>3. worker \in [Workers -> Hand] /\ worker[w] \in Hand /\ worker[w].todo = {} /\ formed \in Nat
  BY <1>1, <1>2 DEF HandsOK, Holds, RowsOK
<1>4. QueueOK' /\ Who(queue)' = Who(queue)
  BY <1>1, <1>2, SameQueue
<1>5. RowsOK'
  BY <1>1, <1>2 DEF RowsOK
<1>6. CountersOK'
  BY <1>1, <1>2 DEF CountersOK, Counters
<1>7. RaceBeforeTicket'
  BY <1>1, <1>2 DEF RaceBeforeTicket
<1>8. PICK S \in SUBSET Queuers, b \in Nat :
        S = Selected /\ b = BotsNeeded /\ S \subseteq Who(queue) /\ Cardinality(S) + b = LobbySize
  BY <1>2, SelectedFill
<1>9. PICK r \in Hand :
        /\ worker' = [worker EXCEPT ![w] = r]
        /\ \/ /\ formed' = formed + 1
              /\ r = [at |-> "zrem", todo |-> S, room |-> formed + 1, bots |-> b]
           \/ formed' = formed /\ r = Resting
  <2>1. PICK s \in Hand : s = [at |-> "zrem", todo |-> S, room |-> formed + 1, bots |-> b]
    <3>1. formed + 1 \in Nat
      BY <1>3
    <3>2. [at |-> "zrem", todo |-> S, room |-> formed + 1, bots |-> b] \in Hand
      BY <3>1 DEF Hand
    <3> QED
      BY <3>2
  <2> QED
    BY <1>1, <1>8, <2>1, RestShape
<1>10. \/ /\ formed' = formed + 1 /\ r.at = "zrem" /\ r.room = formed + 1
          /\ r.todo = S /\ r.bots = b
       \/ formed' = formed /\ r.at = "rest" /\ r.todo = {}
  BY <1>9, RestShape
<1>11. worker'[w] = r /\ \A v \in Workers : v # w => worker'[v] = worker[v]
  BY <1>3, <1>9
<1>12. HandsOK'
  <2>1. worker' \in [Workers -> Hand]
    BY <1>3, <1>9
  <2>2. \A v \in Workers : Naming(v) => worker[v].room \in 1..formed
    BY <1>2 DEF HandsOK, Holds, Naming
  <2>3. DOMAIN lobby \subseteq 1..formed
    BY <1>2 DEF RowsOK
  <2>4. Holds(worker[w])'
    BY <1>1, <1>3, <1>8, <1>10, <1>11, <2>3 DEF Holds
  <2>5. ASSUME NEW v \in Workers, v # w PROVE Holds(worker[v])'
    <3>1. Holds(worker[v])
      BY <1>2 DEF HandsOK
    <3>2. 1..formed \subseteq 1..formed'
      BY <1>3, <1>10
    <3> QED
      BY <2>5, <3>1, <3>2, <1>1, <1>11 DEF Holds
  <2>6. ASSUME NEW v \in Workers, NEW u \in Workers, Naming(v)', Naming(u)', v # u
        PROVE  (worker[v].room # worker[u].room)'
    <3>1. CASE v # w /\ u # w
      BY <3>1, <2>6, <1>2, <1>11 DEF HandsOK, Naming
    <3>2. CASE v = w
      <4>1. worker'[v].room = formed + 1
        BY <3>2, <2>6, <1>10, <1>11 DEF Naming
      <4>2. worker'[u].room \in 1..formed
        BY <3>2, <2>2, <2>6, <1>11 DEF Naming
      <4> QED
        BY <4>1, <4>2, <1>3
    <3>3. CASE u = w
      <4>1. worker'[u].room = formed + 1
        BY <3>3, <2>6, <1>10, <1>11 DEF Naming
      <4>2. worker'[v].room \in 1..formed
        BY <3>3, <2>2, <2>6, <1>11 DEF Naming
      <4> QED
        BY <4>1, <4>2, <1>3
    <3> QED
      BY <3>1, <3>2, <3>3
  <2> QED
    BY <2>1, <2>4, <2>5, <2>6 DEF HandsOK
<1>13. OneScan'
  <2>1. Alone => Alone'
    <3>1. \A v \in Workers : Active(v)' => Active(v)
      BY <1>1, <1>11 DEF Active
    <3> QED
      BY <1>1, <3>1 DEF Alone
  <2>2. SeatsDue => SeatsDue'
    <3> SUFFICES ASSUME SeatsDue PROVE SeatsDue'
      OBVIOUS
    <3>1. \A v \in Workers : \A x \in worker'[v].todo : seats[x] + 1 <= enqueues[x]
      <4> SUFFICES ASSUME NEW v \in Workers, NEW x \in worker'[v].todo
                   PROVE  seats[x] + 1 <= enqueues[x]
        OBVIOUS
      <4>1. CASE v = w
        <5>1. x \in Who(queue)
          BY <4>1, <1>8, <1>10, <1>11
        <5> QED
          BY <5>1 DEF SeatsDue
      <4>2. CASE v # w
        BY <4>2, <1>11 DEF SeatsDue
      <4> QED
        BY <4>1, <4>2
    <3>2. \A v \in Workers : worker'[v].at \in {"create", "tickets"} => v # w
      BY <1>10, <1>11
    <3>3. \A v \in Workers : worker'[v].at \in {"create", "tickets"} =>
            \A x \in worker'[v].todo : x \in Who(queue) => seats[x] + 2 <= enqueues[x]
      BY <3>2, <1>11 DEF SeatsDue
    <3> QED
      BY <3>1, <3>3, <1>1, <1>4 DEF SeatsDue
  <2> QED
    BY <1>1, <1>2, <2>1, <2>2 DEF OneScan
<1>14. Remembered'
  <2>1. \A v \in Workers : worker[v].todo \subseteq worker'[v].todo
    BY <1>3, <1>11
  <2> QED
    BY <2>1, <1>1, <1>2, <1>4 DEF Remembered
<1> QED
  BY <1>4, <1>5, <1>6, <1>7, <1>12, <1>13, <1>14 DEF IInv


LEMMA TakeStep ==
  ASSUME IInv, NEW w \in Workers, Take(w) PROVE IInv'
<1>1. /\ worker[w].at = "zrem" /\ queue' = Without(queue, worker[w].todo)
      /\ worker' = [worker EXCEPT ![w].at = "create"]
      /\ locked' = locked /\ formed' = formed /\ lobby' = lobby
      /\ ticket' = ticket /\ polled' = polled /\ seats' = seats /\ enqueues' = enqueues
      /\ owed' = owed /\ overran' = overran
  BY DEF Take, Taken, AfterTaken, ticketVars, ghostVars
<1>2. QueueOK /\ RowsOK /\ HandsOK /\ CountersOK /\ OneScan /\ Remembered /\ RaceBeforeTicket
  BY DEF IInv
<1>3. worker \in [Workers -> Hand] /\ worker[w] \in Hand /\ Holds(worker[w])
  BY <1>2 DEF HandsOK
<1>4. PICK r \in Hand : r = [worker[w] EXCEPT !.at = "create"]
  BY <1>3, HandShape
<1>5. r.at = "create" /\ r.todo = worker[w].todo /\ r.room = worker[w].room /\ r.bots = worker[w].bots
  BY <1>3, <1>4, HandShape
<1>6. worker' = [worker EXCEPT ![w] = r]
  BY <1>1, <1>4
<1>7. worker'[w] = r /\ \A v \in Workers : v # w => worker'[v] = worker[v]
  BY <1>3, <1>6
<1>8. QueueOK' /\ Who(queue)' = Who(queue) \ worker[w].todo
  BY <1>1, <1>2, QueueShrinks
<1>9. RowsOK'
  BY <1>1, <1>2, SameRows
<1>10. HandsOK'
  <2>1. Holds(r)
    BY <1>1, <1>3, <1>5 DEF Holds
  <2>2. Naming(w)
    BY <1>1 DEF Naming
  <2> QED
    BY <1>1, <1>2, <1>5, <1>6, <2>1, <2>2, HandChanges
<1>11. CountersOK'
  BY <1>1, <1>2 DEF CountersOK, Counters
<1>12. \A v \in Workers : worker'[v].todo = worker[v].todo
  BY <1>5, <1>7
<1>13. OneScan'
  <2>1. CASE overran
    BY <2>1, <1>1 DEF OneScan
  <2>2. CASE Alone /\ SeatsDue
    <3>1. \A v \in Workers : Active(v)' => Active(v)
      BY <1>1, <1>7 DEF Active
    <3>2. Alone'
      BY <2>2, <3>1, <1>1 DEF Alone
    <3>3. \A v \in Workers : v # w => ~Active(v)
      BY <1>1, <2>2 DEF Alone, Active
    <3>4. \A v \in Workers : worker'[v].at \in {"create", "tickets"} => v = w
      BY <3>3, <1>7 DEF Active
    <3>5. \A v \in Workers : worker'[v].at \in {"create", "tickets"} =>
            \A x \in worker'[v].todo : x \notin Who(queue)'
      BY <3>4, <1>5, <1>7, <1>8
    <3>6. SeatsDue'
      BY <3>5, <1>1, <1>8, <1>12, <2>2 DEF SeatsDue
    <3> QED
      BY <3>2, <3>6 DEF OneScan
  <2> QED
    BY <2>1, <2>2, <1>2 DEF OneScan
<1>14. Remembered'
  BY <1>1, <1>2, <1>8, <1>12 DEF Remembered
<1>15. RaceBeforeTicket'
  BY <1>1, <1>2 DEF RaceBeforeTicket
<1> QED
  BY <1>8, <1>9, <1>10, <1>11, <1>13, <1>14, <1>15 DEF IInv

LEMMA CreateRaceStep ==
  ASSUME IInv, NEW w \in Workers, CreateRace(w) PROVE IInv'
<1>1. /\ worker[w].at = "create"
      /\ lobby' = [i \in DOMAIN lobby \cup {worker[w].room} |->
                     IF i = worker[w].room
                     THEN [who |-> worker[w].todo, bots |-> worker[w].bots] ELSE lobby[i]]
      /\ worker' = [worker EXCEPT ![w].at = "tickets"]
      /\ queue' = queue /\ locked' = locked /\ formed' = formed
      /\ ticket' = ticket /\ polled' = polled /\ seats' = seats /\ enqueues' = enqueues
      /\ owed' = owed /\ overran' = overran
  BY DEF CreateRace, ticketVars, ghostVars
<1>2. QueueOK /\ RowsOK /\ HandsOK /\ CountersOK /\ OneScan /\ Remembered /\ RaceBeforeTicket
  BY DEF IInv
<1>3. /\ worker \in [Workers -> Hand] /\ worker[w] \in Hand
      /\ worker[w].room \in 1..formed /\ worker[w].room \notin DOMAIN lobby
      /\ Cardinality(worker[w].todo) + worker[w].bots = LobbySize
  BY <1>1, <1>2 DEF HandsOK, Holds
<1>4. PICK r \in Hand : r = [worker[w] EXCEPT !.at = "tickets"]
  BY <1>3, HandShape
<1>5. r.at = "tickets" /\ r.todo = worker[w].todo /\ r.room = worker[w].room
  BY <1>3, <1>4, HandShape
<1>6. worker' = [worker EXCEPT ![w] = r]
  BY <1>1, <1>4
<1>7. worker'[w] = r /\ \A v \in Workers : v # w => worker'[v] = worker[v]
  BY <1>3, <1>6
<1>8. /\ DOMAIN lobby' = DOMAIN lobby \cup {r.room}
      /\ \A i \in DOMAIN lobby : lobby'[i] = lobby[i]
      /\ lobby'[r.room].who = r.todo
      /\ lobby'[r.room].bots = worker[w].bots
  BY <1>1, <1>3, <1>5
<1>9. QueueOK' /\ Who(queue)' = Who(queue)
  BY <1>1, <1>2, SameQueue
<1>10. RowsOK'
  BY <1>1, <1>2, <1>3, <1>5, <1>8 DEF RowsOK
<1>11. HandsOK'
  <2>1. worker' \in [Workers -> Hand]
    BY <1>3, <1>6
  <2>2. Holds(worker[w])'
    BY <1>1, <1>3, <1>5, <1>7, <1>8 DEF Holds
  <2>3. ASSUME NEW v \in Workers, v # w PROVE Holds(worker[v])'
    <3>1. Holds(worker[v]) /\ (Naming(v) => worker[v].room # worker[w].room)
      BY <1>1, <1>2, <2>3 DEF HandsOK, Naming
    <3>2. worker'[v] = worker[v]
      BY <1>7, <2>3
    <3>3. worker[v].at \in {"zrem", "create"} => worker[v].room \notin DOMAIN lobby'
      BY <3>1, <1>5, <1>8 DEF Holds, Naming
    <3>4. worker[v].at = "tickets" =>
            worker[v].room \in DOMAIN lobby' /\ worker[v].todo \subseteq lobby'[worker[v].room].who
      BY <3>1, <1>8 DEF Holds
    <3> QED
      BY <3>1, <3>2, <3>3, <3>4, <1>1 DEF Holds
  <2>4. \A v \in Workers : Naming(v)' => Naming(v) /\ worker'[v].room = worker[v].room
    BY <1>5, <1>7 DEF Naming
  <2> QED
    BY <2>1, <2>2, <2>3, <2>4, <1>2 DEF HandsOK
<1>12. CountersOK'
  BY <1>1, <1>2 DEF CountersOK, Counters
<1>13. \A v \in Workers : worker'[v].todo = worker[v].todo
  BY <1>5, <1>7
<1>14. OneScan'
  <2>1. Alone => Alone'
    <3>1. \A v \in Workers : Active(v)' => Active(v)
      BY <1>1, <1>7 DEF Active
    <3> QED
      BY <3>1, <1>1 DEF Alone
  <2>2. SeatsDue => SeatsDue'
    <3>1. \A v \in Workers : worker'[v].at \in {"create", "tickets"} =>
            worker[v].at \in {"create", "tickets"}
      BY <1>1, <1>7
    <3> QED
      BY <3>1, <1>1, <1>9, <1>13 DEF SeatsDue
  <2> QED
    BY <1>1, <1>2, <2>1, <2>2 DEF OneScan
<1>15. Remembered'
  BY <1>1, <1>2, <1>9, <1>13 DEF Remembered
<1>16. RaceBeforeTicket'
  BY <1>1, <1>2, <1>8 DEF RaceBeforeTicket
<1> QED
  BY <1>9, <1>10, <1>11, <1>12, <1>14, <1>15, <1>16 DEF IInv

LEMMA IssueTicketStep ==
  ASSUME IInv, NEW w \in Workers, NEW p \in Queuers, IssueTicket(w, p) PROVE IInv'
<1>1. /\ worker[w].at = "tickets" /\ p \in worker[w].todo
      /\ ticket' = [ticket EXCEPT ![p] = worker[w].room]
      /\ seats' = [seats EXCEPT ![p] = @ + 1]
      /\ worker' = [worker EXCEPT ![w] =
           IF worker[w].todo \ {p} = {} THEN Resting ELSE [@ EXCEPT !.todo = worker[w].todo \ {p}]]
      /\ queue' = queue /\ locked' = locked /\ formed' = formed /\ lobby' = lobby
      /\ polled' = polled /\ enqueues' = enqueues /\ owed' = owed /\ overran' = overran
  BY DEF IssueTicket, Issued, queueVars
<1>2. QueueOK /\ RowsOK /\ HandsOK /\ CountersOK /\ OneScan /\ Remembered /\ RaceBeforeTicket
  BY DEF IInv
<1>3. /\ worker \in [Workers -> Hand] /\ worker[w] \in Hand /\ Holds(worker[w])
      /\ worker[w].todo \in SUBSET Queuers
  <2>1. worker[w] \in Hand /\ Holds(worker[w]) /\ worker \in [Workers -> Hand]
    BY <1>2 DEF HandsOK
  <2> QED
    BY <2>1, HandShape
<1>4. /\ worker[w].room \in 1..formed /\ worker[w].room \in DOMAIN lobby
      /\ p \in lobby[worker[w].room].who /\ worker[w].todo \subseteq lobby[worker[w].room].who
      /\ formed \in Nat
  BY <1>1, <1>2, <1>3 DEF Holds, RowsOK
<1>5. PICK r \in Hand :
        r = IF worker[w].todo \ {p} = {} THEN Resting
            ELSE [worker[w] EXCEPT !.todo = worker[w].todo \ {p}]
  <2>1. worker[w].todo \ {p} \in SUBSET Queuers
    BY <1>3
  <2>2. [worker[w] EXCEPT !.todo = worker[w].todo \ {p}] \in Hand
    BY <1>3, <2>1, HandShape
  <2> QED
    BY <2>2, RestShape
<1>6. /\ r.todo = worker[w].todo \ {p}
      /\ \/ r.at = "rest"
         \/ r.at = "tickets" /\ r.room = worker[w].room
  <2>1. CASE worker[w].todo \ {p} = {}
    BY <2>1, <1>5, RestShape
  <2>2. CASE worker[w].todo \ {p} # {}
    <3>1. worker[w].todo \ {p} \in SUBSET Queuers
      BY <1>3
    <3>2. PICK S \in SUBSET Queuers : S = worker[w].todo \ {p}
      BY <3>1
    <3>3. r = [worker[w] EXCEPT !.todo = S]
      BY <2>2, <1>5, <3>2
    <3>4. r.at = worker[w].at /\ r.todo = S /\ r.room = worker[w].room
      BY <3>3, <1>3, HandShape
    <3> QED
      BY <3>2, <3>4, <1>1
  <2> QED
    BY <2>1, <2>2
<1>7. r.at = "rest" => r.todo = {}
  <2>1. CASE worker[w].todo \ {p} = {}
    BY <2>1, <1>6
  <2>2. CASE worker[w].todo \ {p} # {}
    <3>1. PICK S \in SUBSET Queuers : S = worker[w].todo \ {p}
      BY <1>3
    <3>2. r = [worker[w] EXCEPT !.todo = S]
      BY <2>2, <1>5, <3>1
    <3>3. r.at = "tickets"
      BY <3>2, <1>1, <1>3, HandShape
    <3> QED
      BY <3>3
  <2> QED
    BY <2>1, <2>2
<1>8. worker' = [worker EXCEPT ![w] = r]
  BY <1>1, <1>3, <1>5
<1>9. worker'[w] = r /\ \A v \in Workers : v # w => worker'[v] = worker[v]
  BY <1>3, <1>8
<1>10. QueueOK' /\ Who(queue)' = Who(queue)
  BY <1>1, <1>2, SameQueue
<1>11. RowsOK'
  BY <1>1, <1>2, SameRows
<1>12. HandsOK'
  <2>1. Holds(r)
    BY <1>4, <1>6, <1>7 DEF Holds
  <2>2. ~(r.at \in {"zrem", "create"})
    BY <1>6
  <2> QED
    BY <1>1, <1>2, <1>8, <2>1, <2>2, HandChanges
<1>13. /\ seats \in [Queuers -> Nat] /\ seats' \in [Queuers -> Nat] /\ seats'[p] = seats[p] + 1
       /\ \A x \in Queuers : x # p => seats'[x] = seats[x]
  BY <1>1, <1>2 DEF CountersOK, Counters
<1>14. /\ ticket \in [Queuers -> Nat] /\ ticket' \in [Queuers -> Nat]
       /\ ticket'[p] = worker[w].room /\ worker[w].room # 0
       /\ \A x \in Queuers : x # p => ticket'[x] = ticket[x]
  <2>1. worker[w].room \in Nat /\ worker[w].room # 0 /\ ticket \in [Queuers -> Nat]
    BY <1>2, <1>4 DEF CountersOK, Counters
  <2> QED
    BY <2>1, <1>1
<1>15. CountersOK'
  BY <1>1, <1>2, <1>13, <1>14 DEF CountersOK, Counters
<1>16. /\ p \notin worker'[w].todo /\ worker'[w].todo \subseteq worker[w].todo
       /\ \A v \in Workers : worker'[v].todo \subseteq worker[v].todo
  BY <1>6, <1>9
<1>17. enqueues \in [Queuers -> Nat]
  BY <1>2 DEF CountersOK, Counters
<1>18. OneScan'
  <2>1. CASE overran
    BY <2>1, <1>1 DEF OneScan
  <2>2. CASE Alone /\ SeatsDue
    <3>1. \A v \in Workers : Active(v)' => Active(v)
      BY <1>1, <1>9 DEF Active
    <3>2. Alone'
      BY <2>2, <3>1, <1>1 DEF Alone
    <3>3. \A v \in Workers : v # w => worker'[v].todo = {}
      <4> SUFFICES ASSUME NEW v \in Workers, v # w PROVE worker'[v].todo = {}
        OBVIOUS
      <4>1. ~Active(v)
        BY <1>1, <2>2 DEF Alone, Active
      <4>2. Holds(worker[v])
        BY <1>2 DEF HandsOK
      <4> QED
        BY <4>1, <4>2, <1>9 DEF Active, Holds
    <3>4. \A v \in Workers : p \notin worker'[v].todo
      BY <3>3, <1>16
    <3>5. seats[p] + 1 <= enqueues[p] /\ (p \in Who(queue) => seats[p] + 2 <= enqueues[p])
      BY <1>1, <2>2 DEF SeatsDue
    <3>6. Who(queue) \subseteq Queuers /\ \A v \in Workers : worker'[v].todo \subseteq Queuers
      <4>1. queue \in Seq(Entry)
        BY <1>2 DEF QueueOK
      <4>2. \A i \in DOMAIN queue : queue[i] \in Entry
        BY <4>1
      <4>3. \A v \in Workers : worker[v] \in Hand
        BY <1>3
      <4>4. \A v \in Workers : worker[v].todo \in SUBSET Queuers
        BY <4>3, HandShape
      <4> QED
        BY <4>2, <4>4, <1>16 DEF Entry, Who
    <3>7. \A x \in Queuers : seats'[x] <= enqueues[x]
      <4> SUFFICES ASSUME NEW x \in Queuers PROVE seats'[x] <= enqueues[x]
        OBVIOUS
      <4>1. CASE x = p
        BY <4>1, <3>5, <1>13, <1>17
      <4>2. CASE x # p
        BY <4>2, <1>13, <2>2 DEF SeatsDue
      <4> QED
        BY <4>1, <4>2
    <3>8. \A x \in Who(queue) : seats'[x] + 1 <= enqueues[x]
      <4> SUFFICES ASSUME NEW x \in Who(queue) PROVE seats'[x] + 1 <= enqueues[x]
        OBVIOUS
      <4>1. CASE x = p
        BY <4>1, <3>5, <1>13, <1>17
      <4>2. CASE x # p
        BY <4>2, <3>6, <1>13, <2>2 DEF SeatsDue
      <4> QED
        BY <4>1, <4>2
    <3>9. \A v \in Workers : \A x \in worker'[v].todo :
            seats'[x] = seats[x] /\ x \in worker[v].todo
      BY <3>4, <3>6, <1>13, <1>16
    <3>10. \A v \in Workers : \A x \in worker'[v].todo : seats'[x] + 1 <= enqueues[x]
      BY <3>9, <2>2 DEF SeatsDue
    <3>11. \A v \in Workers : worker'[v].at \in {"create", "tickets"} =>
             worker[v].at \in {"create", "tickets"}
      BY <1>1, <1>9
    <3>12. \A v \in Workers : worker'[v].at \in {"create", "tickets"} =>
             \A x \in worker'[v].todo : x \in Who(queue) => seats'[x] + 2 <= enqueues[x]
      BY <3>9, <3>11, <2>2 DEF SeatsDue
    <3>13. SeatsDue'
      BY <3>7, <3>8, <3>10, <3>12, <1>1, <1>10 DEF SeatsDue
    <3> QED
      BY <3>2, <3>13 DEF OneScan
  <2> QED
    BY <2>1, <2>2, <1>2 DEF OneScan
<1>19. Remembered'
  <2> SUFFICES ASSUME NEW x \in owed'
               PROVE  \/ x \in Who(queue)' \/ ticket'[x] # 0 \/ polled'[x] # 0
                      \/ \E v \in Workers : x \in worker'[v].todo
    BY DEF Remembered
  <2>1. \/ x \in Who(queue) \/ ticket[x] # 0 \/ polled[x] # 0
        \/ \E v \in Workers : x \in worker[v].todo
    BY <1>1, <1>2 DEF Remembered
  <2>2. x \in Queuers
    BY <1>1, <1>2 DEF CountersOK
  <2>3. CASE x = p
    BY <2>3, <1>14
  <2>4. CASE x # p
    <3>1. \A v \in Workers : x \in worker[v].todo => x \in worker'[v].todo
      BY <2>4, <1>6, <1>9
    <3>2. ticket'[x] = ticket[x]
      BY <2>2, <2>4, <1>14
    <3> QED
      BY <2>1, <3>1, <3>2, <1>1, <1>10
  <2> QED
    BY <2>3, <2>4
<1>20. RaceBeforeTicket'
  BY <1>1, <1>2, <1>4, <1>14 DEF RaceBeforeTicket
<1> QED
  BY <1>10, <1>11, <1>12, <1>15, <1>18, <1>19, <1>20 DEF IInv

LEMMA FailStep ==
  ASSUME IInv, NEW w \in Workers, Fail(w) PROVE IInv'
<1>1. /\ owed' = owed \ (worker[w].todo \ (IF worker[w].at = "zrem" THEN Queued ELSE {}))
      /\ worker' = [worker EXCEPT ![w] = Resting]
      /\ queue' = queue /\ locked' = locked /\ formed' = formed /\ lobby' = lobby
      /\ ticket' = ticket /\ polled' = polled /\ seats' = seats /\ enqueues' = enqueues
      /\ overran' = overran
  BY DEF Fail, queueVars, ticketVars
<1>2. QueueOK /\ RowsOK /\ HandsOK /\ CountersOK /\ OneScan /\ Remembered /\ RaceBeforeTicket
  BY DEF IInv
<1>3. worker \in [Workers -> Hand]
  BY <1>2 DEF HandsOK
<1>4. /\ worker'[w] = Resting /\ Resting.at = "rest" /\ Resting.todo = {} /\ Resting \in Hand
      /\ \A v \in Workers : v # w => worker'[v] = worker[v]
  BY <1>1, <1>3, RestShape
<1>5. QueueOK' /\ Who(queue)' = Who(queue) /\ Queued = Who(queue)
  <2>1. Queued = Who(queue)
    BY DEF Queued, Who
  <2> QED
    BY <2>1, <1>1, <1>2, SameQueue
<1>6. RowsOK'
  BY <1>1, <1>2, SameRows
<1>7. HandsOK'
  <2>1. Holds(Resting)
    BY <1>4 DEF Holds
  <2>2. ~(Resting.at \in {"zrem", "create"})
    BY <1>4
  <2> QED
    BY <1>1, <1>2, <1>4, <2>1, <2>2, HandChanges
<1>8. CountersOK'
  BY <1>1, <1>2 DEF CountersOK, Counters
<1>9. OneScan'
  <2>1. Alone => Alone'
    <3>1. \A v \in Workers : Active(v)' => Active(v)
      BY <1>4 DEF Active
    <3> QED
      BY <3>1, <1>1 DEF Alone
  <2>2. SeatsDue => SeatsDue'
    <3>1. \A v \in Workers : worker'[v].at \in {"create", "tickets"} => worker'[v] = worker[v]
      BY <1>4
    <3>2. \A v \in Workers : worker'[v].todo \subseteq worker[v].todo
      BY <1>4
    <3> QED
      BY <3>1, <3>2, <1>1, <1>5 DEF SeatsDue
  <2> QED
    BY <1>1, <1>2, <2>1, <2>2 DEF OneScan
<1>10. Remembered'
  <2> SUFFICES ASSUME NEW x \in owed'
               PROVE  \/ x \in Who(queue)' \/ ticket'[x] # 0 \/ polled'[x] # 0
                      \/ \E v \in Workers : x \in worker'[v].todo
    BY DEF Remembered
  <2>1. /\ x \in owed
        /\ x \in worker[w].todo => x \in Who(queue)
    BY <1>1, <1>5
  <2>2. \/ x \in Who(queue) \/ ticket[x] # 0 \/ polled[x] # 0
        \/ \E v \in Workers : x \in worker[v].todo
    BY <1>2, <2>1 DEF Remembered
  <2> QED
    BY <2>1, <2>2, <1>1, <1>4, <1>5
<1>11. RaceBeforeTicket'
  BY <1>1, <1>2 DEF RaceBeforeTicket
<1> QED
  BY <1>5, <1>6, <1>7, <1>8, <1>9, <1>10, <1>11 DEF IInv

LEMMA StepIInv == IInv /\ [NextMatchmaking]_matchVars => IInv'
<1> SUFFICES ASSUME IInv, [NextMatchmaking]_matchVars PROVE IInv'
  OBVIOUS
<1>1. CASE \E p \in Queuers : Enqueue(p)
  BY <1>1, EnqueueStep
<1>2. CASE \E p \in Queuers : Dequeue(p)
  BY <1>2, DequeueStep
<1>3. CASE \E p \in Queuers : PollRead(p) \/ PollDelete(p) \/ TicketExpires(p)
  BY <1>3, TicketStep
<1>4. CASE Wait
  BY <1>4, WaitStep
<1>5. CASE LockExpires
  BY <1>5, LockExpiresStep
<1>6. CASE \E w \in Workers : TryLock(w)
  BY <1>6, TryLockStep
<1>7. CASE \E w \in Workers : Scan(w)
  BY <1>7, ScanStep
<1>8. CASE \E w \in Workers : Take(w)
  BY <1>8, TakeStep
<1>9. CASE \E w \in Workers : CreateRace(w)
  BY <1>9, CreateRaceStep
<1>10. CASE \E w \in Workers, p \in Queuers : IssueTicket(w, p)
  BY <1>10, IssueTicketStep
<1>11. CASE \E w \in Workers : Fail(w)
  BY <1>11, FailStep
<1>12. CASE UNCHANGED matchVars
  <2>1. /\ queue' = queue /\ locked' = locked /\ formed' = formed /\ lobby' = lobby
        /\ worker' = worker /\ ticket' = ticket /\ polled' = polled /\ seats' = seats
        /\ enqueues' = enqueues /\ owed' = owed /\ overran' = overran
    BY <1>12 DEF matchVars, queueVars, ticketVars, ghostVars
  <2>2. QueueOK /\ RowsOK /\ HandsOK /\ CountersOK /\ OneScan /\ Remembered /\ RaceBeforeTicket
    BY DEF IInv
  <2>3. QueueOK' /\ Who(queue)' = Who(queue)
    BY <2>1, <2>2, SameQueue
  <2>4. RowsOK' /\ HandsOK'
    BY <2>1, <2>2, SameRows, SameHands
  <2>5. CountersOK' /\ RaceBeforeTicket'
    BY <2>1, <2>2 DEF CountersOK, Counters, RaceBeforeTicket
  <2>6. Remembered'
    BY <2>1, <2>2, <2>3 DEF Remembered
  <2>7. (Alone => Alone') /\ (SeatsDue => SeatsDue')
    BY <2>1, <2>3 DEF Alone, Active, SeatsDue
  <2> QED
    BY <2>1, <2>2, <2>3, <2>4, <2>5, <2>6, <2>7 DEF IInv, OneScan
<1>13. NextMatchmaking =>
         \/ \E p \in Queuers : Enqueue(p)
         \/ \E p \in Queuers : Dequeue(p)
         \/ \E p \in Queuers : PollRead(p) \/ PollDelete(p) \/ TicketExpires(p)
         \/ Wait \/ LockExpires
         \/ \E w \in Workers : TryLock(w)
         \/ \E w \in Workers : Scan(w)
         \/ \E w \in Workers : Take(w)
         \/ \E w \in Workers : CreateRace(w)
         \/ \E w \in Workers, p \in Queuers : IssueTicket(w, p)
         \/ \E w \in Workers : Fail(w)
  BY DEF NextMatchmaking, Work
<1> QED
  BY <1>1, <1>2, <1>3, <1>4, <1>5, <1>6, <1>7, <1>8, <1>9, <1>10, <1>11, <1>12, <1>13

-----------------------------------------------------------------------------
(* The theorems.                                                           *)

\* The inductive invariant holds in every state of the queue, its workers and tickets.
THEOREM MatchmakingInvariant == SpecMatchmaking => []IInv
<1> QED
  BY InitIInv, StepIInv, PTL DEF SpecMatchmaking

\* What matchmaking promises to every number of players, with any number of replicas,
\* lobbies of any size, and scans that fail or outlive their lock: a player is queued
\* once and is forgotten by none, a ticket is for a race that exists and has him in
\* it, and he gets as many as he has queued times while no scan outlives its lock.
THEOREM PlayersAreSeated == SpecMatchmaking => []MatchmakingInv
<1>1. IInv => MatchmakingInv
  <2> SUFFICES ASSUME IInv PROVE MatchmakingInv
    OBVIOUS
  <2>1. QueueOK /\ RowsOK /\ HandsOK /\ CountersOK /\ OneScan /\ Remembered /\ RaceBeforeTicket
    BY DEF IInv
  <2>2. Queued = Who(queue)
    BY DEF Queued, Who
  <2>3. queue \in Seq(Entry) /\ DOMAIN queue = 1..Len(queue)
    BY <2>1 DEF QueueOK
  <2>4. \A i \in DOMAIN queue : queue[i] \in Entry
    BY <2>3
  <2>5. Queued \subseteq Queuers
    BY <2>4 DEF Queued, Entry
  <2>6. \A w \in Workers : worker[w] \in Hand
    BY <2>1 DEF HandsOK
  <2>7. \A w \in Workers :
          worker[w].at \in {"rest", "stopped", "read", "zrem", "create", "tickets"}
    BY <2>6, HandShape
  <2>8. MatchmakingTypeOK
    <3>1. \A i, j \in DOMAIN queue : queue[i].who = queue[j].who => i = j
      BY <2>1, <2>3 DEF QueueOK, OncePerPlayer
    <3>2. \A i, j \in DOMAIN queue : i < j /\ queue[j].waited => queue[i].waited
      BY <2>1, <2>3 DEF QueueOK, OldestFirst
    <3> QED
      BY <3>1, <3>2, <2>1, <2>5, <2>7 DEF MatchmakingTypeOK, CountersOK, RowsOK
  <2>9. SeatsEarned
    BY <2>1 DEF SeatsEarned, OneScan, SeatsDue
  <2>10. NobodyForgotten
    BY <2>1, <2>2 DEF NobodyForgotten, Remembered
  <2> QED
    BY <2>1, <2>8, <2>9, <2>10 DEF MatchmakingInv
<1> QED
  BY <1>1, MatchmakingInvariant, PTL

-----------------------------------------------------------------------------
(* The inductive invariant of RaceRoom.                                    *)

Names == Drivers \cup Range(Bots)
Car == [who : Names, slot : Nat, ready : BOOLEAN, finish : Nat]
Line == [who : Names, position : Nat, finish : Nat, drift : Nat]
PhaseNames == {"none", "WAITING", "COUNTDOWN", "RACING", "FINISHED", "disposed"}
Instance == [phase : PhaseNames, racers : Seq(Car), clock : Nat, first : Nat, report : Seq(Line)]

\* Nobody has crossed the line after the race's clock; the report, which a race has when
\* it is finished, gives places of the grid, each one once.
GridOK(o) ==
  /\ o \in Instance
  /\ Len(o.racers) <= MaxRacers /\ OncePerPlayer(o.racers)
  /\ o.phase = "none" => o.racers = <<>>
  /\ o.phase \in {"none", "WAITING"} => \A i \in 1..Len(o.racers) : o.racers[i].who \in Drivers
  /\ \A i \in 1..Len(o.racers) : o.racers[i].finish <= o.clock
ReportOK(o) ==
  /\ o.phase # "FINISHED" => o.report = <<>>
  /\ \A k \in 1..Len(o.report) :
       o.report[k].position \in 1..MaxRacers /\ o.report[k].finish <= o.clock
  /\ \A k, l \in 1..Len(o.report) : o.report[k].position = o.report[l].position => k = l

\* As long as nobody leaves the lobby, slots are given in the order of joining, and
\* somebody on the grid is not ready.
SlotsDiffer(cars) == \A i, j \in 1..Len(cars) : cars[i].slot = cars[j].slot => i = j
InOrder(cars) == \A i \in 1..Len(cars) : cars[i].slot = i - 1
Orderly(o) ==
  /\ SlotsDiffer(o.racers)
  /\ o.phase = "WAITING" =>
       /\ InOrder(o.racers)
       /\ o.racers # <<>> => \E i \in 1..Len(o.racers) : o.racers[i].ready = FALSE

OnTheGrid(r) == \A i \in 1..Len(room[r].racers) :
  room[r].racers[i].who \in Drivers => place[room[r].racers[i].who] = r

PlacesOK ==
  /\ seat \in [Drivers -> Rooms \cup {Away}] /\ place \in [Drivers -> Rooms \cup {Away}]
  /\ \A d \in Drivers : seat[d] # Away => place[d] = Away

RoomIInv ==
  /\ PlacesOK
  /\ room \in [Rooms -> Instance]
  /\ \A r \in Rooms : GridOK(room[r]) /\ ReportOK(room[r]) /\ OnTheGrid(r)
  /\ \A r \in Rooms \ quitters : Orderly(room[r])


-----------------------------------------------------------------------------
(* Shapes of cars and rooms.                                               *)

LEMMA Settings ==
  /\ MaxRacers \in Nat /\ MaxPlaces \in Nat /\ 1 <= MaxRacers /\ MaxRacers <= MaxPlaces
  /\ MaxRaceTime \in Nat /\ Late \in Nat /\ WinnerLate \in Nat /\ MinRace \in Nat
  /\ Away \notin Rooms /\ \A x : ~(x \in Drivers /\ x \in Range(Bots))
  /\ Len(Bots) \in Nat /\ DOMAIN Bots = 1..Len(Bots)
  /\ \A i \in 1..Len(Bots) : Bots[i] \in Range(Bots)
  /\ \A i, j \in 1..Len(Bots) : Bots[i] = Bots[j] => i = j
<1>1. Bots \in Seq(STRING)
  BY RaceRoomAssumption
<1>2. Len(Bots) \in Nat /\ DOMAIN Bots = 1..Len(Bots)
  BY <1>1
<1>3. MaxPlaces \in Nat /\ Late \in Nat /\ WinnerLate \in Nat /\ MinRace \in Nat
  BY VerifierAssumption
<1>4. MaxRacers \in Nat /\ 1 <= MaxRacers /\ MaxRacers <= MaxPlaces /\ MaxRaceTime \in Nat
  BY <1>3, RaceRoomAssumption
<1>5. Away \notin Rooms /\ \A x : ~(x \in Drivers /\ x \in Range(Bots))
  BY RaceRoomAssumption DEF Away
<1>6. \A i, j \in 1..Len(Bots) : Bots[i] = Bots[j] => i = j
  BY <1>2, RaceRoomAssumption
<1>7. \A i \in 1..Len(Bots) : Bots[i] \in Range(Bots)
  BY <1>2 DEF Range
<1> QED
  BY <1>2, <1>3, <1>4, <1>5, <1>6, <1>7

LEMMA CarShape ==
  ASSUME NEW c \in Car
  PROVE  /\ c.who \in Names /\ c.slot \in Nat /\ c.ready \in BOOLEAN /\ c.finish \in Nat
         /\ \A b \in BOOLEAN :
              /\ [c EXCEPT !.ready = b] \in Car
              /\ [c EXCEPT !.ready = b].who = c.who /\ [c EXCEPT !.ready = b].slot = c.slot
              /\ [c EXCEPT !.ready = b].ready = b /\ [c EXCEPT !.ready = b].finish = c.finish
         /\ \A n \in Nat :
              /\ [c EXCEPT !.finish = n] \in Car
              /\ [c EXCEPT !.finish = n].who = c.who /\ [c EXCEPT !.finish = n].slot = c.slot
              /\ [c EXCEPT !.finish = n].ready = c.ready /\ [c EXCEPT !.finish = n].finish = n
<1>1. PICK w \in Names, s \in Nat, b \in BOOLEAN, n \in Nat :
        c = [who |-> w, slot |-> s, ready |-> b, finish |-> n]
  <2>1. c = [who |-> c.who, slot |-> c.slot, ready |-> c.ready, finish |-> c.finish]
    BY DEF Car
  <2>2. c.who \in Names /\ c.slot \in Nat /\ c.ready \in BOOLEAN /\ c.finish \in Nat
    BY DEF Car
  <2> QED
    BY <2>1, <2>2
<1>2. c.who = w /\ c.slot = s /\ c.ready = b /\ c.finish = n
  BY <1>1
<1>3. \A x : [c EXCEPT !.ready = x] = [who |-> w, slot |-> s, ready |-> x, finish |-> n]
  BY <1>1
<1>4. \A x : [c EXCEPT !.finish = x] = [who |-> w, slot |-> s, ready |-> b, finish |-> x]
  BY <1>1
<1>5. \A x \in BOOLEAN : [who |-> w, slot |-> s, ready |-> x, finish |-> n] \in Car
  BY DEF Car
<1>6. \A x \in Nat : [who |-> w, slot |-> s, ready |-> b, finish |-> x] \in Car
  BY DEF Car
<1>7. \A x \in BOOLEAN :
        /\ [c EXCEPT !.ready = x] \in Car
        /\ [c EXCEPT !.ready = x].who = c.who /\ [c EXCEPT !.ready = x].slot = c.slot
        /\ [c EXCEPT !.ready = x].ready = x /\ [c EXCEPT !.ready = x].finish = c.finish
  BY <1>2, <1>3, <1>5
<1>8. \A x \in Nat :
        /\ [c EXCEPT !.finish = x] \in Car
        /\ [c EXCEPT !.finish = x].who = c.who /\ [c EXCEPT !.finish = x].slot = c.slot
        /\ [c EXCEPT !.finish = x].ready = c.ready /\ [c EXCEPT !.finish = x].finish = x
  BY <1>2, <1>4, <1>6
<1>9. c.who \in Names /\ c.slot \in Nat /\ c.ready \in BOOLEAN /\ c.finish \in Nat
  BY <1>2
<1> QED
  BY <1>7, <1>8, <1>9

\* A racer who joins, or a bot.
LEMMA RacerShape ==
  ASSUME NEW w \in Names, NEW s \in Nat
  PROVE  /\ Racer(w, s, FALSE) \in Car /\ Racer(w, s, FALSE).who = w
         /\ Racer(w, s, FALSE).slot = s /\ Racer(w, s, FALSE).ready = FALSE
         /\ Racer(w, s, FALSE).finish = 0
         /\ Racer(w, s, TRUE) \in Car /\ Racer(w, s, TRUE).who = w
         /\ Racer(w, s, TRUE).slot = s /\ Racer(w, s, TRUE).ready = TRUE
         /\ Racer(w, s, TRUE).finish = 0
BY DEF Racer, Car

\* A room from its fields.
LEMMA Made ==
  ASSUME NEW p \in PhaseNames, NEW c \in Seq(Car), NEW t \in Nat, NEW f \in Nat,
         NEW e \in Seq(Line), NEW o,
         o = [phase |-> p, racers |-> c, clock |-> t, first |-> f, report |-> e]
  PROVE  /\ o \in Instance /\ o.phase = p /\ o.racers = c /\ o.clock = t /\ o.first = f
         /\ o.report = e
BY DEF Instance

LEMMA InstanceShape ==
  ASSUME NEW o \in Instance
  PROVE  /\ o.phase \in PhaseNames /\ o.racers \in Seq(Car) /\ o.clock \in Nat /\ o.first \in Nat
         /\ o.report \in Seq(Line) /\ DOMAIN o.racers = 1..Len(o.racers) /\ Len(o.racers) \in Nat
<1>1. /\ o.phase \in PhaseNames /\ o.racers \in Seq(Car) /\ o.clock \in Nat /\ o.first \in Nat
      /\ o.report \in Seq(Line)
  BY DEF Instance
<1>2. PICK c \in Seq(Car) : c = o.racers
  BY <1>1
<1>3. DOMAIN c = 1..Len(c) /\ Len(c) \in Nat
  BY <1>2
<1> QED
  BY <1>1, <1>2, <1>3

LEMMA InstanceUpdates ==
  ASSUME NEW o \in Instance
  PROVE  /\ \A p : [o EXCEPT !.phase = p] =
              [phase |-> p, racers |-> o.racers, clock |-> o.clock, first |-> o.first,
               report |-> o.report]
         /\ \A c : [o EXCEPT !.racers = c] =
              [phase |-> o.phase, racers |-> c, clock |-> o.clock, first |-> o.first,
               report |-> o.report]
         /\ \A p, c : [o EXCEPT !.phase = p, !.racers = c] =
              [phase |-> p, racers |-> c, clock |-> o.clock, first |-> o.first,
               report |-> o.report]
         /\ \A p, e : [o EXCEPT !.phase = p, !.report = e] =
              [phase |-> p, racers |-> o.racers, clock |-> o.clock, first |-> o.first,
               report |-> e]
         /\ \A t, c, f : [o EXCEPT !.clock = t, !.racers = c, !.first = f] =
              [phase |-> o.phase, racers |-> c, clock |-> t, first |-> f, report |-> o.report]
<1>1. PICK x \in PhaseNames, y \in Seq(Car), z \in Nat, u \in Nat, v \in Seq(Line) :
        o = [phase |-> x, racers |-> y, clock |-> z, first |-> u, report |-> v]
  <2>1. o = [phase |-> o.phase, racers |-> o.racers, clock |-> o.clock, first |-> o.first,
             report |-> o.report]
    BY DEF Instance
  <2>2. /\ o.phase \in PhaseNames /\ o.racers \in Seq(Car) /\ o.clock \in Nat /\ o.first \in Nat
        /\ o.report \in Seq(Line)
    BY DEF Instance
  <2> QED
    BY <2>1, <2>2
<1>2. o.phase = x /\ o.racers = y /\ o.clock = z /\ o.first = u /\ o.report = v
  BY <1>1
<1>3. \A p : [o EXCEPT !.phase = p] =
        [phase |-> p, racers |-> y, clock |-> z, first |-> u, report |-> v]
  BY <1>1
<1>4. \A c : [o EXCEPT !.racers = c] =
        [phase |-> x, racers |-> c, clock |-> z, first |-> u, report |-> v]
  BY <1>1
<1>5. \A p, c : [o EXCEPT !.phase = p, !.racers = c] =
        [phase |-> p, racers |-> c, clock |-> z, first |-> u, report |-> v]
  <2> SUFFICES ASSUME NEW p, NEW c
               PROVE  [o EXCEPT !.phase = p, !.racers = c] = 
                        [phase |-> p, racers |-> c, clock |-> z, first |-> u, report |-> v]
    OBVIOUS
  <2>1. PICK q : q = [o EXCEPT !.phase = p]
    OBVIOUS
  <2>2. q = [phase |-> p, racers |-> y, clock |-> z, first |-> u, report |-> v]
    BY <1>1, <2>1
  <2>3. [q EXCEPT !.racers = c] = [phase |-> p, racers |-> c, clock |-> z, first |-> u, report |-> v]
    BY <2>2
  <2>4. [o EXCEPT !.phase = p, !.racers = c] = [q EXCEPT !.racers = c]
    BY <1>1, <2>1
  <2> QED
    BY <2>3, <2>4
<1>6. \A p, e : [o EXCEPT !.phase = p, !.report = e] =
        [phase |-> p, racers |-> y, clock |-> z, first |-> u, report |-> e]
  <2> SUFFICES ASSUME NEW p, NEW e
               PROVE  [o EXCEPT !.phase = p, !.report = e] = 
                        [phase |-> p, racers |-> y, clock |-> z, first |-> u, report |-> e]
    OBVIOUS
  <2>1. PICK q : q = [o EXCEPT !.phase = p]
    OBVIOUS
  <2>2. q = [phase |-> p, racers |-> y, clock |-> z, first |-> u, report |-> v]
    BY <1>1, <2>1
  <2>3. [q EXCEPT !.report = e] = [phase |-> p, racers |-> y, clock |-> z, first |-> u, report |-> e]
    BY <2>2
  <2>4. [o EXCEPT !.phase = p, !.report = e] = [q EXCEPT !.report = e]
    BY <1>1, <2>1
  <2> QED
    BY <2>3, <2>4
<1>7. \A t, c, f : [o EXCEPT !.clock = t, !.racers = c, !.first = f] =
        [phase |-> x, racers |-> c, clock |-> t, first |-> f, report |-> v]
  <2> SUFFICES ASSUME NEW t, NEW c, NEW f
               PROVE  [o EXCEPT !.clock = t, !.racers = c, !.first = f] = 
                        [phase |-> x, racers |-> c, clock |-> t, first |-> f, report |-> v]
    OBVIOUS
  <2>1. PICK q : q = [o EXCEPT !.clock = t]
    OBVIOUS
  <2>2. q = [phase |-> x, racers |-> y, clock |-> t, first |-> u, report |-> v]
    BY <1>1, <2>1
  <2>3. PICK r : r = [q EXCEPT !.racers = c]
    OBVIOUS
  <2>4. r = [phase |-> x, racers |-> c, clock |-> t, first |-> u, report |-> v]
    BY <2>2, <2>3
  <2>5. [r EXCEPT !.first = f] = [phase |-> x, racers |-> c, clock |-> t, first |-> f, report |-> v]
    BY <2>4
  <2>6. [o EXCEPT !.clock = t, !.racers = c, !.first = f] = [r EXCEPT !.first = f]
    BY <1>1, <2>1, <2>3
  <2> QED
    BY <2>5, <2>6
<1>8. \A p : [o EXCEPT !.phase = p] =
        [phase |-> p, racers |-> o.racers, clock |-> o.clock, first |-> o.first,
         report |-> o.report]
  BY <1>2, <1>3
<1>9. \A c : [o EXCEPT !.racers = c] =
        [phase |-> o.phase, racers |-> c, clock |-> o.clock, first |-> o.first,
         report |-> o.report]
  BY <1>2, <1>4
<1>10. \A p, c : [o EXCEPT !.phase = p, !.racers = c] =
        [phase |-> p, racers |-> c, clock |-> o.clock, first |-> o.first,
         report |-> o.report]
  BY <1>2, <1>5
<1>11. \A p, e : [o EXCEPT !.phase = p, !.report = e] =
        [phase |-> p, racers |-> o.racers, clock |-> o.clock, first |-> o.first,
         report |-> e]
  BY <1>2, <1>6
<1>12. \A t, c, f : [o EXCEPT !.clock = t, !.racers = c, !.first = f] =
        [phase |-> o.phase, racers |-> c, clock |-> t, first |-> f,
         report |-> o.report]
  <2> SUFFICES ASSUME NEW t, NEW c, NEW f
               PROVE  [o EXCEPT !.clock = t, !.racers = c, !.first = f] =
                        [phase |-> o.phase, racers |-> c, clock |-> t, first |-> f,
                         report |-> o.report]
    OBVIOUS
  <2>1. [o EXCEPT !.clock = t, !.racers = c, !.first = f] =
          [phase |-> x, racers |-> c, clock |-> t, first |-> f, report |-> v]
    BY <1>7
  <2> QED
    BY <1>2, <2>1
<1> QED
  BY <1>8, <1>9, <1>10, <1>11, <1>12

\* A list of cars, place by place.
LEMMA CarsAgain ==
  ASSUME NEW c \in Seq(Car), NEW b, DOMAIN b = DOMAIN c, b = [i \in DOMAIN b |-> b[i]],
         \A i \in DOMAIN c : b[i] \in Car
  PROVE  b \in Seq(Car) /\ Len(b) = Len(c)
<1>1. DOMAIN c = 1..Len(c) /\ Len(c) \in Nat
  OBVIOUS
<1>2. b \in [1..Len(c) -> Car]
  BY <1>1
<1> QED
  BY <1>1, <1>2

Gone == [Fresh EXCEPT !.phase = "disposed"]

LEMMA FreshShape ==
  /\ Fresh \in Instance /\ Fresh.phase = "none" /\ Fresh.racers = <<>> /\ Fresh.report = <<>>
  /\ Gone \in Instance /\ Gone.phase = "disposed" /\ Gone.racers = <<>> /\ Gone.report = <<>>
<1>1. <<>> \in Seq(Car) /\ <<>> \in Seq(Line)
  OBVIOUS
<1>2. Fresh = [phase |-> "none", racers |-> <<>>, clock |-> 0, first |-> 0, report |-> <<>>]
  BY DEF Fresh
<1>3. Gone = [phase |-> "disposed", racers |-> <<>>, clock |-> 0, first |-> 0, report |-> <<>>]
  BY DEF Fresh, Gone
<1>4. "none" \in PhaseNames /\ "disposed" \in PhaseNames
  BY DEF PhaseNames
<1>5. Fresh \in Instance /\ Fresh.phase = "none" /\ Fresh.racers = <<>> /\ Fresh.report = <<>>
  BY <1>1, <1>2, <1>4 DEF Instance
<1>6. Gone \in Instance /\ Gone.phase = "disposed" /\ Gone.racers = <<>> /\ Gone.report = <<>>
  BY <1>1, <1>3, <1>4 DEF Instance
<1> QED
  BY <1>5, <1>6

LEMMA EmptyIsOK ==
  ASSUME NEW o \in Instance, o.racers = <<>>, o.report = <<>>
  PROVE  GridOK(o) /\ ReportOK(o) /\ Orderly(o)
<1>1. Len(o.racers) = 0 /\ Len(o.report) = 0
  OBVIOUS
<1> QED
  BY <1>1, Settings DEF GridOK, ReportOK, Orderly, OncePerPlayer, SlotsDiffer, InOrder

-----------------------------------------------------------------------------
(* Steps of one room.                                                      *)

\* The phases are in their order, and no car is added after the lobby.
Forward(o, n) ==
  /\ \E i, j \in DOMAIN Phases : i <= j /\ Phases[i] = o.phase /\ Phases[j] = n.phase
  /\ o.phase \notin {"none", "WAITING"} =>
       \A i \in DOMAIN n.racers : In(o.racers, n.racers[i].who)

\* What ReportIsFair says of a room that is finished.
Fair(cars, entries) ==
  /\ Len(entries) = Cardinality({i \in DOMAIN cars : cars[i].who \in Drivers})
  /\ \A i \in DOMAIN entries : \E j \in DOMAIN cars :
       /\ cars[j].who = entries[i].who
       /\ LET ahead == {k \in DOMAIN cars :
                cars[k].finish > 0 /\ (cars[j].finish = 0 \/ cars[k].finish < cars[j].finish)}
          IN Cardinality(ahead) < entries[i].position
       /\ cars[j].finish > 0 => entries[i].position <=
            Cardinality({k \in DOMAIN cars : cars[k].finish > 0 /\ cars[k].finish <= cars[j].finish})

\* A room before and after a handler.
Follows(o, n) ==
  Forward(o, n) /\ (n.phase = "FINISHED" /\ o.phase = "RACING" => Fair(n.racers, n.report))

LEMMA PhaseOrder ==
  /\ DOMAIN Phases = 1..6
  /\ \A p \in PhaseNames : \E i \in DOMAIN Phases : i <= 6 /\ Phases[i] = p
  /\ \A p \in PhaseNames : \E i, j \in DOMAIN Phases : i <= j /\ Phases[i] = p /\ Phases[j] = p
  /\ \A p \in PhaseNames :
       \E i, j \in DOMAIN Phases : i <= j /\ Phases[i] = p /\ Phases[j] = "disposed"
  /\ \E i, j \in DOMAIN Phases : i <= j /\ Phases[i] = "none" /\ Phases[j] = "WAITING"
  /\ \E i, j \in DOMAIN Phases : i <= j /\ Phases[i] = "WAITING" /\ Phases[j] = "COUNTDOWN"
  /\ \E i, j \in DOMAIN Phases : i <= j /\ Phases[i] = "COUNTDOWN" /\ Phases[j] = "RACING"
  /\ \E i, j \in DOMAIN Phases : i <= j /\ Phases[i] = "RACING" /\ Phases[j] = "FINISHED"
<1>1. /\ DOMAIN Phases = 1..6
      /\ Phases[1] = "none" /\ Phases[2] = "WAITING" /\ Phases[3] = "COUNTDOWN"
      /\ Phases[4] = "RACING" /\ Phases[5] = "FINISHED" /\ Phases[6] = "disposed"
  BY DEF Phases
<1>2. \A p \in PhaseNames : \E i \in DOMAIN Phases : i <= 6 /\ Phases[i] = p
  BY <1>1 DEF PhaseNames
<1>3. \A p \in PhaseNames : \E i, j \in DOMAIN Phases : i <= j /\ Phases[i] = p /\ Phases[j] = p
  BY <1>1, <1>2
<1>4. \A p \in PhaseNames :
        \E i, j \in DOMAIN Phases : i <= j /\ Phases[i] = p /\ Phases[j] = "disposed"
  BY <1>1, <1>2
<1>5. /\ \E i, j \in DOMAIN Phases : i <= j /\ Phases[i] = "none" /\ Phases[j] = "WAITING"
      /\ \E i, j \in DOMAIN Phases : i <= j /\ Phases[i] = "WAITING" /\ Phases[j] = "COUNTDOWN"
  BY <1>1
<1>6. /\ \E i, j \in DOMAIN Phases : i <= j /\ Phases[i] = "COUNTDOWN" /\ Phases[j] = "RACING"
      /\ \E i, j \in DOMAIN Phases : i <= j /\ Phases[i] = "RACING" /\ Phases[j] = "FINISHED"
  BY <1>1
<1> QED
  BY <1>1, <1>2, <1>3, <1>4, <1>5, <1>6

\* A room that stays in its phase and keeps to its cars.
LEMMA StaysForward ==
  ASSUME NEW o \in Instance, NEW n \in Instance, n.phase = o.phase,
         \/ o.phase \in {"none", "WAITING"}
         \/ \A i \in DOMAIN n.racers : \E j \in DOMAIN o.racers : n.racers[i].who = o.racers[j].who
  PROVE  Follows(o, n)
<1>1. o.phase \in PhaseNames
  BY InstanceShape
<1>2. Forward(o, n)
  BY <1>1, PhaseOrder DEF Forward, In
<1> QED
  BY <1>2 DEF Follows

LEMMA GoneFollows == \A o \in Instance : Follows(o, Gone)
<1> SUFFICES ASSUME NEW o \in Instance PROVE Follows(o, Gone)
  OBVIOUS
<1>1. o.phase \in PhaseNames
  BY InstanceShape
<1>2. DOMAIN Gone.racers = {}
  BY FreshShape
<1>3. Forward(o, Gone)
  BY <1>1, <1>2, FreshShape, PhaseOrder DEF Forward
<1> QED
  BY <1>3, FreshShape DEF Follows


-----------------------------------------------------------------------------
(* The end of a race.                                                      *)

\* s puts every one of the n cars at one place, who has finished in the order of time.
Ranks(s, c, n) ==
  /\ s \in [1..n -> 1..n] /\ DOMAIN s = 1..n
  /\ \A i, j \in 1..n : s[i] = s[j] => i = j
  /\ \A k \in 1..n : \E i \in 1..n : s[i] = k
  /\ \A i, j \in 1..n : i < j /\ c[s[j]].finish > 0 =>
       c[s[i]].finish > 0 /\ c[s[i]].finish <= c[s[j]].finish

LEMMA RankingShape ==
  ASSUME NEW n \in Nat, NEW c, DOMAIN c = 1..n, NEW s \in Standings(c)
  PROVE  Ranks(s, c, n)
<1>1. IsFiniteSet(1..n) /\ Cardinality(1..n) = n
  BY FS_Interval
<1>2. s \in SetToSeqs(1..n)
  BY DEF Standings
<1>3. s \in [1..n -> 1..n] /\ \A i, j \in 1..n : i # j => s[i] # s[j]
  BY <1>1, <1>2 DEF SetToSeqs
<1>4. s \in Injection(1..n, 1..n)
  BY <1>3 DEF Injection, IsInjective
<1>5. s \in Surjection(1..n, 1..n)
  BY <1>1, <1>4, FS_Injection
<1>6. \A k \in 1..n : \E i \in 1..n : s[i] = k
  BY <1>5 DEF Surjection
<1>7. \A i, j \in DOMAIN s : i < j =>
        (c[s[j]].finish > 0 => c[s[i]].finish > 0 /\ c[s[i]].finish <= c[s[j]].finish)
  BY DEF Standings
<1> QED
  BY <1>3, <1>6, <1>7 DEF Ranks

\* The entry at k is for the human at the place h[k], who has it among all.
EntriesOf(e, c, s, n, h) ==
  /\ h \in [1..Len(e) -> 1..n]
  /\ \A k \in 1..Len(e) :
       /\ e[k].who = c[s[h[k]]].who /\ e[k].who \in Drivers
       /\ e[k].position = h[k] /\ e[k].finish = c[s[h[k]]].finish
  /\ \A k, l \in 1..Len(e) : h[k] = h[l] => k = l
  /\ \A i \in 1..n : c[s[i]].who \in Drivers => \E k \in 1..Len(e) : h[k] = i

LEMMA BareShape ==
  ASSUME NEW c \in Seq(Car), NEW s \in Standings(c), NEW e,
         e = Entries([i \in DOMAIN s |-> c[s[i]]])
  PROVE  e \in Seq(Line) /\ \E h : EntriesOf(e, c, s, Len(c), h)
<1>1. PICK n \in Nat : n = Len(c) /\ DOMAIN c = 1..n
  OBVIOUS
<1>2. s \in [1..n -> 1..n] /\ DOMAIN s = 1..n
  BY <1>1, RankingShape DEF Ranks
<1> DEFINE order == [i \in DOMAIN s |-> c[s[i]]]
           all == [i \in DOMAIN order |->
                     [who |-> order[i].who, position |-> Position(order, i),
                      finish |-> order[i].finish, drift |-> 0]]
<1>3. DOMAIN order = 1..n /\ \A i \in 1..n : order[i] = c[s[i]] /\ order[i] \in Car
  BY <1>1, <1>2
<1>4. DOMAIN all = 1..n /\ all = [i \in DOMAIN all |-> all[i]]
  BY <1>3
<1>5. \A i \in 1..n : all[i] = [who |-> order[i].who, position |-> i,
                                  finish |-> order[i].finish, drift |-> 0]
  BY <1>3 DEF Position
<1>6. Entries(order) = Without(all, Range(Bots))
  BY DEF Entries
<1> HIDE DEF order, all
<1>7. \A i \in 1..n : /\ all[i].who = c[s[i]].who /\ all[i].position = i
                      /\ all[i].finish = c[s[i]].finish /\ all[i] \in Line
  <2> SUFFICES ASSUME NEW i \in 1..n
               PROVE  /\ all[i].who = c[s[i]].who /\ all[i].position = i
                      /\ all[i].finish = c[s[i]].finish /\ all[i] \in Line
    OBVIOUS
  <2>1. c[s[i]] \in Car /\ order[i] = c[s[i]]
    BY <1>3
  <2>2. PICK w \in Names, f \in Nat : w = c[s[i]].who /\ f = c[s[i]].finish
    BY <2>1, CarShape
  <2>3. all[i] = [who |-> w, position |-> i, finish |-> f, drift |-> 0]
    BY <1>5, <2>1, <2>2
  <2>4. i \in Nat
    BY <1>1
  <2>5. all[i] \in Line
    BY <2>2, <2>3, <2>4 DEF Line
  <2> QED
    BY <2>2, <2>3, <2>5
<1>8. \A i \in 1..n : all[i] \in Line
  BY <1>7
<1>9. all \in Seq(Line) /\ Len(all) = n
  <2>1. all \in [1..n -> Line]
    BY <1>4, <1>8
  <2> QED
    BY <2>1
<1>10. e = Entries(order)
  BY DEF order
<1>11. e \in Seq(Line) /\ \E h : Keeps(e, all, Range(Bots), n, h)
  BY <1>6, <1>9, <1>10, WithoutKeeps
<1>12. PICK h : Keeps(e, all, Range(Bots), n, h)
  BY <1>11
<1>13. h \in [1..Len(e) -> 1..n] /\ Len(e) \in Nat
  BY <1>11, <1>12 DEF Keeps
<1>14. \A k \in 1..Len(e) : h[k] \in 1..n /\ e[k] = all[h[k]] /\ all[h[k]].who \notin Range(Bots)
  BY <1>12 DEF Keeps
<1>15. \A i \in 1..n : c[s[i]].who \in Names
  BY <1>3, CarShape
<1>16. \A k \in 1..Len(e) : /\ e[k].who = c[s[h[k]]].who /\ e[k].who \in Drivers
                            /\ e[k].position = h[k] /\ e[k].finish = c[s[h[k]]].finish
  <2> SUFFICES ASSUME NEW k \in 1..Len(e)
               PROVE  /\ e[k].who = c[s[h[k]]].who /\ e[k].who \in Drivers
                      /\ e[k].position = h[k] /\ e[k].finish = c[s[h[k]]].finish
    OBVIOUS
  <2>1. PICK i \in 1..n : i = h[k] /\ e[k] = all[i] /\ all[i].who \notin Range(Bots)
    BY <1>14
  <2>2. c[s[i]].who \in Drivers
    BY <1>7, <1>15, <2>1 DEF Names
  <2> QED
    BY <1>7, <2>1, <2>2
<1>17. \A k, l \in 1..Len(e) : h[k] = h[l] => k = l
  <2> SUFFICES ASSUME NEW k \in 1..Len(e), NEW l \in 1..Len(e), h[k] = h[l] PROVE k = l
    OBVIOUS
  <2>1. \A i, j \in 1..Len(e) : i < j => h[i] < h[j]
    BY <1>12 DEF Keeps
  <2>2. ~(k < l) /\ ~(l < k)
    BY <2>1, <1>13
  <2> QED
    BY <2>2
<1>18. \A i \in 1..n : c[s[i]].who \in Drivers => \E k \in 1..Len(e) : h[k] = i
  <2> SUFFICES ASSUME NEW i \in 1..n, c[s[i]].who \in Drivers PROVE \E k \in 1..Len(e) : h[k] = i
    OBVIOUS
  <2>1. all[i].who \notin Range(Bots)
    BY <1>7, Settings
  <2> QED
    BY <2>1, <1>12 DEF Keeps
<1> QED
  BY <1>1, <1>11, <1>13, <1>16, <1>17, <1>18 DEF EntriesOf

\* Points change nothing else of an entry.
LEMMA ScoredShape ==
  ASSUME NEW b \in Seq(Line), \A k \in 1..Len(b) : b[k].who \in Drivers, NEW e \in Scored(b)
  PROVE  /\ e \in Seq(Line) /\ Len(e) = Len(b)
         /\ \A k \in 1..Len(b) : /\ e[k].who = b[k].who /\ e[k].position = b[k].position
                                /\ e[k].finish = b[k].finish
<1>1. PICK n \in Nat : n = Len(b) /\ DOMAIN b = 1..n
  OBVIOUS
<1>2. PICK points \in [Drivers -> UNION Range(Scores)] :
        /\ \A d \in Drivers : points[d] \in Scores[d]
        /\ e = [i \in DOMAIN b |-> [b[i] EXCEPT !.drift = points[b[i].who]]]
  BY DEF Scored
<1>3. \A d \in Drivers : points[d] \in Nat
  BY <1>2, RaceRoomAssumption
<1>4. ASSUME NEW k \in 1..n
      PROVE  /\ e[k] \in Line /\ e[k].who = b[k].who /\ e[k].position = b[k].position
             /\ e[k].finish = b[k].finish
  <2>1. b[k] \in Line /\ points[b[k].who] \in Nat
    BY <1>1, <1>3
  <2>2. e[k] = [b[k] EXCEPT !.drift = points[b[k].who]]
    BY <1>1, <1>2
  <2> QED
    BY <2>1, <2>2 DEF Line
<1>5. e \in [1..n -> Line]
  <2>1. DOMAIN e = 1..n /\ e = [i \in 1..n |-> e[i]]
    BY <1>1, <1>2
  <2> QED
    BY <1>4, <2>1
<1> QED
  BY <1>1, <1>4, <1>5

LEMMA EntriesShape ==
  ASSUME NEW c \in Seq(Car), NEW s \in Standings(c), NEW e,
         e \in Scored(Entries([i \in DOMAIN s |-> c[s[i]]]))
  PROVE  e \in Seq(Line) /\ \E h : EntriesOf(e, c, s, Len(c), h)
<1>1. PICK b : b = Entries([i \in DOMAIN s |-> c[s[i]]])
  OBVIOUS
<1>2. b \in Seq(Line) /\ \E h : EntriesOf(b, c, s, Len(c), h)
  BY <1>1, BareShape
<1>3. PICK h : EntriesOf(b, c, s, Len(c), h)
  BY <1>2
<1>4. /\ e \in Seq(Line) /\ Len(e) = Len(b)
      /\ \A k \in 1..Len(b) : /\ e[k].who = b[k].who /\ e[k].position = b[k].position
                             /\ e[k].finish = b[k].finish
  <2>1. \A k \in 1..Len(b) : b[k].who \in Drivers
    BY <1>3 DEF EntriesOf
  <2> QED
    BY <1>1, <1>2, <2>1, ScoredShape
<1>5. EntriesOf(e, c, s, Len(c), h)
  BY <1>3, <1>4 DEF EntriesOf
<1> QED
  BY <1>4, <1>5

\* A ranking's entries are fair.
LEMMA EntriesFair ==
  ASSUME NEW c \in Seq(Car), NEW s \in Standings(c), NEW e,
         e \in Scored(Entries([i \in DOMAIN s |-> c[s[i]]]))
  PROVE  Fair(c, e)
<1>1. PICK n \in Nat : n = Len(c) /\ DOMAIN c = 1..n
  OBVIOUS
<1>2. /\ s \in [1..n -> 1..n]
      /\ \A i, j \in 1..n : s[i] = s[j] => i = j
      /\ \A k \in 1..n : \E i \in 1..n : s[i] = k
      /\ \A i, j \in 1..n : i < j /\ c[s[j]].finish > 0 =>
           c[s[i]].finish > 0 /\ c[s[i]].finish <= c[s[j]].finish
  <2>1. Ranks(s, c, n)
    BY <1>1, RankingShape
  <2> QED
    BY <2>1 DEF Ranks
<1>3. e \in Seq(Line)
  BY EntriesShape
<1>4. PICK h : /\ h \in [1..Len(e) -> 1..n]
               /\ \A k \in 1..Len(e) :
                    /\ e[k].who = c[s[h[k]]].who /\ e[k].who \in Drivers
                    /\ e[k].position = h[k] /\ e[k].finish = c[s[h[k]]].finish
               /\ \A k, l \in 1..Len(e) : h[k] = h[l] => k = l
               /\ \A i \in 1..n : c[s[i]].who \in Drivers => \E k \in 1..Len(e) : h[k] = i
  <2>1. PICK h : EntriesOf(e, c, s, n, h)
    BY <1>1, EntriesShape
  <2> QED
    BY <2>1 DEF EntriesOf
<1>5. DOMAIN e = 1..Len(e) /\ Len(e) \in Nat
  BY <1>3
<1>6. \A i \in 1..n : c[i].finish \in Nat
  BY <1>1, CarShape
<1>7. \A k \in 1..Len(e) : h[k] \in 1..n /\ s[h[k]] \in 1..n
  BY <1>2, <1>4
<1>8. Len(e) = Cardinality({i \in DOMAIN c : c[i].who \in Drivers})
  <2> DEFINE H == {i \in DOMAIN c : c[i].who \in Drivers}
             f == [k \in 1..Len(e) |-> s[h[k]]]
  <2>1. \A k \in 1..Len(e) : f[k] \in H
    BY <1>1, <1>4, <1>7
  <2>2. \A k, l \in 1..Len(e) : f[k] = f[l] => k = l
    BY <1>2, <1>4, <1>7
  <2>3. \A i \in H : \E k \in 1..Len(e) : f[k] = i
    <3> SUFFICES ASSUME NEW i \in 1..n, c[i].who \in Drivers PROVE \E k \in 1..Len(e) : f[k] = i
      BY <1>1
    <3>1. PICK j \in 1..n : s[j] = i
      BY <1>2
    <3>2. PICK k \in 1..Len(e) : h[k] = j
      BY <1>4, <3>1
    <3> QED
      BY <3>1, <3>2
  <2>4. f \in [1..Len(e) -> H]
    BY <2>1
  <2> HIDE DEF f, H
  <2>5. f \in Bijection(1..Len(e), H)
    BY <2>2, <2>3, <2>4 DEF Bijection, Injection, Surjection, IsInjective
  <2>6. Cardinality(H) = Len(e)
    BY <1>5, <2>5, FS_CountingElements DEF ExistsBijection
  <2> QED
    BY <2>6 DEF H
<1>9. ASSUME NEW k \in 1..Len(e)
      PROVE  LET j == s[h[k]] IN
             /\ j \in DOMAIN c /\ c[j].who = e[k].who
             /\ Cardinality({m \in DOMAIN c :
                  c[m].finish > 0 /\ (c[j].finish = 0 \/ c[m].finish < c[j].finish)})
                  < e[k].position
             /\ c[j].finish > 0 => e[k].position <=
                  Cardinality({m \in DOMAIN c : c[m].finish > 0 /\ c[m].finish <= c[j].finish})
  <2>1. PICK p \in 1..n : p = h[k] /\ e[k].position = p
    BY <1>4, <1>7
  <2>2. PICK j \in 1..n : j = s[p] /\ c[j].who = e[k].who
    <3>1. s[p] \in 1..n /\ c[s[p]].who = e[k].who
      BY <1>4, <1>7, <2>1
    <3> QED
      BY <3>1
  <2>3. ASSUME NEW t \in 0..n
        PROVE  /\ IsFiniteSet({s[q] : q \in 1..t})
               /\ Cardinality({s[q] : q \in 1..t}) = t
    <3> DEFINE T == {s[q] : q \in 1..t}
               g == [q \in 1..t |-> s[q]]
    <3>1. t \in Nat /\ \A q \in 1..t : q \in 1..n
      OBVIOUS
    <3>2. g \in [1..t -> T] /\ \A x \in T : \E q \in 1..t : g[q] = x
      OBVIOUS
    <3>3. \A q, r \in 1..t : g[q] = g[r] => q = r
      BY <1>2, <3>1
    <3> HIDE DEF T, g
    <3>4. g \in Bijection(1..t, T)
      BY <3>2, <3>3 DEF Bijection, Injection, Surjection, IsInjective
    <3>5. ExistsBijection(1..t, T)
      BY <3>4 DEF ExistsBijection
    <3>6. Cardinality(T) = t
      BY <3>1, <3>5, FS_CountingElements
    <3>7. IsFiniteSet(T)
      BY <3>1, <3>5, FS_NatBijection
    <3> QED
      BY <3>6, <3>7 DEF T
  <2>4. Cardinality({m \in DOMAIN c :
          c[m].finish > 0 /\ (c[j].finish = 0 \/ c[m].finish < c[j].finish)}) < p
    <3> DEFINE A == {m \in DOMAIN c :
                       c[m].finish > 0 /\ (c[j].finish = 0 \/ c[m].finish < c[j].finish)}
               T == {s[q] : q \in 1..p - 1}
    <3>1. A \subseteq T
      <4> SUFFICES ASSUME NEW m \in 1..n, c[m].finish > 0,
                          c[j].finish = 0 \/ c[m].finish < c[j].finish
                   PROVE  \E q \in 1..p - 1 : s[q] = m
        BY <1>1
      <4>1. PICK q \in 1..n : s[q] = m
        BY <1>2
      <4>2. q # p
        BY <4>1, <2>2, <1>6
      <4>3. ~(p < q)
        <5> SUFFICES ASSUME p < q PROVE FALSE
          OBVIOUS
        <5>1. c[j].finish > 0 /\ c[j].finish <= c[m].finish
          BY <1>2, <2>2, <4>1
        <5>2. c[j].finish \in Nat /\ c[m].finish \in Nat
          BY <1>6
        <5> QED
          BY <5>1, <5>2
      <4>4. q \in 1..p - 1
        BY <4>2, <4>3
      <4> QED
        BY <4>1, <4>4
    <3>2. p - 1 \in 0..n
      OBVIOUS
    <3>3. IsFiniteSet(T) /\ Cardinality(T) = p - 1
      BY <2>3, <3>2
    <3> HIDE DEF A, T
    <3>4. Cardinality(A) <= p - 1 /\ Cardinality(A) \in Nat
      BY <3>1, <3>3, FS_Subset, FS_CardinalityType
    <3>5. Cardinality(A) < p
      BY <3>4
    <3> QED
      BY <3>5 DEF A
  <2>5. c[j].finish > 0 =>
          p <= Cardinality({m \in DOMAIN c : c[m].finish > 0 /\ c[m].finish <= c[j].finish})
    <3> SUFFICES ASSUME c[j].finish > 0
                 PROVE  p <= Cardinality({m \in DOMAIN c :
                               c[m].finish > 0 /\ c[m].finish <= c[j].finish})
      OBVIOUS
    <3> DEFINE B == {m \in DOMAIN c : c[m].finish > 0 /\ c[m].finish <= c[j].finish}
               T == {s[q] : q \in 1..p}
    <3>1. T \subseteq B
      <4> SUFFICES ASSUME NEW q \in 1..p
                   PROVE  s[q] \in 1..n /\ c[s[q]].finish > 0 /\ c[s[q]].finish <= c[j].finish
        BY <1>1
      <4>1. q \in 1..n /\ s[q] \in 1..n
        <5>1. q \in 1..n
          OBVIOUS
        <5> QED
          BY <1>2, <5>1
      <4>2. CASE q = p
        BY <4>1, <4>2, <2>2, <1>6
      <4>3. CASE q < p
        BY <4>1, <4>3, <1>2, <2>2
      <4> QED
        BY <4>2, <4>3
    <3>2. p \in 0..n
      OBVIOUS
    <3>3. Cardinality(T) = p
      BY <2>3, <3>2
    <3>4. IsFiniteSet(B)
      <4>1. IsFiniteSet(1..n)
        BY FS_Interval
      <4>2. B \subseteq 1..n
        BY <1>1
      <4> HIDE DEF B
      <4> QED
        BY <4>1, <4>2, FS_Subset
    <3> HIDE DEF B, T
    <3>5. p <= Cardinality(B)
      BY <3>1, <3>3, <3>4, FS_Subset
    <3> QED
      BY <3>5 DEF B
  <2> QED
    BY <1>1, <2>1, <2>2, <2>4, <2>5
<1> QED
  BY <1>5, <1>8, <1>9 DEF Fair

\* maybeFinishRace leaves the room as it is, or finishes the race with a fair report.
LEMMA MaybeFinishes ==
  ASSUME NEW o, GridOK(o), ReportOK(o), NEW n \in MaybeFinish(o)
  PROVE  /\ GridOK(n) /\ ReportOK(n) /\ n.racers = o.racers
         /\ Orderly(o) => Orderly(n)
         /\ n = o \/ (o.phase = "RACING" /\ n.phase = "FINISHED" /\ Fair(n.racers, n.report))
<1>1. CASE ~Over(o)
  BY <1>1 DEF MaybeFinish
<1>2. CASE Over(o)
  <2>1. o.phase = "RACING" /\ o \in Instance
    BY <1>2 DEF Over, GridOK
  <2>2. PICK s \in Standings(o.racers) : \E report \in Scored(Entries([i \in DOMAIN s |-> o.racers[s[i]]])) :
          n = [o EXCEPT !.phase = "FINISHED", !.report = report]
    BY <1>2 DEF MaybeFinish
  <2>3. PICK c \in Seq(Car) : c = o.racers
    BY <2>1, InstanceShape
  <2>4. PICK e \in Scored(Entries([i \in DOMAIN s |-> c[s[i]]])) :
          n = [o EXCEPT !.phase = "FINISHED", !.report = e]
    BY <2>2, <2>3
  <2>5. e \in Seq(Line) /\ Fair(c, e)
    BY <2>3, <2>4, EntriesShape, EntriesFair
  <2>6. n = [phase |-> "FINISHED", racers |-> c, clock |-> o.clock, first |-> o.first,
             report |-> e]
    <3>1. n = [o EXCEPT !.phase = "FINISHED", !.report = e]
      BY <2>4
    <3> QED
      BY <3>1, <2>1, <2>3, InstanceUpdates
  <2>7. /\ n \in Instance /\ n.phase = "FINISHED" /\ n.racers = c /\ n.clock = o.clock
        /\ n.report = e
    <3>1. o.clock \in Nat /\ o.first \in Nat /\ "FINISHED" \in PhaseNames
      BY <2>1, InstanceShape DEF PhaseNames
    <3> QED
      BY <2>3, <2>5, <2>6, <3>1, Made
  <2>8. GridOK(n)
    BY <2>3, <2>7 DEF GridOK
  <2>9. ReportOK(n)
    <3>1. PICK m \in Nat : m = Len(c) /\ DOMAIN c = 1..m
      OBVIOUS
    <3>2. PICK h : EntriesOf(e, c, s, m, h)
      BY <2>3, <2>4, <3>1, EntriesShape
    <3>3. s \in [1..m -> 1..m]
      BY <2>3, <3>1, RankingShape DEF Ranks
    <3>4. m <= MaxRacers /\ \A i \in 1..m : c[i].finish <= o.clock
      BY <2>3, <3>1 DEF GridOK
    <3>5. \A k \in 1..Len(e) : h[k] \in 1..m /\ s[h[k]] \in 1..m
      BY <3>2, <3>3 DEF EntriesOf
    <3>6. \A k \in 1..Len(e) : e[k].position = h[k] /\ e[k].finish = c[s[h[k]]].finish
      BY <3>2 DEF EntriesOf
    <3>7. \A k \in 1..Len(e) : e[k].position \in 1..MaxRacers /\ e[k].finish <= o.clock
      <4> SUFFICES ASSUME NEW k \in 1..Len(e)
                   PROVE  e[k].position \in 1..MaxRacers /\ e[k].finish <= o.clock
        OBVIOUS
      <4>1. h[k] \in 1..MaxRacers
        BY <3>4, <3>5, Settings
      <4>2. c[s[h[k]]].finish <= o.clock
        BY <3>4, <3>5
      <4> QED
        BY <4>1, <4>2, <3>6
    <3>8. \A k, l \in 1..Len(e) : e[k].position = e[l].position => k = l
      BY <3>2, <3>6 DEF EntriesOf
    <3> QED
      BY <2>7, <3>7, <3>8 DEF ReportOK
  <2>10. Orderly(o) => Orderly(n)
    BY <2>3, <2>7 DEF Orderly
  <2> QED
    BY <2>1, <2>3, <2>5, <2>7, <2>8, <2>9, <2>10
<1> QED
  BY <1>1, <1>2


-----------------------------------------------------------------------------
(* The handlers.                                                           *)

\* One room changes, and who has a seat or is a client.
LEMMA RoomChanges ==
  ASSUME RoomIInv, NEW r \in Rooms, NEW n, room' = [room EXCEPT ![r] = n],
         GridOK(n), ReportOK(n), quitters \subseteq quitters', r \notin quitters' => Orderly(n),
         PlacesOK',
         \A i \in 1..Len(n.racers) : n.racers[i].who \in Drivers => place'[n.racers[i].who] = r,
         \A q \in Rooms \ {r} : \A d \in Drivers : place[d] = q => place'[d] = q
  PROVE  RoomIInv'
<1>1. room \in [Rooms -> Instance] /\ n \in Instance
  BY DEF RoomIInv, GridOK
<1>2. /\ room' \in [Rooms -> Instance] /\ room'[r] = n
      /\ \A q \in Rooms : q # r => room'[q] = room[q]
  BY <1>1
<1>3. \A q \in Rooms : GridOK(room'[q]) /\ ReportOK(room'[q])
  BY <1>2 DEF RoomIInv
<1>4. \A q \in Rooms \ quitters' : Orderly(room'[q])
  BY <1>2 DEF RoomIInv
<1>5. ASSUME NEW q \in Rooms PROVE OnTheGrid(q)'
  <2>1. CASE q = r
    BY <2>1, <1>2 DEF OnTheGrid
  <2>2. CASE q # r
    <3>1. OnTheGrid(q)
      BY DEF RoomIInv
    <3> QED
      BY <2>2, <3>1, <1>2 DEF OnTheGrid
  <2> QED
    BY <2>1, <2>2
<1> QED
  BY <1>2, <1>3, <1>4, <1>5 DEF RoomIInv, GridOK, ReportOK, Orderly, SlotsDiffer, InOrder, OncePerPlayer

\* What a handler does to one room.
OneRoom == \E r \in Rooms : \E n :
  room' = [room EXCEPT ![r] = n] /\ Follows(room[r], n)

\* A room as it is, or gone when nobody is left.
LEMMA KeptIs ==
  ASSUME NEW r, NEW o, GridOK(o), ReportOK(o)
  PROVE  /\ Kept(r, o) = o \/ Kept(r, o) = Gone
         /\ GridOK(Gone) /\ ReportOK(Gone) /\ Orderly(Gone) /\ Len(Gone.racers) = 0
         /\ Orderly(o) => Orderly(Kept(r, o))
<1>1. Kept(r, o) = o \/ Kept(r, o) = Gone
  BY DEF Kept, Gone
<1>2. GridOK(Gone) /\ ReportOK(Gone) /\ Orderly(Gone)
  BY FreshShape, EmptyIsOK
<1>3. Len(Gone.racers) = 0
  BY FreshShape
<1> QED
  BY <1>1, <1>2, <1>3

LEMMA KeptFollows ==
  ASSUME NEW r, NEW o \in Instance, NEW n, Follows(o, n)
  PROVE  Follows(o, Kept(r, n))
<1>1. Kept(r, n) = n \/ Kept(r, n) = Gone
  BY DEF Kept, Gone
<1> QED
  BY <1>1, GoneFollows

LEMMA RoomFacts ==
  ASSUME RoomIInv, NEW r \in Rooms
  PROVE  /\ room[r] \in Instance /\ GridOK(room[r]) /\ ReportOK(room[r])
         /\ r \notin quitters => Orderly(room[r])
         /\ \A i \in 1..Len(room[r].racers) :
              room[r].racers[i].who \in Drivers => place[room[r].racers[i].who] = r
  BY DEF RoomIInv, OnTheGrid

LEMMA JoinOrCreateStep ==
  ASSUME RoomIInv, NEW d \in Drivers, NEW r \in Rooms, JoinOrCreate(d, r)
  PROVE  RoomIInv' /\ OneRoom
<1>1. /\ seat[d] = Away /\ place[d] = Away /\ seat' = [seat EXCEPT ![d] = r]
      /\ place' = place /\ quitters' = quitters
      /\ \/ room[r].phase = "WAITING" /\ room' = room
         \/ room[r].phase = "none" /\ room' = [room EXCEPT ![r].phase = "WAITING"]
  BY DEF JoinOrCreate
<1>2. PICK o \in Instance : o = room[r] /\ GridOK(o) /\ ReportOK(o)
  BY RoomFacts
<1>3. PICK n : n = IF o.phase = "none" THEN [o EXCEPT !.phase = "WAITING"] ELSE o
  OBVIOUS
<1>4. room \in [Rooms -> Instance] /\ PlacesOK
  BY DEF RoomIInv
<1>5. room' = [room EXCEPT ![r] = n]
  <2>1. CASE room[r].phase = "WAITING" /\ room' = room
    <3>1. n = room[r]
      BY <2>1, <1>2, <1>3
    <3> QED
      BY <2>1, <3>1, <1>4
  <2>2. CASE room[r].phase = "none" /\ room' = [room EXCEPT ![r].phase = "WAITING"]
    <3>1. n = [room[r] EXCEPT !.phase = "WAITING"]
      BY <2>2, <1>2, <1>3
    <3> QED
      BY <2>2, <3>1, <1>4
  <2> QED
    BY <1>1, <2>1, <2>2
<1>6. /\ n \in Instance /\ n.racers = o.racers /\ n.report = o.report /\ n.clock = o.clock
      /\ n.phase = "WAITING" /\ (o.phase = "none" => n.racers = <<>>)
      /\ o.phase \in {"none", "WAITING"}
  <2>1. CASE o.phase = "none"
    <3>1. n = [phase |-> "WAITING", racers |-> o.racers, clock |-> o.clock, first |-> o.first,
               report |-> o.report]
      BY <2>1, <1>3, InstanceUpdates
    <3>2. "WAITING" \in PhaseNames
      BY DEF PhaseNames
    <3>3. /\ n \in Instance /\ n.racers = o.racers /\ n.report = o.report /\ n.clock = o.clock
          /\ n.phase = "WAITING"
      <4>1. /\ o.racers \in Seq(Car) /\ o.clock \in Nat /\ o.first \in Nat
            /\ o.report \in Seq(Line)
        BY InstanceShape
      <4> QED
        BY <3>1, <3>2, <4>1, Made
    <3>4. o.racers = <<>>
      BY <2>1, <1>2 DEF GridOK
    <3> QED
      BY <2>1, <3>3, <3>4
  <2>2. CASE o.phase # "none"
    BY <2>2, <1>1, <1>2, <1>3
  <2> QED
    BY <2>1, <2>2
<1>7. GridOK(n)
  BY <1>2, <1>6 DEF GridOK
<1>8. ReportOK(n)
  BY <1>2, <1>6 DEF ReportOK
<1>9. r \notin quitters' => Orderly(n)
  <2>1. CASE o.phase = "none"
    <3>1. o.report = <<>>
      BY <2>1, <1>2 DEF ReportOK
    <3> QED
      BY <2>1, <3>1, <1>6, EmptyIsOK
  <2>2. CASE o.phase # "none"
    <3>1. n = o
      BY <2>2, <1>3
    <3> QED
      BY <3>1, <1>1, <1>2, RoomFacts
  <2> QED
    BY <2>1, <2>2
<1>10. PlacesOK'
  BY <1>1, <1>4 DEF PlacesOK
<1>11. RoomIInv'
  <2>1. \A i \in 1..Len(n.racers) : n.racers[i].who \in Drivers => place'[n.racers[i].who] = r
    BY <1>1, <1>2, <1>6, RoomFacts
  <2>2. quitters \subseteq quitters' /\ \A q \in Rooms \ {r} : \A x \in Drivers : place[x] = q => place'[x] = q
    BY <1>1
  <2> QED
    BY <2>1, <2>2, <1>5, <1>7, <1>8, <1>9, <1>10, RoomChanges
<1>12. Follows(o, n)
  <2>1. CASE o.phase = "WAITING"
    BY <2>1, <1>6, StaysForward
  <2>2. CASE o.phase = "none"
    <3>1. Forward(o, n)
      BY <2>2, <1>6, PhaseOrder DEF Forward
    <3> QED
      BY <2>2, <3>1 DEF Follows
  <2> QED
    BY <2>1, <2>2, <1>6
<1> QED
  BY <1>2, <1>5, <1>11, <1>12 DEF OneRoom

LEMMA Appended ==
  ASSUME NEW S, NEW c \in Seq(S), NEW a \in S, NEW b, b = Append(c, a)
  PROVE  /\ b \in Seq(S) /\ Len(b) = Len(c) + 1 /\ b[Len(c) + 1] = a /\ Len(c) \in Nat
         /\ \A i \in 1..Len(c) : b[i] = c[i]
         /\ \A i \in 1..Len(b) : i = Len(c) + 1 \/ i \in 1..Len(c)
         /\ Len(c) + 1 \in 1..Len(b)
<1>1. b \in Seq(S) /\ Len(b) = Len(c) + 1 /\ Len(c) \in Nat
  OBVIOUS
<1>2. b[Len(c) + 1] = a /\ \A i \in 1..Len(c) : b[i] = c[i]
  OBVIOUS
<1>3. Len(c) + 1 \in 1..Len(b) /\ \A i \in 1..Len(b) : i = Len(c) + 1 \/ i \in 1..Len(c)
  <2>1. PICK m \in Nat : m = Len(c) /\ Len(b) = m + 1
    BY <1>1
  <2>2. m + 1 \in 1..m + 1 /\ \A i \in 1..m + 1 : i = m + 1 \/ i \in 1..m
    OBVIOUS
  <2> QED
    BY <2>1, <2>2
<1> QED
  BY <1>1, <1>2, <1>3

\* A room with other cars.
WithCars(o, b) == [o EXCEPT !.racers = b]

LEMMA CarsChanged ==
  ASSUME NEW o \in Instance, NEW b \in Seq(Car)
  PROVE  /\ WithCars(o, b) \in Instance /\ WithCars(o, b).phase = o.phase
         /\ WithCars(o, b).racers = b /\ WithCars(o, b).clock = o.clock
         /\ WithCars(o, b).first = o.first /\ WithCars(o, b).report = o.report
<1>1. PICK x : x = WithCars(o, b)
  OBVIOUS
<1>2. x = [phase |-> o.phase, racers |-> b, clock |-> o.clock, first |-> o.first,
           report |-> o.report]
  BY <1>1, InstanceUpdates DEF WithCars
<1>3. /\ o.phase \in PhaseNames /\ o.clock \in Nat /\ o.first \in Nat
      /\ o.report \in Seq(Line)
  BY InstanceShape
<1>4. /\ x \in Instance /\ x.phase = o.phase /\ x.racers = b /\ x.clock = o.clock
      /\ x.first = o.first /\ x.report = o.report
  BY <1>2, <1>3, Made
<1> QED
  BY <1>1, <1>4

\* A room in another phase.
InPhase(o, p) == [o EXCEPT !.phase = p]

LEMMA PhaseChanged ==
  ASSUME NEW o \in Instance, NEW p \in PhaseNames
  PROVE  /\ InPhase(o, p) \in Instance /\ InPhase(o, p).phase = p
         /\ InPhase(o, p).racers = o.racers /\ InPhase(o, p).clock = o.clock
         /\ InPhase(o, p).first = o.first /\ InPhase(o, p).report = o.report
<1>1. PICK x : x = InPhase(o, p)
  OBVIOUS
<1>2. x = [phase |-> p, racers |-> o.racers, clock |-> o.clock, first |-> o.first,
           report |-> o.report]
  BY <1>1, InstanceUpdates DEF InPhase
<1>3. /\ o.racers \in Seq(Car) /\ o.clock \in Nat /\ o.first \in Nat
      /\ o.report \in Seq(Line)
  BY InstanceShape
<1>4. /\ x \in Instance /\ x.phase = p /\ x.racers = o.racers /\ x.clock = o.clock
      /\ x.first = o.first /\ x.report = o.report
  BY <1>2, <1>3, Made
<1> QED
  BY <1>1, <1>4

\* The car d joins with.
Unready(a, d, s) == a.who = d /\ a.slot = s /\ a.finish = 0 /\ a.ready = FALSE

Joined(o, a) == WithCars(o, Append(o.racers, a))

\* A car takes the next slot of the lobby.
LEMMA CarJoins ==
  ASSUME NEW o \in Instance, GridOK(o), ReportOK(o), o.phase = "WAITING",
         Len(o.racers) < MaxRacers, NEW d \in Drivers,
         \A i \in 1..Len(o.racers) : o.racers[i].who # d,
         NEW a \in Car, Unready(a, d, Len(o.racers)),
         NEW x, x = Joined(o, a)
  PROVE  /\ GridOK(x) /\ ReportOK(x) /\ Follows(o, x) /\ (Orderly(o) => Orderly(x))
         /\ \A i \in 1..Len(x.racers) :
              x.racers[i].who = d \/ \E j \in 1..Len(o.racers) : x.racers[i].who = o.racers[j].who
<1>1. o.racers \in Seq(Car)
  BY InstanceShape
<1>0. PICK b : b = Append(o.racers, a) /\ x = WithCars(o, b)
  BY DEF Joined
<1>2. /\ b \in Seq(Car) /\ Len(b) = Len(o.racers) + 1 /\ b[Len(o.racers) + 1] = a
      /\ Len(o.racers) \in Nat /\ \A i \in 1..Len(o.racers) : b[i] = o.racers[i]
      /\ \A i \in 1..Len(b) : i = Len(o.racers) + 1 \/ i \in 1..Len(o.racers)
      /\ Len(o.racers) + 1 \in 1..Len(b)
  BY <1>0, <1>1, Appended
<1>3. PICK m, c : m \in Nat /\ m = Len(o.racers) /\ c = o.racers
  BY <1>2
<1>4. /\ Len(b) = m + 1 /\ m + 1 \in 1..Len(b) /\ m \in Nat
      /\ \A i \in 1..m : b[i] = c[i]
      /\ \A i \in 1..Len(b) : i = m + 1 \/ i \in 1..m
      /\ b[m + 1].who = d /\ b[m + 1].slot = m /\ b[m + 1].finish = 0
  BY <1>2, <1>3 DEF Unready
<1>5. /\ x \in Instance /\ x.phase = "WAITING" /\ x.racers = b /\ x.clock = o.clock
      /\ x.report = o.report
  <2>1. b \in Seq(Car)
    BY <1>2
  <2>2. /\ x \in Instance /\ x.phase = o.phase /\ x.racers = b /\ x.clock = o.clock
        /\ x.report = o.report
    <3>1. x = WithCars(o, b)
      BY <1>0
    <3> QED
      BY <2>1, <3>1, CarsChanged
  <2> QED
    BY <2>2
<1>6. o.clock \in Nat
  BY InstanceShape
<1>7. \A i \in 1..m : c[i].who \in Drivers /\ c[i].finish <= o.clock /\ c[i].who # d
  BY <1>3 DEF GridOK
<1>8. OncePerPlayer(b)
  <2>1. \A i, j \in 1..m : c[i].who = c[j].who => i = j
    BY <1>3 DEF GridOK, OncePerPlayer
  <2> QED
    BY <2>1, <1>4, <1>7 DEF OncePerPlayer
<1>9. GridOK(x)
  <2>1. \A i \in 1..Len(b) : b[i].who \in Drivers
    BY <1>4, <1>7
  <2>2. \A i \in 1..Len(b) : b[i].finish <= o.clock
    BY <1>4, <1>6, <1>7
  <2>3. Len(b) <= MaxRacers
    BY <1>3, <1>4, Settings
  <2> QED
    BY <2>1, <2>2, <2>3, <1>5, <1>8 DEF GridOK
<1>10. ReportOK(x)
  BY <1>5 DEF ReportOK
<1>11. Orderly(o) => Orderly(x)
  <2> SUFFICES ASSUME Orderly(o) PROVE Orderly(x)
    OBVIOUS
  <2>1. \A i \in 1..m : c[i].slot = i - 1
    BY <1>3 DEF Orderly, InOrder
  <2>2. b[m + 1].slot = (m + 1) - 1
    BY <1>4
  <2>3. \A i \in 1..Len(b) : b[i].slot = i - 1
    <3> SUFFICES ASSUME NEW i \in 1..Len(b) PROVE b[i].slot = i - 1
      OBVIOUS
    <3>1. CASE i = m + 1
      BY <3>1, <2>2, <1>4
    <3>2. CASE i \in 1..m
      BY <3>2, <2>1, <1>4
    <3> QED
      BY <3>1, <3>2, <1>4
  <2>4. \A i, j \in 1..Len(b) : b[i].slot = b[j].slot => i = j
    BY <2>3, <1>4
  <2>5. \E i \in 1..Len(b) : b[i].ready = FALSE
    BY <1>2 DEF Unready
  <2> QED
    BY <2>3, <2>4, <2>5, <1>5 DEF Orderly, InOrder, SlotsDiffer
<1>12. Follows(o, x)
  BY <1>5, StaysForward
<1>13. \A i \in 1..Len(b) : b[i].who = d \/ \E j \in 1..m : b[i].who = c[j].who
  BY <1>4
<1> QED
  BY <1>3, <1>5, <1>9, <1>10, <1>11, <1>12, <1>13

LEMMA OnJoinStep ==
  ASSUME RoomIInv, NEW d \in Drivers, OnJoin(d)
  PROVE  RoomIInv' /\ OneRoom
<1>1. PICK r \in Rooms : r = seat[d] /\ r # Away
  BY DEF OnJoin, RoomIInv, PlacesOK
<1>2. /\ seat' = [seat EXCEPT ![d] = Away] /\ place' = [place EXCEPT ![d] = r]
      /\ room' = IF OnGrid(r)
                 THEN [room EXCEPT ![r].racers = Append(@, Racer(d, Len(@), FALSE))]
                 ELSE room
      /\ quitters' = quitters
  BY <1>1 DEF OnJoin
<1>3. PICK o \in Instance : o = room[r] /\ GridOK(o) /\ ReportOK(o)
  BY RoomFacts
<1>4. room \in [Rooms -> Instance] /\ PlacesOK
  BY DEF RoomIInv
<1>5. place[d] = Away /\ place \in [Drivers -> Rooms \cup {Away}]
      /\ seat \in [Drivers -> Rooms \cup {Away}]
  BY <1>1, <1>4 DEF PlacesOK
<1>6. place'[d] = r /\ \A x \in Drivers : x # d => place'[x] = place[x]
  BY <1>2, <1>5
<1>7. \A i \in 1..Len(o.racers) : o.racers[i].who # d
  BY <1>1, <1>3, <1>5, RoomFacts
<1>8. PlacesOK'
  BY <1>1, <1>2, <1>4 DEF PlacesOK
<1>9. PICK n : n = IF OnGrid(r) THEN [o EXCEPT !.racers = Append(@, Racer(d, Len(@), FALSE))] ELSE o
  OBVIOUS
<1>10. room' = [room EXCEPT ![r] = n]
  BY <1>2, <1>3, <1>4, <1>9
<1>11. /\ GridOK(n) /\ ReportOK(n) /\ Follows(o, n) /\ (Orderly(o) => Orderly(n))
       /\ \A i \in 1..Len(n.racers) :
            n.racers[i].who = d \/ \E j \in 1..Len(o.racers) : n.racers[i].who = o.racers[j].who
  <2>1. CASE OnGrid(r)
    <3>1. o.phase = "WAITING" /\ Len(o.racers) < MaxRacers
      BY <2>1, <1>3 DEF OnGrid
    <3>2. n = [o EXCEPT !.racers = Append(@, Racer(d, Len(@), FALSE))]
      BY <2>1, <1>9
    <3>3. Len(o.racers) \in Nat /\ d \in Names
      BY InstanceShape DEF Names
    <3>4. PICK a \in Car : /\ a = Racer(d, Len(o.racers), FALSE)
                           /\ a.who = d /\ a.slot = Len(o.racers) /\ a.finish = 0
                           /\ a.ready = FALSE
      BY <3>3, RacerShape
    <3>6. n = Joined(o, a)
      BY <3>2, <3>4 DEF Joined, WithCars
    <3>7. a \in Car /\ Unready(a, d, Len(o.racers))
      BY <3>4 DEF Unready
    <3>8. /\ o \in Instance /\ GridOK(o) /\ ReportOK(o)
          /\ \A i \in 1..Len(o.racers) : o.racers[i].who # d
      BY <1>3, <1>7
    <3>9. /\ GridOK(n) /\ ReportOK(n) /\ Follows(o, n) /\ (Orderly(o) => Orderly(n))
          /\ \A i \in 1..Len(n.racers) :
               n.racers[i].who = d \/ \E j \in 1..Len(o.racers) : n.racers[i].who = o.racers[j].who
      BY <3>1, <3>6, <3>7, <3>8, CarJoins
    <3> QED
      BY <3>9
  <2>2. CASE ~OnGrid(r)
    <3>1. n = o
      BY <2>2, <1>9
    <3>2. DOMAIN o.racers = 1..Len(o.racers)
      BY InstanceShape
    <3>3. Follows(o, o)
      BY StaysForward
    <3> QED
      BY <3>1, <3>3, <1>3
  <2> QED
    BY <2>1, <2>2
<1>12. \A i \in 1..Len(n.racers) : n.racers[i].who \in Drivers => place'[n.racers[i].who] = r
  <2>1. \A j \in 1..Len(o.racers) : o.racers[j].who \in Drivers => place[o.racers[j].who] = r
    BY <1>3, RoomFacts
  <2> QED
    BY <2>1, <1>6, <1>7, <1>11
<1>13. r \notin quitters' => Orderly(n)
  BY <1>2, <1>3, <1>11, RoomFacts
<1>14. \A q \in Rooms \ {r} : \A x \in Drivers : place[x] = q => place'[x] = q
  BY <1>5, <1>6, Settings
<1>15. RoomIInv'
  BY <1>2, <1>8, <1>10, <1>11, <1>12, <1>13, <1>14, RoomChanges
<1> QED
  BY <1>3, <1>10, <1>11, <1>15 DEF OneRoom

LEMMA SeatExpiresStep ==
  ASSUME RoomIInv, NEW d \in Drivers, SeatExpires(d)
  PROVE  RoomIInv' /\ OneRoom
<1>1. PICK r \in Rooms : r = seat[d] /\ r # Away
  BY DEF SeatExpires, RoomIInv, PlacesOK
<1>2. /\ seat' = [seat EXCEPT ![d] = Away] /\ place' = place
      /\ room' = [room EXCEPT ![r] = Kept(r, @)] /\ quitters' = quitters
  BY <1>1 DEF SeatExpires
<1>3. PICK o \in Instance : o = room[r] /\ GridOK(o) /\ ReportOK(o)
  BY RoomFacts
<1>4. room \in [Rooms -> Instance] /\ PlacesOK
  BY DEF RoomIInv
<1>5. PICK n : n = Kept(r, o)
  OBVIOUS
<1>6. room' = [room EXCEPT ![r] = n]
  BY <1>2, <1>3, <1>4, <1>5
<1>7. n = o \/ n = Gone
  BY <1>3, <1>5, KeptIs
<1>8. /\ GridOK(n) /\ ReportOK(n) /\ (Orderly(o) => Orderly(n)) /\ Follows(o, n)
  <2>1. Follows(o, o)
    BY InstanceShape, StaysForward
  <2>2. Follows(o, n)
    BY <2>1, <1>5, KeptFollows
  <2> QED
    BY <2>2, <1>3, <1>5, <1>7, KeptIs
<1>9. PlacesOK'
  BY <1>2, <1>4 DEF PlacesOK
<1>10. \A i \in 1..Len(n.racers) : n.racers[i].who \in Drivers => place'[n.racers[i].who] = r
  <2>1. CASE n = o
    BY <2>1, <1>2, <1>3, RoomFacts
  <2>2. CASE n = Gone
    <3>1. Len(n.racers) = 0
      BY <2>2, <1>3, KeptIs
    <3> QED
      BY <3>1
  <2> QED
    BY <2>1, <2>2, <1>7
<1>11. r \notin quitters' => Orderly(n)
  BY <1>2, <1>3, <1>8, RoomFacts
<1>12. RoomIInv'
  BY <1>2, <1>6, <1>8, <1>9, <1>10, <1>11, RoomChanges
<1> QED
  BY <1>3, <1>6, <1>8, <1>12 DEF OneRoom

-----------------------------------------------------------------------------
(* The countdown and the green light.                                      *)

\* b is the grid c with the first k bots behind.
Spawned(b, c, k) ==
  /\ k \in 0..Len(Bots) /\ Len(b) = Len(c) + k /\ Len(b) <= MaxRacers
  /\ \A i \in 1..Len(c) : b[i] = c[i]
  /\ \A i \in 1..k : /\ b[Len(c) + i].who = Bots[i] /\ b[Len(c) + i].slot = Len(c) + i - 1
                     /\ b[Len(c) + i].finish = 0

Bot(w, s) == Racer(w, s, TRUE)

LEMMA BotShape ==
  ASSUME NEW w \in Names, NEW s \in Nat
  PROVE  Bot(w, s) \in Car /\ Bot(w, s).who = w /\ Bot(w, s).slot = s /\ Bot(w, s).finish = 0
BY DEF Racer, Car, Bot

LEMMA Joins ==
  ASSUME NEW S, NEW c \in Seq(S), NEW t \in Seq(S)
  PROVE  /\ c \o t \in Seq(S) /\ Len(c \o t) = Len(c) + Len(t)
         /\ \A i \in 1..Len(c) : (c \o t)[i] = c[i]
         /\ \A i \in 1..Len(t) : (c \o t)[Len(c) + i] = t[i]
OBVIOUS

LEMMA BotsSpawn ==
  ASSUME NEW c \in Seq(Car), Len(c) <= MaxRacers
  PROVE  SpawnBots(c) \in Seq(Car) /\ \E k : Spawned(SpawnBots(c), c, k)
<1>1. PICK m \in Nat : m = Len(c)
  OBVIOUS
<1>2. PICK k \in Nat : /\ k = IF Len(Bots) < MaxRacers - Len(c) THEN Len(Bots) ELSE MaxRacers - Len(c)
                       /\ k \in 0..Len(Bots) /\ m + k <= MaxRacers
  <2>1. PICK L \in Nat, M \in Nat : L = Len(Bots) /\ M = MaxRacers
    BY Settings
  <2>2. m <= M
    BY <1>1, <2>1
  <2>3. PICK k : k = IF L < M - m THEN L ELSE M - m
    OBVIOUS
  <2>4. k \in Nat /\ k \in 0..L /\ m + k <= M
    BY <1>1, <2>1, <2>2, <2>3
  <2> QED
    BY <1>1, <2>1, <2>3, <2>4
<1>3. PICK t : t = [i \in 1..k |-> Racer(Bots[i], BotSlot(c, i), TRUE)]
  OBVIOUS
<1>4. SpawnBots(c) = c \o t
  BY <1>2, <1>3 DEF SpawnBots
<1>5. \A i \in 1..k : t[i] \in Car /\ t[i].who = Bots[i] /\ t[i].slot = m + i - 1 /\ t[i].finish = 0
  <2> SUFFICES ASSUME NEW i \in 1..k
               PROVE  t[i] \in Car /\ t[i].who = Bots[i] /\ t[i].slot = m + i - 1 /\ t[i].finish = 0
    OBVIOUS
  <2>1. Bots[i] \in Names
    <3>1. i \in 1..Len(Bots)
      <4>1. Len(Bots) \in Nat
        BY Settings
      <4> QED
        BY <1>2, <4>1
    <3> QED
      BY <3>1, Settings DEF Names
  <2>2. BotSlot(c, i) = m + i - 1 /\ m + i - 1 \in Nat
    BY <1>1 DEF BotSlot
  <2>3. PICK w \in Names, s \in Nat : w = Bots[i] /\ s = m + i - 1
    BY <2>1, <2>2
  <2>4. t[i] = Bot(w, s)
    BY <1>3, <2>2, <2>3 DEF Bot
  <2>5. t[i] \in Car /\ t[i].who = w /\ t[i].slot = s /\ t[i].finish = 0
    BY <2>4, BotShape
  <2> QED
    BY <2>3, <2>5
<1>6. t \in Seq(Car) /\ Len(t) = k
  <2>1. \A i \in 1..k : t[i] \in Car
    BY <1>5
  <2>2. t \in [1..k -> Car]
    BY <1>3, <2>1
  <2> QED
    BY <2>2
<1>7. PICK b \in Seq(Car) : b = c \o t
  BY <1>6, Joins
<1>8. Len(b) = m + k
  BY <1>1, <1>6, <1>7, Joins
<1>9. \A i \in 1..m : b[i] = c[i]
  BY <1>1, <1>6, <1>7, Joins
<1>10. \A i \in 1..k : b[m + i] = t[i]
  BY <1>1, <1>6, <1>7, Joins
<1>11. Spawned(b, c, k)
  BY <1>1, <1>2, <1>5, <1>8, <1>9, <1>10 DEF Spawned
<1> QED
  BY <1>4, <1>7, <1>11

\* The same cars, at the same slots.
SameCars(b, c) ==
  /\ b \in Seq(Car) /\ Len(b) = Len(c)
  /\ \A i \in 1..Len(c) : b[i].who = c[i].who /\ b[i].slot = c[i].slot

MadeReady(c, d) == [i \in DOMAIN c |-> [c[i] EXCEPT !.ready = @ \/ c[i].who = d]]

LEMMA ReadyCars ==
  ASSUME NEW c \in Seq(Car), NEW d, NEW b, b = MadeReady(c, d)
  PROVE  SameCars(b, c) /\ \A i \in 1..Len(c) : b[i].finish = c[i].finish
<1>1. PICK m \in Nat : m = Len(c) /\ DOMAIN c = 1..m
  OBVIOUS
<1>2. \A i \in 1..m : b[i] = [c[i] EXCEPT !.ready = c[i].ready \/ c[i].who = d]
  BY <1>1 DEF MadeReady
<1>3. DOMAIN b = 1..m /\ b = [i \in DOMAIN b |-> b[i]]
  BY <1>1 DEF MadeReady
<1>4. \A i \in 1..m : b[i] \in Car /\ b[i].who = c[i].who /\ b[i].slot = c[i].slot
                      /\ b[i].finish = c[i].finish
  <2> SUFFICES ASSUME NEW i \in 1..m
               PROVE  b[i] \in Car /\ b[i].who = c[i].who /\ b[i].slot = c[i].slot
                      /\ b[i].finish = c[i].finish
    OBVIOUS
  <2>1. (c[i].ready \/ c[i].who = d) \in BOOLEAN
    OBVIOUS
  <2>2. PICK z \in BOOLEAN : z = (c[i].ready \/ c[i].who = d)
    BY <2>1
  <2>3. b[i] = [c[i] EXCEPT !.ready = z]
    BY <1>2, <2>2, Zenon
  <2>4. PICK y \in Car : y = c[i]
    BY <1>1
  <2>5. b[i] = [y EXCEPT !.ready = z]
    BY <2>3, <2>4
  <2>6. /\ [y EXCEPT !.ready = z] \in Car /\ [y EXCEPT !.ready = z].who = y.who
        /\ [y EXCEPT !.ready = z].slot = y.slot /\ [y EXCEPT !.ready = z].finish = y.finish
    BY CarShape
  <2> QED
    BY <2>4, <2>5, <2>6
<1>5. b \in Seq(Car) /\ Len(b) = m
  <2>1. \A i \in 1..m : b[i] \in Car
    BY <1>4
  <2> QED
    BY <1>1, <1>3, <2>1, CarsAgain
<1> QED
  BY <1>1, <1>4, <1>5 DEF SameCars

\* A grid whose cars are the same.
LEMMA SameGrid ==
  ASSUME NEW o \in Instance, GridOK(o), ReportOK(o), NEW x \in Instance, x.phase = o.phase,
         SameCars(x.racers, o.racers), x.report = o.report, x.clock \in Nat, o.clock <= x.clock,
         \A i \in 1..Len(x.racers) : x.racers[i].finish <= x.clock
  PROVE  /\ GridOK(x) /\ ReportOK(x) /\ Follows(o, x)
         /\ SlotsDiffer(o.racers) => SlotsDiffer(x.racers)
         /\ InOrder(o.racers) => InOrder(x.racers)
<1>0. PICK c \in Seq(Car), b \in Seq(Car) : c = o.racers /\ b = x.racers
  BY InstanceShape
<1>1. PICK m \in Nat : /\ c = o.racers /\ b = x.racers /\ m = Len(c) /\ m = Len(b)
                       /\ DOMAIN c = 1..m /\ DOMAIN b = 1..m
  <2>1. Len(b) = Len(c)
    BY <1>0 DEF SameCars
  <2>2. Len(c) \in Nat /\ DOMAIN c = 1..Len(c) /\ DOMAIN b = 1..Len(b)
    OBVIOUS
  <2> QED
    BY <1>0, <2>1, <2>2
<1>2. \A i \in 1..m : b[i].who = c[i].who /\ b[i].slot = c[i].slot
  BY <1>1 DEF SameCars
<1>3. OncePerPlayer(b)
  BY <1>1, <1>2 DEF GridOK, OncePerPlayer
<1>4. m <= MaxRacers
  BY <1>1 DEF GridOK
<1>5. x.phase = "none" => b = <<>>
  <2> SUFFICES ASSUME x.phase = "none" PROVE b = <<>>
    OBVIOUS
  <2>1. c = <<>>
    BY <1>1 DEF GridOK
  <2> QED
    BY <1>1, <2>1
<1>6. x.phase \in {"none", "WAITING"} => \A i \in 1..m : b[i].who \in Drivers
  BY <1>1, <1>2 DEF GridOK
<1>7. GridOK(x)
  BY <1>1, <1>3, <1>4, <1>5, <1>6 DEF GridOK
<1>8. ReportOK(x)
  <2>1. \A k \in 1..Len(o.report) : o.report[k].finish <= x.clock
    <3> SUFFICES ASSUME NEW k \in 1..Len(o.report) PROVE o.report[k].finish <= x.clock
      OBVIOUS
    <3>1. o.report \in Seq(Line) /\ o.clock \in Nat
      BY InstanceShape
    <3>2. o.report[k] \in Line
      BY <3>1
    <3>3. o.report[k].finish \in Nat
      BY <3>2 DEF Line
    <3>4. o.report[k].finish <= o.clock
      BY DEF ReportOK
    <3> QED
      BY <3>1, <3>3, <3>4
  <2> QED
    BY <2>1 DEF ReportOK
<1>9. Follows(o, x)
  <2>2. \A i \in DOMAIN x.racers : \E j \in DOMAIN o.racers : x.racers[i].who = o.racers[j].who
    BY <1>1, <1>2
  <2> QED
    BY <2>2, StaysForward
<1>10. SlotsDiffer(c) => SlotsDiffer(b)
  BY <1>1, <1>2 DEF SlotsDiffer
<1>11. InOrder(c) => InOrder(b)
  BY <1>1, <1>2 DEF InOrder
<1> QED
  BY <1>1, <1>7, <1>8, <1>9, <1>10, <1>11

\* The room starts the countdown, with the bots behind.
Started(o, b) == [o EXCEPT !.phase = "COUNTDOWN", !.racers = SpawnBots(b)]

LEMMA Starts ==
  ASSUME NEW o \in Instance, GridOK(o), ReportOK(o), o.phase = "WAITING",
         NEW b, SameCars(b, o.racers), \A i \in 1..Len(b) : b[i].finish <= o.clock,
         NEW n, n = Started(o, b)
  PROVE  /\ GridOK(n) /\ ReportOK(n) /\ Follows(o, n)
         /\ Orderly(o) => Orderly(n)
         /\ \A i \in 1..Len(n.racers) : n.racers[i].who \in Drivers =>
              \E j \in 1..Len(o.racers) : n.racers[i].who = o.racers[j].who
<1>1. PICK c \in Seq(Car) : c = o.racers
  BY InstanceShape
<1>2. PICK m \in Nat : /\ m = Len(c) /\ m = Len(b) /\ b \in Seq(Car)
                       /\ \A i \in 1..m : b[i].who = c[i].who /\ b[i].slot = c[i].slot
  BY <1>1 DEF SameCars
<1>3. Len(b) <= MaxRacers
  BY <1>1, <1>2 DEF GridOK
<1>4. PICK g, k : g = SpawnBots(b) /\ g \in Seq(Car) /\ Spawned(g, b, k)
  BY <1>2, <1>3, BotsSpawn
<1>5. /\ k \in Nat /\ Len(g) = m + k /\ Len(g) <= MaxRacers /\ k <= Len(Bots)
      /\ \A i \in 1..m : g[i] = b[i]
      /\ \A i \in 1..k : /\ g[m + i].who = Bots[i] /\ g[m + i].slot = m + i - 1
                         /\ g[m + i].finish = 0
  <2>1. Len(Bots) \in Nat
    BY Settings
  <2> QED
    BY <1>2, <1>4, <2>1 DEF Spawned
<1>6. \A i \in 1..Len(g) : i \in 1..m \/ \E l \in 1..k : i = m + l
  <2> SUFFICES ASSUME NEW i \in 1..Len(g) PROVE i \in 1..m \/ \E l \in 1..k : i = m + l
    OBVIOUS
  <2>1. CASE i <= m
    BY <2>1, <1>2
  <2>2. CASE i > m
    <3>1. i - m \in 1..k /\ i = m + (i - m)
      BY <2>2, <1>2, <1>5
    <3> QED
      BY <3>1
  <2> QED
    BY <2>1, <2>2, <1>2
<1>7. /\ n \in Instance /\ n.phase = "COUNTDOWN" /\ n.racers = g /\ n.clock = o.clock
      /\ n.report = o.report
  <2>1. n = [phase |-> "COUNTDOWN", racers |-> g, clock |-> o.clock, first |-> o.first,
             report |-> o.report]
    BY <1>4, InstanceUpdates DEF Started
  <2>2. /\ "COUNTDOWN" \in PhaseNames /\ o.clock \in Nat /\ o.first \in Nat
        /\ o.report \in Seq(Line)
    BY InstanceShape DEF PhaseNames
  <2>3. g \in Seq(Car)
    BY <1>4
  <2> QED
    BY <2>1, <2>2, <2>3, Made
<1>8. o.clock \in Nat
  BY InstanceShape
<1>9. \A i \in 1..m : g[i].who = c[i].who /\ g[i].slot = c[i].slot /\ g[i].who \in Drivers
                      /\ g[i].finish <= o.clock
  <2>1. \A i \in 1..m : c[i].who \in Drivers /\ b[i].finish <= o.clock
    BY <1>1, <1>2 DEF GridOK
  <2> QED
    BY <2>1, <1>2, <1>5
<1>10. \A i \in 1..k : g[m + i].who \notin Drivers /\ g[m + i].who = Bots[i] /\ i \in 1..Len(Bots)
  <2>1. \A i \in 1..k : i \in 1..Len(Bots)
    <3>1. Len(Bots) \in Nat
      BY Settings
    <3> QED
      BY <1>5, <3>1
  <2>2. \A i \in 1..k : Bots[i] \in Range(Bots)
    BY <2>1, Settings
  <2>3. \A i \in 1..k : Bots[i] \notin Drivers
    BY <2>2, Settings
  <2> QED
    BY <1>5, <2>1, <2>3
<1>11. OncePerPlayer(g)
  <2> SUFFICES ASSUME NEW i \in 1..Len(g), NEW j \in 1..Len(g), g[i].who = g[j].who
               PROVE  i = j
    BY DEF OncePerPlayer
  <2>1. CASE i \in 1..m /\ j \in 1..m
    <3>1. c[i].who = c[j].who
      BY <2>1, <1>9
    <3> QED
      BY <2>1, <3>1, <1>1, <1>2 DEF GridOK, OncePerPlayer
  <2>2. ASSUME NEW l \in 1..k, i = m + l, NEW q \in 1..k, j = m + q PROVE i = j
    <3>1. Bots[l] = Bots[q] /\ l \in 1..Len(Bots) /\ q \in 1..Len(Bots)
      BY <2>2, <1>10
    <3>2. l = q
      BY <3>1, Settings
    <3> QED
      BY <2>2, <3>2
  <2>3. CASE i \in 1..m /\ ~(j \in 1..m)
    <3>1. PICK q \in 1..k : j = m + q
      BY <2>3, <1>6
    <3> QED
      BY <2>3, <3>1, <1>9, <1>10
  <2>4. CASE ~(i \in 1..m) /\ j \in 1..m
    <3>1. PICK q \in 1..k : i = m + q
      BY <2>4, <1>6
    <3> QED
      BY <2>4, <3>1, <1>9, <1>10
  <2> QED
    BY <2>1, <2>2, <2>3, <2>4, <1>6
<1>12. \A i \in 1..Len(g) : g[i].finish <= o.clock
  <2> SUFFICES ASSUME NEW i \in 1..Len(g) PROVE g[i].finish <= o.clock
    OBVIOUS
  <2>1. CASE i \in 1..m
    BY <2>1, <1>9
  <2>2. ASSUME NEW l \in 1..k, i = m + l PROVE g[i].finish <= o.clock
    <3>1. g[m + l].finish = 0
      BY <1>5
    <3> QED
      BY <2>2, <3>1, <1>8
  <2> QED
    BY <2>1, <2>2, <1>6
<1>13. GridOK(n)
  BY <1>5, <1>7, <1>11, <1>12 DEF GridOK
<1>14. ReportOK(n)
  BY <1>7 DEF ReportOK
<1>15. Follows(o, n)
  <2>1. Forward(o, n)
    BY <1>7, PhaseOrder DEF Forward
  <2> QED
    BY <2>1, <1>7 DEF Follows
<1>16. Orderly(o) => Orderly(n)
  <2> SUFFICES ASSUME Orderly(o) PROVE Orderly(n)
    OBVIOUS
  <2>1. \A i \in 1..m : g[i].slot = i - 1
    BY <1>1, <1>2, <1>9 DEF Orderly, InOrder
  <2>2. \A i \in 1..Len(g) : g[i].slot = i - 1
    <3> SUFFICES ASSUME NEW i \in 1..Len(g) PROVE g[i].slot = i - 1
      OBVIOUS
    <3>1. CASE i \in 1..m
      BY <3>1, <2>1
    <3>2. ASSUME NEW l \in 1..k, i = m + l PROVE g[i].slot = i - 1
      <4>1. g[m + l].slot = m + l - 1
        BY <1>5
      <4> QED
        BY <3>2, <4>1
    <3> QED
      BY <3>1, <3>2, <1>6
  <2>3. \A i, j \in 1..Len(g) : g[i].slot = g[j].slot => i = j
    BY <2>2
  <2> QED
    BY <2>3, <1>7 DEF Orderly, SlotsDiffer
<1>17. \A i \in 1..Len(g) : g[i].who \in Drivers => \E j \in 1..m : g[i].who = c[j].who
  <2> SUFFICES ASSUME NEW i \in 1..Len(g), g[i].who \in Drivers
               PROVE  \E j \in 1..m : g[i].who = c[j].who
    OBVIOUS
  <2>1. CASE i \in 1..m
    BY <2>1, <1>9
  <2>2. ASSUME NEW l \in 1..k, i = m + l PROVE FALSE
    BY <2>2, <1>10
  <2> QED
    BY <2>1, <2>2, <1>6
<1> QED
  BY <1>1, <1>2, <1>7, <1>13, <1>14, <1>15, <1>16, <1>17

LEMMA ReadyStep ==
  ASSUME RoomIInv, NEW d \in Drivers, Ready(d)
  PROVE  RoomIInv' /\ OneRoom
<1>1. PICK r \in Rooms : r = place[d]
  BY DEF Ready, RoomIInv, PlacesOK
<1>2. PICK o \in Instance : o = room[r] /\ GridOK(o) /\ ReportOK(o)
  BY RoomFacts
<1>3. room \in [Rooms -> Instance] /\ PlacesOK
  BY DEF RoomIInv
<1>4. PICK c \in Seq(Car) : c = o.racers
  BY InstanceShape
<1>5. PICK b : b = MadeReady(c, d)
  OBVIOUS
<1>6. PICK n : n = IF Startable(WithCars(o, b)) /\ AllReady(b) THEN Started(o, b) ELSE WithCars(o, b)
  OBVIOUS
<1>7. /\ seat' = seat /\ place' = place /\ quitters' = quitters
      /\ room' = [room EXCEPT ![r] = n]
  BY <1>1, <1>2, <1>3, <1>4, <1>5, <1>6 DEF Ready, WithCars, Started, MadeReady
<1>8. SameCars(b, c) /\ \A i \in 1..Len(c) : b[i].finish = c[i].finish
  BY <1>5, ReadyCars
<1>9. /\ SameCars(b, o.racers) /\ b \in Seq(Car) /\ Len(b) = Len(o.racers)
      /\ \A i \in 1..Len(b) : b[i].finish <= o.clock
  BY <1>2, <1>4, <1>8 DEF SameCars, GridOK
<1>10. /\ WithCars(o, b) \in Instance /\ WithCars(o, b).phase = o.phase
       /\ WithCars(o, b).racers = b /\ WithCars(o, b).clock = o.clock
       /\ WithCars(o, b).report = o.report
  BY <1>9, CarsChanged
<1>11. /\ GridOK(n) /\ ReportOK(n) /\ Follows(o, n) /\ (Orderly(o) => Orderly(n))
       /\ \A i \in 1..Len(n.racers) : n.racers[i].who \in Drivers =>
            \E j \in 1..Len(o.racers) : n.racers[i].who = o.racers[j].who
  <2>1. CASE Startable(WithCars(o, b)) /\ AllReady(b)
    <3>1. o.phase = "WAITING"
      BY <2>1, <1>10 DEF Startable
    <3>2. n = Started(o, b)
      BY <2>1, <1>6
    <3>3. GridOK(o) /\ ReportOK(o) /\ o \in Instance
      BY <1>2
    <3>4. SameCars(b, o.racers) /\ \A i \in 1..Len(b) : b[i].finish <= o.clock
      BY <1>9
    <3> QED
      BY <3>1, <3>2, <3>3, <3>4, Starts
  <2>2. CASE ~(Startable(WithCars(o, b)) /\ AllReady(b))
    <3>1. n = WithCars(o, b)
      BY <2>2, <1>6
    <3>2. /\ n \in Instance /\ n.phase = o.phase /\ n.racers = b /\ n.clock = o.clock
          /\ n.report = o.report
      BY <3>1, <1>10
    <3>3. o.clock \in Nat /\ GridOK(o) /\ ReportOK(o) /\ SameCars(n.racers, o.racers)
      BY <1>2, <1>9, <3>2, InstanceShape
    <3>4. \A i \in 1..Len(n.racers) : n.racers[i].finish <= n.clock
      BY <1>9, <3>2
    <3>5. /\ GridOK(n) /\ ReportOK(n) /\ Follows(o, n)
          /\ SlotsDiffer(o.racers) => SlotsDiffer(n.racers)
          /\ InOrder(o.racers) => InOrder(n.racers)
      <4>1. n.clock \in Nat /\ o.clock <= n.clock
        BY <3>2, <3>3
      <4> QED
        BY <3>2, <3>3, <3>4, <4>1, SameGrid
    <3>6. Orderly(o) => Orderly(n)
      <4> SUFFICES ASSUME Orderly(o) PROVE Orderly(n)
        OBVIOUS
      <4>1. SlotsDiffer(n.racers)
        BY <3>5 DEF Orderly
      <4>2. n.phase = "WAITING" => InOrder(n.racers)
        BY <3>2, <3>5 DEF Orderly
      <4>3. n.phase = "WAITING" /\ b # <<>> => \E i \in 1..Len(b) : b[i].ready = FALSE
        <5> SUFFICES ASSUME n.phase = "WAITING", b # <<>>
                     PROVE  \E i \in 1..Len(b) : b[i].ready = FALSE
          OBVIOUS
        <5>1. ~AllReady(b)
          BY <2>2, <1>10, <3>2 DEF Startable
        <5>2. DOMAIN b = 1..Len(b)
          BY <1>9
        <5>3. PICK i \in 1..Len(b) : ~b[i].ready
          BY <5>1, <5>2 DEF AllReady
        <5>4. b[i] \in Car
          BY <1>9
        <5>5. b[i].ready \in BOOLEAN
          BY <5>4, CarShape
        <5> QED
          BY <5>3, <5>5
      <4> QED
        BY <3>2, <4>1, <4>2, <4>3 DEF Orderly
    <3>7. \A i \in 1..Len(n.racers) : \E j \in 1..Len(o.racers) : n.racers[i].who = o.racers[j].who
      BY <1>9, <3>2 DEF SameCars
    <3> QED
      BY <3>5, <3>6, <3>7
  <2> QED
    BY <2>1, <2>2
<1>12. \A i \in 1..Len(n.racers) : n.racers[i].who \in Drivers => place'[n.racers[i].who] = r
  <2>1. \A j \in 1..Len(o.racers) : o.racers[j].who \in Drivers => place[o.racers[j].who] = r
    BY <1>2, RoomFacts
  <2> QED
    BY <2>1, <1>7, <1>11
<1>13. r \notin quitters' => Orderly(n)
  BY <1>2, <1>7, <1>11, RoomFacts
<1>14. PlacesOK'
  BY <1>3, <1>7 DEF PlacesOK
<1>15. RoomIInv'
  BY <1>7, <1>11, <1>12, <1>13, <1>14, RoomChanges
<1> QED
  BY <1>2, <1>7, <1>11, <1>15 DEF OneRoom

LEMMA GreenLightStep ==
  ASSUME RoomIInv, NEW r \in Rooms, GreenLight(r)
  PROVE  RoomIInv' /\ OneRoom
<1>1. /\ room[r].phase = "COUNTDOWN" /\ room' = [room EXCEPT ![r].phase = "RACING"]
      /\ seat' = seat /\ place' = place /\ quitters' = quitters
  BY DEF GreenLight
<1>2. PICK o \in Instance : o = room[r] /\ GridOK(o) /\ ReportOK(o) /\ o.phase = "COUNTDOWN"
  BY <1>1, RoomFacts
<1>3. room \in [Rooms -> Instance] /\ PlacesOK
  BY DEF RoomIInv
<1>4. PICK n : n = InPhase(o, "RACING")
  OBVIOUS
<1>5. room' = [room EXCEPT ![r] = n]
  BY <1>1, <1>2, <1>3, <1>4 DEF InPhase
<1>6. /\ n \in Instance /\ n.phase = "RACING" /\ n.racers = o.racers /\ n.clock = o.clock
      /\ n.report = o.report
  <2>1. "RACING" \in PhaseNames
    BY DEF PhaseNames
  <2> QED
    BY <2>1, <1>4, PhaseChanged
<1>7. GridOK(n)
  BY <1>2, <1>6 DEF GridOK
<1>8. ReportOK(n)
  BY <1>2, <1>6 DEF ReportOK
<1>9. Orderly(o) => Orderly(n)
  BY <1>6 DEF Orderly
<1>10. Follows(o, n)
  <2>1. \A i \in DOMAIN n.racers : In(o.racers, n.racers[i].who)
    BY <1>6 DEF In
  <2>2. Forward(o, n)
    BY <2>1, <1>2, <1>6, PhaseOrder DEF Forward
  <2> QED
    BY <2>2, <1>2 DEF Follows
<1>11. \A i \in 1..Len(n.racers) : n.racers[i].who \in Drivers => place'[n.racers[i].who] = r
  BY <1>1, <1>2, <1>6, RoomFacts
<1>12. r \notin quitters' => Orderly(n)
  BY <1>1, <1>2, <1>9, RoomFacts
<1>13. PlacesOK'
  BY <1>1, <1>3 DEF PlacesOK
<1>14. RoomIInv'
  BY <1>1, <1>5, <1>7, <1>8, <1>11, <1>12, <1>13, RoomChanges
<1> QED
  BY <1>2, <1>5, <1>10, <1>14 DEF OneRoom

-----------------------------------------------------------------------------
(* The race.                                                               *)

\* What is left of a list is no longer than it was.
LEMMA WithoutLen ==
  ASSUME NEW E, NEW q \in Seq(E), NEW S
  PROVE  Len(Without(q, S)) <= Len(q)
<1>1. PICK b, h : b \in Seq(E) /\ b = Without(q, S) /\ Keeps(b, q, S, Len(q), h)
  BY WithoutKeeps
<1>2. PICK m \in Nat, n \in Nat : m = Len(b) /\ n = Len(q)
  BY <1>1
<1>3. h \in [1..m -> 1..n]
  BY <1>1, <1>2 DEF Keeps
<1>4. \A k, l \in 1..m : h[k] = h[l] => k = l
  <2> SUFFICES ASSUME NEW k \in 1..m, NEW l \in 1..m, h[k] = h[l] PROVE k = l
    OBVIOUS
  <2>1. \A i, j \in 1..m : i < j => h[i] < h[j]
    BY <1>1, <1>2 DEF Keeps
  <2>2. h[k] \in 1..n /\ h[l] \in 1..n
    BY <1>3
  <2>3. ~(k < l) /\ ~(l < k)
    BY <2>1, <2>2
  <2> QED
    BY <2>3
<1>5. h \in Injection(1..m, 1..n)
  BY <1>3, <1>4 DEF Injection, IsInjective
<1>6. /\ IsFiniteSet(1..n) /\ Cardinality(1..n) = n
      /\ IsFiniteSet(1..m) /\ Cardinality(1..m) = m
  <2>1. IsFiniteSet(1..n) /\ Cardinality(1..n) = n
    BY FS_Interval
  <2>2. IsFiniteSet(1..m) /\ Cardinality(1..m) = m
    BY FS_Interval
  <2> QED
    BY <2>1, <2>2
<1>7. Cardinality(1..m) <= Cardinality(1..n)
  BY <1>5, <1>6, FS_Injection
<1> QED
  BY <1>1, <1>2, <1>6, <1>7

\* The room after a handler's last call.
LEMMA Closes ==
  ASSUME NEW o \in Instance, NEW x \in Instance, x.phase = o.phase, GridOK(x), ReportOK(x),
         Follows(o, x), NEW n \in MaybeFinish(x)
  PROVE  /\ GridOK(n) /\ ReportOK(n) /\ n.racers = x.racers /\ (Orderly(x) => Orderly(n))
         /\ Follows(o, n)
<1>1. /\ GridOK(n) /\ ReportOK(n) /\ n.racers = x.racers /\ (Orderly(x) => Orderly(n))
      /\ n = x \/ (x.phase = "RACING" /\ n.phase = "FINISHED" /\ Fair(n.racers, n.report))
  BY MaybeFinishes
<1>2. Follows(o, n)
  <2>1. CASE n = x
    BY <2>1
  <2>2. CASE x.phase = "RACING" /\ n.phase = "FINISHED" /\ Fair(n.racers, n.report)
    <3>1. o.phase = "RACING" /\ \A i \in DOMAIN n.racers : In(o.racers, n.racers[i].who)
      BY <2>2, <1>1 DEF Follows, Forward
    <3>2. Forward(o, n)
      BY <2>2, <3>1, PhaseOrder DEF Forward
    <3> QED
      BY <2>2, <3>2 DEF Follows
  <2> QED
    BY <2>1, <2>2, <1>1
<1> QED
  BY <1>1, <1>2

\* The cars after a tick, at the time t.
Ticked(c, F, t) == [i \in DOMAIN c |-> [c[i] EXCEPT !.finish = IF i \in F THEN t ELSE @]]

LEMMA TickedCars ==
  ASSUME NEW c \in Seq(Car), NEW F, NEW t \in Nat, \A i \in 1..Len(c) : c[i].finish <= t
  PROVE  SameCars(Ticked(c, F, t), c) /\ \A i \in 1..Len(c) : Ticked(c, F, t)[i].finish <= t
<1>1. PICK m \in Nat : m = Len(c) /\ DOMAIN c = 1..m
  OBVIOUS
<1>2. PICK b : b = Ticked(c, F, t)
  OBVIOUS
<1>3. \A i \in 1..m : b[i] = [c[i] EXCEPT !.finish = IF i \in F THEN t ELSE c[i].finish]
  BY <1>1, <1>2 DEF Ticked
<1>4. DOMAIN b = 1..m /\ b = [i \in DOMAIN b |-> b[i]]
  BY <1>1, <1>2 DEF Ticked
<1>5. \A i \in 1..m : b[i] \in Car /\ b[i].who = c[i].who /\ b[i].slot = c[i].slot
                      /\ b[i].finish <= t
  <2> SUFFICES ASSUME NEW i \in 1..m
               PROVE  b[i] \in Car /\ b[i].who = c[i].who /\ b[i].slot = c[i].slot
                      /\ b[i].finish <= t
    OBVIOUS
  <2>1. PICK y \in Car : y = c[i]
    BY <1>1
  <2>2. y.finish \in Nat /\ y.finish <= t
    BY <1>1, <2>1, CarShape
  <2>3. PICK z \in Nat : z = (IF i \in F THEN t ELSE y.finish) /\ z <= t
    BY <2>2
  <2>4. b[i] = [y EXCEPT !.finish = z]
    BY <1>3, <2>1, <2>3
  <2>5. /\ [y EXCEPT !.finish = z] \in Car /\ [y EXCEPT !.finish = z].who = y.who
        /\ [y EXCEPT !.finish = z].slot = y.slot /\ [y EXCEPT !.finish = z].finish = z
    BY CarShape
  <2> QED
    BY <2>1, <2>3, <2>4, <2>5
<1>6. b \in Seq(Car) /\ Len(b) = m
  <2>1. \A i \in 1..m : b[i] \in Car
    BY <1>5
  <2> QED
    BY <1>1, <1>4, <2>1, CarsAgain
<1> QED
  BY <1>1, <1>2, <1>5, <1>6 DEF SameCars

LEMMA SimTickStep ==
  ASSUME RoomIInv, NEW r \in Rooms, SimTick(r)
  PROVE  RoomIInv' /\ OneRoom
<1>1. PICK F : Tick(r, F)
  BY DEF SimTick
<1>2. PICK o \in Instance : o = room[r] /\ GridOK(o) /\ ReportOK(o)
  BY RoomFacts
<1>3. room \in [Rooms -> Instance] /\ PlacesOK
  BY DEF RoomIInv
<1>4. PICK c \in Seq(Car) : c = o.racers
  BY InstanceShape
<1>5. PICK t \in Nat, f \in Nat : t = o.clock + 1 /\ f = IF o.first = 0 /\ F # {} THEN t ELSE o.first
  <2>1. o.clock \in Nat /\ o.first \in Nat
    BY InstanceShape
  <2>2. PICK t \in Nat : t = o.clock + 1
    BY <2>1
  <2>3. PICK f \in Nat : f = IF o.first = 0 /\ F # {} THEN t ELSE o.first
    BY <2>1
  <2> QED
    BY <2>2, <2>3
<1>6. PICK b, x : b = Ticked(c, F, t) /\ x = [o EXCEPT !.clock = t, !.racers = b, !.first = f]
  OBVIOUS
<1>7. /\ o.phase = "RACING" /\ seat' = seat /\ place' = place /\ quitters' = quitters
      /\ \E n \in MaybeFinish(x) : room' = [room EXCEPT ![r] = n]
  BY <1>1, <1>2, <1>4, <1>5, <1>6 DEF Tick, Ticked
<1>8. PICK n \in MaybeFinish(x) : room' = [room EXCEPT ![r] = n]
  BY <1>7
<1>9. o.clock \in Nat /\ o.clock <= t /\ \A i \in 1..Len(c) : c[i].finish <= t
  <2>1. o.clock \in Nat /\ \A i \in 1..Len(c) : c[i].finish <= o.clock /\ c[i].finish \in Nat
    <3>1. \A i \in 1..Len(c) : c[i] \in Car
      OBVIOUS
    <3>2. \A i \in 1..Len(c) : c[i].finish \in Nat
      BY <3>1, CarShape
    <3> QED
      BY <3>2, <1>2, <1>4, InstanceShape DEF GridOK
  <2> QED
    BY <2>1, <1>5
<1>10. SameCars(b, c) /\ \A i \in 1..Len(c) : b[i].finish <= t
  BY <1>6, <1>9, TickedCars
<1>11. b \in Seq(Car) /\ Len(b) = Len(c)
  BY <1>10 DEF SameCars
<1>12. x \in Instance /\ x.phase = o.phase /\ x.racers = b /\ x.clock = t /\ x.report = o.report
  <2>1. x = [phase |-> o.phase, racers |-> b, clock |-> t, first |-> f, report |-> o.report]
    <3>1. o \in Instance
      BY <1>2
    <3>2. \A u, y, g : [o EXCEPT !.clock = u, !.racers = y, !.first = g] =
            [phase |-> o.phase, racers |-> y, clock |-> u, first |-> g, report |-> o.report]
      BY <3>1, InstanceUpdates, Zenon
    <3> QED
      BY <3>2, <1>6
  <2>2. /\ o.phase \in PhaseNames /\ o.report \in Seq(Line) /\ b \in Seq(Car)
        /\ t \in Nat /\ f \in Nat
    BY <1>2, <1>5, <1>11, InstanceShape
  <2> QED
    BY <2>1, <2>2, Made
<1>13. /\ GridOK(x) /\ ReportOK(x) /\ Follows(o, x)
       /\ SlotsDiffer(o.racers) => SlotsDiffer(x.racers)
  <2>1. SameCars(x.racers, o.racers) /\ GridOK(o) /\ ReportOK(o)
    BY <1>2, <1>4, <1>10, <1>12
  <2>2. x.clock \in Nat /\ o.clock <= x.clock
    BY <1>9, <1>12
  <2>3. \A i \in 1..Len(x.racers) : x.racers[i].finish <= x.clock
    BY <1>10, <1>11, <1>12
  <2> QED
    BY <1>12, <2>1, <2>2, <2>3, SameGrid
<1>14. Orderly(o) => Orderly(x)
  BY <1>7, <1>12, <1>13 DEF Orderly
<1>15. /\ GridOK(n) /\ ReportOK(n) /\ n.racers = b /\ (Orderly(o) => Orderly(n)) /\ Follows(o, n)
  BY <1>12, <1>13, <1>14, Closes
<1>16. \A i \in 1..Len(n.racers) : n.racers[i].who \in Drivers => place'[n.racers[i].who] = r
  <2>1. \A i \in 1..Len(c) : c[i].who \in Drivers => place[c[i].who] = r
    BY <1>2, <1>4, RoomFacts
  <2>2. \A i \in 1..Len(c) : b[i].who = c[i].who
    BY <1>10 DEF SameCars
  <2> QED
    BY <2>1, <2>2, <1>7, <1>11, <1>15
<1>17. r \notin quitters' => Orderly(n)
  BY <1>2, <1>7, <1>15, RoomFacts
<1>18. PlacesOK'
  BY <1>3, <1>7 DEF PlacesOK
<1>19. RoomIInv'
  BY <1>7, <1>8, <1>15, <1>16, <1>17, <1>18, RoomChanges
<1> QED
  BY <1>2, <1>8, <1>15, <1>19 DEF OneRoom

-----------------------------------------------------------------------------
(* Leaving.                                                                *)

\* The grid without the car of d.
Left(o, d) == WithCars(o, Without(o.racers, {d}))

LEMMA CarLeaves ==
  ASSUME NEW o \in Instance, GridOK(o), ReportOK(o), NEW d \in Drivers,
         NEW x, x = Left(o, d)
  PROVE  /\ x \in Instance /\ x.phase = o.phase /\ GridOK(x) /\ ReportOK(x) /\ Follows(o, x)
         /\ Orderly(o) /\ o.phase # "WAITING" => Orderly(x)
         /\ \A i \in 1..Len(x.racers) :
              /\ x.racers[i].who # d
              /\ \E j \in 1..Len(o.racers) : x.racers[i].who = o.racers[j].who
<1>1. PICK c \in Seq(Car) : c = o.racers
  BY InstanceShape
<1>2. PICK b \in Seq(Car) : b = Without(c, {d})
  BY WithoutKeeps
<1>3. PICK h : Keeps(b, c, {d}, Len(c), h)
  BY <1>2, WithoutKeeps
<1>4. PICK m \in Nat, k \in Nat : /\ m = Len(c) /\ k = Len(b)
                                 /\ DOMAIN c = 1..m /\ DOMAIN b = 1..k
  OBVIOUS
<1>5. \A i \in 1..k : h[i] \in 1..m /\ b[i] = c[h[i]] /\ b[i].who # d
  BY <1>3, <1>4 DEF Keeps
<1>6. \A i, j \in 1..k : h[i] = h[j] => i = j
  <2> SUFFICES ASSUME NEW i \in 1..k, NEW j \in 1..k, h[i] = h[j] PROVE i = j
    OBVIOUS
  <2>1. \A p, q \in 1..k : p < q => h[p] < h[q]
    BY <1>3, <1>4 DEF Keeps
  <2>2. ~(i < j) /\ ~(j < i)
    BY <2>1, <1>5
  <2> QED
    BY <2>2
<1>7. k <= m
  BY <1>2, <1>4, WithoutLen
<1>8. x \in Instance /\ x.phase = o.phase /\ x.racers = b /\ x.clock = o.clock /\ x.report = o.report
  <2>1. x = WithCars(o, b)
    BY <1>1, <1>2 DEF Left
  <2> QED
    BY <2>1, CarsChanged
<1>9. OncePerPlayer(b)
  <2>1. \A i, j \in 1..m : c[i].who = c[j].who => i = j
    BY <1>1, <1>4 DEF GridOK, OncePerPlayer
  <2>2. ASSUME NEW i \in 1..k, NEW j \in 1..k, b[i].who = b[j].who PROVE i = j
    <3>1. h[i] \in 1..m /\ h[j] \in 1..m /\ c[h[i]].who = c[h[j]].who
      BY <2>2, <1>5
    <3>2. h[i] = h[j]
      BY <2>1, <3>1
    <3> QED
      BY <3>2, <1>6
  <2> QED
    BY <2>2, <1>4 DEF OncePerPlayer
<1>10. GridOK(x)
  <2>1. Len(b) <= MaxRacers
    <3>1. m <= MaxRacers
      BY <1>1, <1>4 DEF GridOK
    <3> QED
      BY <3>1, <1>4, <1>7, Settings
  <2>2. x.phase = "none" => b = <<>>
    <3> SUFFICES ASSUME x.phase = "none" PROVE b = <<>>
      OBVIOUS
    <3>1. c = <<>>
      BY <1>1, <1>8 DEF GridOK
    <3>2. k = 0
      BY <3>1, <1>4, <1>7
    <3> QED
      BY <3>2, <1>4
  <2>3. x.phase \in {"none", "WAITING"} => \A i \in 1..Len(b) : b[i].who \in Drivers
    <3> SUFFICES ASSUME x.phase \in {"none", "WAITING"} PROVE \A i \in 1..k : b[i].who \in Drivers
      BY <1>4
    <3>1. \A i \in 1..m : c[i].who \in Drivers
      BY <1>1, <1>4, <1>8 DEF GridOK
    <3> QED
      BY <3>1, <1>5
  <2>4. \A i \in 1..Len(b) : b[i].finish <= o.clock
    <3>1. \A i \in 1..m : c[i].finish <= o.clock
      BY <1>1, <1>4 DEF GridOK
    <3> QED
      BY <3>1, <1>4, <1>5
  <2> QED
    BY <2>1, <2>2, <2>3, <2>4, <1>8, <1>9 DEF GridOK
<1>11. ReportOK(x)
  BY <1>8 DEF ReportOK
<1>12. \A i \in 1..k : \E j \in 1..m : b[i].who = c[j].who
  BY <1>5
<1>13. Follows(o, x)
  <2>1. \A i \in DOMAIN x.racers : \E j \in DOMAIN o.racers : x.racers[i].who = o.racers[j].who
    <3>1. \A i \in DOMAIN b : \E j \in DOMAIN c : b[i].who = c[j].who
      BY <1>4, <1>12
    <3>2. x.racers = b /\ o.racers = c
      BY <1>1, <1>8
    <3> QED
      BY <3>1, <3>2
  <2>2. x \in Instance /\ x.phase = o.phase
    BY <1>8
  <2> QED
    BY <2>1, <2>2, StaysForward
<1>14. Orderly(o) /\ o.phase # "WAITING" => Orderly(x)
  <2> SUFFICES ASSUME Orderly(o), o.phase # "WAITING" PROVE Orderly(x)
    OBVIOUS
  <2>1. \A i, j \in 1..m : c[i].slot = c[j].slot => i = j
    BY <1>1, <1>4 DEF Orderly, SlotsDiffer
  <2>2. ASSUME NEW i \in 1..k, NEW j \in 1..k, b[i].slot = b[j].slot PROVE i = j
    <3>1. h[i] \in 1..m /\ h[j] \in 1..m /\ c[h[i]].slot = c[h[j]].slot
      BY <2>2, <1>5
    <3>2. h[i] = h[j]
      BY <2>1, <3>1
    <3> QED
      BY <3>2, <1>6
  <2> QED
    BY <2>2, <1>4, <1>8 DEF Orderly, SlotsDiffer
<1>15. \A i \in 1..Len(x.racers) : /\ x.racers[i].who # d
                                   /\ \E j \in 1..Len(o.racers) : x.racers[i].who = o.racers[j].who
  BY <1>1, <1>4, <1>5, <1>8, <1>12
<1> QED
  BY <1>8, <1>10, <1>11, <1>13, <1>14, <1>15

LEMMA OnLeaveStep ==
  ASSUME RoomIInv, NEW d \in Drivers, OnLeave(d)
  PROVE  RoomIInv' /\ OneRoom
<1>1. PICK r \in Rooms : r = place[d]
  BY DEF OnLeave, RoomIInv, PlacesOK
<1>2. PICK o \in Instance : o = room[r] /\ GridOK(o) /\ ReportOK(o)
  BY RoomFacts
<1>3. room \in [Rooms -> Instance] /\ PlacesOK
  BY DEF RoomIInv
<1>4. PICK x : x = Left(o, d)
  OBVIOUS
<1>5. /\ place' = [place EXCEPT ![d] = Away] /\ seat' = seat
      /\ \E n \in MaybeFinish(x) : room' = [room EXCEPT ![r] = Kept(r, n)]
      /\ quitters' = IF o.phase = "WAITING" THEN quitters \cup {r} ELSE quitters
  BY <1>1, <1>2, <1>4 DEF OnLeave, WithCars, Left
<1>6. PICK y \in MaybeFinish(x) : room' = [room EXCEPT ![r] = Kept(r, y)]
  BY <1>5
<1>7. PICK n : n = Kept(r, y)
  OBVIOUS
<1>8. room' = [room EXCEPT ![r] = n]
  BY <1>6, <1>7
<1>9. /\ x \in Instance /\ x.phase = o.phase /\ GridOK(x) /\ ReportOK(x) /\ Follows(o, x)
      /\ Orderly(o) /\ o.phase # "WAITING" => Orderly(x)
      /\ \A i \in 1..Len(x.racers) :
           /\ x.racers[i].who # d
           /\ \E j \in 1..Len(o.racers) : x.racers[i].who = o.racers[j].who
  BY <1>2, <1>4, CarLeaves
<1>10. /\ GridOK(y) /\ ReportOK(y) /\ y.racers = x.racers /\ (Orderly(x) => Orderly(y))
       /\ Follows(o, y)
  BY <1>9, Closes
<1>11. /\ n = y \/ n = Gone
       /\ GridOK(Gone) /\ ReportOK(Gone) /\ Orderly(Gone) /\ Len(Gone.racers) = 0
       /\ Orderly(y) => Orderly(n)
  BY <1>7, <1>10, KeptIs
<1>12. GridOK(n) /\ ReportOK(n)
  BY <1>10, <1>11
<1>13. Follows(o, n)
  BY <1>7, <1>10, KeptFollows
<1>14. r \notin quitters' => Orderly(n)
  <2> SUFFICES ASSUME r \notin quitters' PROVE Orderly(n)
    OBVIOUS
  <2>1. r \notin quitters /\ o.phase # "WAITING"
    BY <1>5
  <2>2. Orderly(o)
    BY <2>1, <1>2, RoomFacts
  <2> QED
    BY <2>1, <2>2, <1>9, <1>10, <1>11
<1>15. /\ place \in [Drivers -> Rooms \cup {Away}] /\ place'[d] = Away
       /\ \A z \in Drivers : z # d => place'[z] = place[z]
  BY <1>3, <1>5 DEF PlacesOK
<1>16. \A i \in 1..Len(n.racers) : n.racers[i].who \in Drivers => place'[n.racers[i].who] = r
  <2>1. CASE n = Gone
    BY <2>1, <1>11
  <2>2. CASE n = y
    <3>1. \A j \in 1..Len(o.racers) : o.racers[j].who \in Drivers => place[o.racers[j].who] = r
      BY <1>2, RoomFacts
    <3>2. \A i \in 1..Len(x.racers) : x.racers[i].who \in Drivers => place'[x.racers[i].who] = r
      BY <3>1, <1>9, <1>15
    <3> QED
      BY <2>2, <3>2, <1>10
  <2> QED
    BY <2>1, <2>2, <1>11
<1>17. PlacesOK'
  BY <1>3, <1>5, <1>15 DEF PlacesOK
<1>18. quitters \subseteq quitters' /\ \A q \in Rooms \ {r} : \A z \in Drivers : place[z] = q => place'[z] = q
  BY <1>1, <1>5, <1>15
<1>19. RoomIInv'
  BY <1>8, <1>12, <1>14, <1>16, <1>17, <1>18, RoomChanges
<1> QED
  BY <1>2, <1>8, <1>13, <1>19 DEF OneRoom

LEMMA DisconnectStep ==
  ASSUME RoomIInv, NEW r \in Rooms, Disconnect(r)
  PROVE  RoomIInv' /\ OneRoom
<1>1. /\ place' = [d \in Drivers |-> IF place[d] = r THEN Away ELSE place[d]]
      /\ seat' = [d \in Drivers |-> IF seat[d] = r THEN Away ELSE seat[d]]
      /\ room' = [room EXCEPT ![r] = Kept(r, @)] /\ quitters' = quitters
  BY DEF Disconnect
<1>2. PICK o \in Instance : o = room[r] /\ GridOK(o) /\ ReportOK(o)
  BY RoomFacts
<1>3. room \in [Rooms -> Instance] /\ PlacesOK
  BY DEF RoomIInv
<1>4. r # Away
  BY Settings
<1>5. \A d \in Drivers : place'[d] # r /\ seat'[d] # r
  BY <1>1, <1>4
<1>6. Kept(r, o) = Gone
  BY <1>5 DEF Kept, Gone
<1>7. room' = [room EXCEPT ![r] = Gone]
  BY <1>1, <1>2, <1>3, <1>6
<1>8. GridOK(Gone) /\ ReportOK(Gone) /\ Orderly(Gone) /\ Len(Gone.racers) = 0
  BY <1>2, KeptIs
<1>9. PlacesOK'
  BY <1>1, <1>3 DEF PlacesOK
<1>10. \A q \in Rooms \ {r} : \A d \in Drivers : place[d] = q => place'[d] = q
  BY <1>1
<1>11. \A i \in 1..Len(Gone.racers) :
         Gone.racers[i].who \in Drivers => place'[Gone.racers[i].who] = r
  BY <1>8
<1>12. RoomIInv'
  BY <1>1, <1>7, <1>8, <1>9, <1>10, <1>11, RoomChanges
<1>13. Follows(o, Gone)
  BY GoneFollows
<1> QED
  BY <1>2, <1>7, <1>12, <1>13 DEF OneRoom

-----------------------------------------------------------------------------
(* The room theorems.                                                      *)

LEMMA RoomInit == InitRaceRoom => RoomIInv
<1> SUFFICES ASSUME InitRaceRoom PROVE RoomIInv
  OBVIOUS
<1>1. /\ seat = [d \in Drivers |-> Away] /\ place = [d \in Drivers |-> Away]
      /\ room = [r \in Rooms |-> Fresh]
  BY DEF InitRaceRoom
<1>2. \A r \in Rooms : room[r] = Fresh
  BY <1>1
<1>3. PlacesOK
  BY <1>1 DEF PlacesOK
<1>4. GridOK(Fresh) /\ ReportOK(Fresh) /\ Orderly(Fresh)
  BY FreshShape, EmptyIsOK
<1>5. room \in [Rooms -> Instance]
  BY <1>1, FreshShape
<1>6. Len(Fresh.racers) = 0
  BY FreshShape
<1>7. \A r \in Rooms : OnTheGrid(r)
  BY <1>2, <1>6 DEF OnTheGrid
<1> QED
  BY <1>2, <1>3, <1>4, <1>5, <1>7 DEF RoomIInv

LEMMA RoomStep ==
  ASSUME RoomIInv, NextRaceRoom
  PROVE  RoomIInv' /\ OneRoom
<1>1. CASE \E d \in Drivers : OnJoin(d)
  BY <1>1, OnJoinStep
<1>2. CASE \E d \in Drivers : SeatExpires(d)
  BY <1>2, SeatExpiresStep
<1>3. CASE \E d \in Drivers : Ready(d)
  BY <1>3, ReadyStep
<1>4. CASE \E d \in Drivers : OnLeave(d)
  BY <1>4, OnLeaveStep
<1>5. CASE \E d \in Drivers, r \in Rooms : JoinOrCreate(d, r)
  BY <1>5, JoinOrCreateStep
<1>6. CASE \E r \in Rooms : GreenLight(r)
  BY <1>6, GreenLightStep
<1>7. CASE \E r \in Rooms : SimTick(r)
  BY <1>7, SimTickStep
<1>8. CASE \E r \in Rooms : Disconnect(r)
  BY <1>8, DisconnectStep
<1> QED
  BY <1>1, <1>2, <1>3, <1>4, <1>5, <1>6, <1>7, <1>8 DEF NextRaceRoom

\* The inductive invariant holds in every state of the rooms.
THEOREM RoomInvariant == SpecRaceRoom => []RoomIInv
<1>1. RoomIInv /\ UNCHANGED roomVars => RoomIInv'
  BY DEF roomVars, RoomIInv, PlacesOK, OnTheGrid, GridOK, ReportOK, Orderly, SlotsDiffer,
     InOrder, OncePerPlayer
<1>2. RoomIInv /\ [NextRaceRoom]_roomVars => RoomIInv'
  BY <1>1, RoomStep
<1> QED
  BY <1>2, RoomInit, PTL DEF SpecRaceRoom

\* A room's own report passes the API's checks.
LEMMA HonestPasses ==
  ASSUME NEW o \in Instance, GridOK(o), ReportOK(o), o.report # <<>>, o.clock >= MinRace,
         \A i \in DOMAIN o.report : /\ o.report[i].finish # 0 => o.report[i].finish >= MinRace
                                   /\ o.report[i].drift <= Ceiling * o.clock
  PROVE  Verify(o.report, o.clock)
<1>1. PICK e \in Seq(Line), t \in Nat : e = o.report /\ t = o.clock
  BY InstanceShape
<1>2. PICK n \in Nat : n = Len(e) /\ DOMAIN e = 1..n
  OBVIOUS
<1>3. PICK M \in Nat, P \in Nat, A \in Nat, B \in Nat, C \in Nat :
        /\ M = MinRace /\ P = MaxPlaces /\ A = Late /\ B = WinnerLate /\ C = MaxRacers
        /\ C <= P
  BY Settings
<1>4. \A k \in 1..n : e[k].position \in 1..C /\ e[k].finish <= t
  BY <1>1, <1>2, <1>3 DEF ReportOK
<1>5. \A k, l \in 1..n : e[k].position = e[l].position => k = l
  BY <1>1, <1>2 DEF ReportOK
<1>6. \A k \in 1..n : e[k].finish \in Nat /\ e[k].position \in Nat
  <2>1. \A k \in 1..n : e[k] \in Line
    BY <1>2
  <2> QED
    BY <2>1 DEF Line
<1>7. \A k \in 1..n : VerifyEntry(e[k], t)
  <2> SUFFICES ASSUME NEW k \in 1..n PROVE VerifyEntry(e[k], t)
    OBVIOUS
  <2>1. PICK f \in Nat, p \in Nat : /\ f = e[k].finish /\ p = e[k].position
                                   /\ f <= t /\ p \in 1..C
    BY <1>4, <1>6
  <2>2. f # 0 => f \in M..t + A
    BY <2>1, <1>1, <1>2, <1>3
  <2>3. p \in 1..P
    BY <2>1, <1>3
  <2>4. e[k].drift <= Ceiling * t
    BY <1>1, <1>2
  <2> QED
    BY <2>1, <2>2, <2>3, <2>4, <1>3 DEF VerifyEntry
<1>8. \A k \in 1..n : e[k].finish <= t + B
  BY <1>4, <1>6
<1>9. Verify(e, t)
  BY <1>1, <1>2, <1>3, <1>5, <1>7, <1>8 DEF Verify
<1> QED
  BY <1>1, <1>9

\* What the rooms promise to any number of drivers, bots and instances, whoever joins,
\* readies, leaves and finishes when: who is on a grid is there once and is a client of
\* the room, a lobby that nobody has left gives no slot twice and does not wait once all
\* are ready, and the API does not refuse what a room reports, unless the race, or a car's,
\* was too short or a car has drifted to more points than the API's ceiling.
THEOREM RoomsAreInOrder == SpecRaceRoom => []RaceRoomInv
<1>1. RoomIInv => RaceRoomInv
  <2> SUFFICES ASSUME RoomIInv PROVE RaceRoomInv
    OBVIOUS
  <2>1. PlacesOK
    BY DEF RoomIInv
  <2>2. ASSUME NEW r \in Rooms
        PROVE  /\ room[r].phase \in Range(Phases) /\ Len(room[r].racers) <= MaxRacers
               /\ \A i, j \in DOMAIN room[r].racers :
                    room[r].racers[i].who = room[r].racers[j].who => i = j
               /\ \A i \in DOMAIN room[r].racers :
                    room[r].racers[i].who \in Drivers => place[room[r].racers[i].who] = r
    <3>1. room[r] \in Instance /\ GridOK(room[r])
      BY RoomFacts
    <3>2. DOMAIN room[r].racers = 1..Len(room[r].racers) /\ room[r].phase \in PhaseNames
      BY <3>1, InstanceShape
    <3>3. room[r].phase \in Range(Phases)
      BY <3>2, PhaseOrder DEF Range
    <3>4. Len(room[r].racers) <= MaxRacers
      BY <3>1 DEF GridOK
    <3>5. \A i, j \in DOMAIN room[r].racers :
            room[r].racers[i].who = room[r].racers[j].who => i = j
      BY <3>1, <3>2 DEF GridOK, OncePerPlayer
    <3>6. \A i \in DOMAIN room[r].racers :
            room[r].racers[i].who \in Drivers => place[room[r].racers[i].who] = r
      BY <3>2, RoomFacts
    <3> QED
      BY <3>3, <3>4, <3>5, <3>6
  <2>3. RaceRoomTypeOK
    BY <2>1, <2>2 DEF RaceRoomTypeOK, PlacesOK
  <2>4. \A r \in Rooms \ quitters :
          Orderly(room[r]) /\ DOMAIN room[r].racers = 1..Len(room[r].racers)
    BY RoomFacts, InstanceShape
  <2>5. GridSlots
    BY <2>4 DEF GridSlots, Orderly, SlotsDiffer
  <2>6. ReadyLobbyStarts
    <3> SUFFICES ASSUME NEW r \in Rooms \ quitters, room[r].phase = "WAITING",
                        room[r].racers # <<>>
                 PROVE  \E i \in DOMAIN room[r].racers : ~room[r].racers[i].ready
      BY DEF ReadyLobbyStarts
    <3>1. PICK i \in DOMAIN room[r].racers : room[r].racers[i].ready = FALSE
      BY <2>4 DEF Orderly
    <3> QED
      BY <3>1
  <2>7. HonestReportPasses
    <3> SUFFICES ASSUME NEW r \in Rooms, room[r].report # <<>>, room[r].clock >= MinRace,
                        \A i \in DOMAIN room[r].report :
                          /\ room[r].report[i].finish # 0 => room[r].report[i].finish >= MinRace
                          /\ room[r].report[i].drift <= Ceiling * room[r].clock
                 PROVE  Verify(room[r].report, room[r].clock)
      BY DEF HonestReportPasses
    <3>1. PICK o \in Instance : o = room[r] /\ GridOK(o) /\ ReportOK(o)
      BY RoomFacts
    <3>2. Verify(o.report, o.clock)
      BY <3>1, HonestPasses
    <3> QED
      BY <3>1, <3>2
  <2> QED
    BY <2>3, <2>5, <2>6, <2>7 DEF RaceRoomInv
<1> QED
  BY <1>1, RoomInvariant, PTL

LEMMA RoomsFollow ==
  ASSUME RoomIInv, NextRaceRoom, NEW r \in Rooms
  PROVE  Follows(room[r], room'[r])
<1>1. PICK q \in Rooms : \E n : room' = [room EXCEPT ![q] = n] /\ Follows(room[q], n)
  BY RoomStep DEF OneRoom
<1>5. PICK n : room' = [room EXCEPT ![q] = n] /\ Follows(room[q], n)
  BY <1>1
<1>2. room \in [Rooms -> Instance]
  BY DEF RoomIInv
<1>3. CASE r = q
  <2>1. room'[r] = n
    BY <1>5, <1>2, <1>3
  <2> QED
    BY <2>1, <1>5, <1>3
<1>4. CASE r # q
  <2>1. room'[r] = room[r]
    BY <1>5, <1>2, <1>4
  <2>2. PICK o \in Instance : o = room[r]
    BY <1>2
  <2>3. Follows(o, o)
    BY InstanceShape, StaysForward
  <2> QED
    BY <2>1, <2>2, <2>3
<1> QED
  BY <1>3, <1>4

\* The grid of a room is closed at the countdown, and when its race is over the report
\* has every human of the grid once, at a place between the cars that were faster and
\* those that were as fast, in every step and however the others join, leave and finish.
THEOREM RacesAreFair == SpecRaceRoom => RaceIsFair
<1> DEFINE Closed == \A r \in Rooms :
             /\ \E i, j \in DOMAIN Phases :
                  i <= j /\ Phases[i] = room[r].phase /\ Phases[j] = room'[r].phase
             /\ room[r].phase \notin {"none", "WAITING"} =>
                  \A i \in DOMAIN room'[r].racers : In(room[r].racers, room'[r].racers[i].who)
           Reported == \A r \in Rooms :
             room'[r].phase = "FINISHED" /\ room[r].phase = "RACING" =>
               LET cars == room'[r].racers  entries == room'[r].report IN
               /\ Len(entries) = Cardinality({i \in DOMAIN cars : cars[i].who \in Drivers})
               /\ \A i \in DOMAIN entries : \E j \in DOMAIN cars :
                    /\ cars[j].who = entries[i].who
                    /\ LET ahead == {k \in DOMAIN cars :
                             cars[k].finish > 0
                               /\ (cars[j].finish = 0 \/ cars[k].finish < cars[j].finish)}
                       IN Cardinality(ahead) < entries[i].position
                    /\ cars[j].finish > 0 => entries[i].position <=
                         Cardinality({k \in DOMAIN cars :
                           cars[k].finish > 0 /\ cars[k].finish <= cars[j].finish})
<1>1. ASSUME RoomIInv, NextRaceRoom PROVE Closed /\ Reported
  <2>1. \A r \in Rooms : Forward(room[r], room'[r])
    BY <1>1, RoomsFollow DEF Follows
  <2>2. Closed
    BY <2>1 DEF Forward
  <2>3. \A r \in Rooms : room'[r].phase = "FINISHED" /\ room[r].phase = "RACING" =>
          Fair(room'[r].racers, room'[r].report)
    BY <1>1, RoomsFollow DEF Follows
  <2>4. Reported
    BY <2>3, Zenon DEF Fair
  <2> QED
    BY <2>2, <2>4
<1>2. RoomIInv /\ [NextRaceRoom]_roomVars => [Closed]_roomVars /\ [Reported]_roomVars
  BY <1>1
<1> QED
  BY <1>2, RoomInvariant, PTL DEF SpecRaceRoom, RaceIsFair, GridIsClosed, ReportIsFair
=============================================================================
