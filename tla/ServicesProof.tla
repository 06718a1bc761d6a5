--------------------------- MODULE ServicesProof ----------------------------
(* The theorems about Linking, Custody, Community, Account, Tournament,      *)
(* XlmPanel and Market: for every number of users, wallets, servers, tabs,   *)
(* members, entrants, calls, accounts, payments, traders, cars and listings, *)
(* every bracket and fee, with answers lost and processes that die.          *)
EXTENDS Account, Community, Custody, Linking, Market, Tournament, XlmPanel, FiniteSetTheorems, TLAPS

\* Sets of one element at most.
LEMMA AtMostOne ==
  ASSUME NEW S, \A x, y \in S : x = y
  PROVE  IsFiniteSet(S) /\ Cardinality(S) <= 1
<1>1. CASE S = {}
  BY <1>1, FS_EmptySet
<1>2. CASE S # {}
  <2>1. PICK x : x \in S
    BY <1>2
  <2>2. S = {x}
    BY <2>1
  <2>3. IsFiniteSet({x}) /\ Cardinality({x}) = 1
    BY FS_Singleton
  <2> QED
    BY <2>2, <2>3
<1> QED
  BY <1>1, <1>2

-----------------------------------------------------------------------------
(* Linked wallets: the inductive invariant.                                *)

NoLink == [at |-> "idle"]
LinkCall == [at : {"take", "look", "write", "linked", "refused"}, user : Users,
             key : WalletKeys, challenge : 1..MaxChallenges, signed : BOOLEAN]

LinkTypeOK ==
  /\ \E k \in 0..MaxChallenges : issuedTo \in [1..k -> Users]
  /\ pending \in [Users -> {0} \cup Challenges]
  /\ linkedBy \in [WalletKeys -> Users \cup {NoUser}]
  /\ link \in [Links -> {NoLink} \cup LinkCall]
  /\ takenBy \in [1..MaxChallenges -> SUBSET Links]

\* A challenge that waits was taken by nobody, and one that was taken was taken once,
\* by a call for its user.
ChallengeOK ==
  /\ \A u \in Users : pending[u] # 0 => issuedTo[pending[u]] = u /\ takenBy[pending[u]] = {}
  /\ \A n \in 1..MaxChallenges :
       /\ n \notin Challenges => takenBy[n] = {}
       /\ \A c, d \in takenBy[n] : c = d
       /\ \A c \in takenBy[n] :
            link[c].at \in {"look", "write", "linked", "refused"} /\ link[c].user = issuedTo[n]
  /\ \A c \in Links : link[c].at \in {"look", "write", "linked"} =>
       link[c].challenge \in Challenges /\ c \in takenBy[link[c].challenge]

\* A row is the doing of a call that said so.
RowsOfLinked == \A k \in WalletKeys : linkedBy[k] # NoUser =>
  \E c \in Links : Is(c, "linked") /\ link[c].user = linkedBy[k] /\ link[c].key = k

LIInv == LinkTypeOK /\ ChallengeOK /\ RowsOfLinked /\ LinkedHasRow

\* A call on its way has the shape of one.
LEMMA LinkShape ==
  ASSUME LinkTypeOK, NEW c \in Links, ~Is(c, "idle")
  PROVE  /\ link[c] \in LinkCall /\ link[c].user \in Users /\ link[c].key \in WalletKeys
         /\ link[c].challenge \in 1..MaxChallenges
BY DEF LinkTypeOK, LinkCall, NoLink, Is

\* A call goes on as what it was.
LEMMA LinkGoes ==
  ASSUME LinkTypeOK, NEW c \in Links, ~Is(c, "idle"),
         NEW x \in {"look", "write", "linked", "refused"}, To(c, x)
  PROVE  /\ link' \in [Links -> {NoLink} \cup LinkCall]
         /\ \A d \in Links : link'[d].at = IF d = c THEN x ELSE link[d].at
         /\ \A d \in Links : d # c => link'[d] = link[d]
         /\ link'[c].user = link[c].user /\ link'[c].key = link[c].key
         /\ link'[c].challenge = link[c].challenge
<1>1. link[c] \in LinkCall
  BY LinkShape
<1>2. link' = [link EXCEPT ![c] = [link[c] EXCEPT !.at = x]]
  BY DEF To, LinkTypeOK
<1>3. [link[c] EXCEPT !.at = x] \in LinkCall
  BY <1>1 DEF LinkCall
<1> QED
  BY <1>1, <1>2, <1>3 DEF LinkTypeOK, LinkCall

LEMMA ChallengesKnown ==
  ASSUME LinkTypeOK
  PROVE  /\ Challenges = 1..Cardinality(Challenges) /\ Cardinality(Challenges) \in 0..MaxChallenges
         /\ issuedTo \in [Challenges -> Users] /\ Challenges \subseteq 1..MaxChallenges
<1>1. PICK k \in 0..MaxChallenges : issuedTo \in [1..k -> Users]
  BY DEF LinkTypeOK
<1>2. k \in Nat /\ MaxChallenges \in Nat
  BY LinkingAssumption
<1>3. Cardinality(1..k) = k
  BY <1>2, FS_Interval
<1> QED
  BY <1>1, <1>2, <1>3 DEF Challenges

\* A step that takes no challenge, and lets no call past one.
LEMMA ChallengesKept ==
  ASSUME LinkTypeOK, ChallengeOK, UNCHANGED <<issuedTo, takenBy>>,
         \A u \in Users : pending'[u] \in {0, pending[u]},
         \A c \in Links : link[c].at # "idle" =>
           link'[c].user = link[c].user /\ link'[c].challenge = link[c].challenge,
         \A c \in Links : link[c].at \in {"look", "write", "linked", "refused"} =>
           link'[c].at \in {"look", "write", "linked", "refused"},
         \A c \in Links : link'[c].at \in {"look", "write", "linked"} =>
           link[c].at \in {"look", "write", "linked"}
  PROVE  ChallengeOK'
<1>1. Challenges' = Challenges
  BY DEF Challenges
<1>2. \A u \in Users : pending'[u] # 0 => issuedTo[pending'[u]] = u /\ takenBy[pending'[u]] = {}
  BY DEF ChallengeOK
<1>3. \A n \in 1..MaxChallenges : \A c \in takenBy[n] :
        link'[c].at \in {"look", "write", "linked", "refused"} /\ link'[c].user = issuedTo[n]
  <2> SUFFICES ASSUME NEW n \in 1..MaxChallenges, NEW c \in takenBy[n]
               PROVE  link'[c].at \in {"look", "write", "linked", "refused"} /\ link'[c].user = issuedTo[n]
    OBVIOUS
  <2>1. c \in Links
    BY DEF LinkTypeOK
  <2> QED
    BY <2>1 DEF ChallengeOK
<1>4. \A c \in Links : link'[c].at \in {"look", "write", "linked"} =>
        link'[c].challenge \in Challenges /\ c \in takenBy[link'[c].challenge]
  BY DEF ChallengeOK
<1> QED
  BY <1>1, <1>2, <1>3, <1>4 DEF ChallengeOK

LEMMA GetChallengeStep ==
  ASSUME LIInv, NEW u \in Users, GetChallenge(u)
  PROVE  LIInv'
<1> USE DEF LIInv
<1>1. PICK n : n = Cardinality(Challenges) + 1
  OBVIOUS
<1>2. /\ Challenges = 1..(n - 1) /\ n \in 1..MaxChallenges /\ issuedTo \in [Challenges -> Users]
  BY <1>1, ChallengesKnown, LinkingAssumption DEF GetChallenge
<1>3. /\ issuedTo' = [m \in 1..n |-> IF m = n THEN u ELSE issuedTo[m]]
      /\ pending' = [pending EXCEPT ![u] = n]
      /\ UNCHANGED <<linkedBy, link, takenBy, unlinked>>
  BY <1>1 DEF GetChallenge
<1>4. /\ Challenges' = 1..n /\ n \notin Challenges /\ Challenges \subseteq 1..n
      /\ issuedTo' \in [1..n -> Users] /\ \A m \in Challenges : issuedTo'[m] = issuedTo[m]
      /\ issuedTo'[n] = u
  BY <1>2, <1>3 DEF Challenges
<1>5. \A v \in Users : pending'[v] = IF v = u THEN n ELSE pending[v]
  BY <1>3 DEF LinkTypeOK
<1>6. LinkTypeOK'
  BY <1>2, <1>3, <1>4, <1>5 DEF LinkTypeOK
<1>7. ChallengeOK'
  <2>1. ASSUME NEW v \in Users, pending'[v] # 0
        PROVE  issuedTo'[pending'[v]] = v /\ takenBy[pending'[v]] = {}
    <3>1. CASE v = u
      BY <1>2, <1>4, <1>5, <3>1 DEF ChallengeOK
    <3>2. CASE v # u
      <4>1. pending'[v] = pending[v] /\ pending[v] \in Challenges
        BY <1>5, <2>1, <3>2 DEF LinkTypeOK
      <4>2. issuedTo[pending[v]] = v /\ takenBy[pending[v]] = {}
        BY <2>1, <4>1 DEF ChallengeOK
      <4>3. issuedTo'[pending[v]] = issuedTo[pending[v]]
        BY <1>4, <4>1
      <4> QED
        BY <4>1, <4>2, <4>3
    <3> QED
      BY <3>1, <3>2
  <2>2. \A m \in 1..MaxChallenges : m \notin 1..n => m \notin Challenges
    BY <1>4
  <2>3. \A m \in 1..MaxChallenges : \A c \in takenBy[m] :
          link[c].at \in {"look", "write", "linked", "refused"} /\ link[c].user = issuedTo'[m]
    BY <1>4 DEF ChallengeOK
  <2>4. \A c \in Links : link[c].at \in {"look", "write", "linked"} =>
          link[c].challenge \in 1..n /\ c \in takenBy[link[c].challenge]
    BY <1>4 DEF ChallengeOK
  <2>5. \A m \in 1..MaxChallenges :
          (m \notin 1..n => takenBy[m] = {}) /\ \A c, d \in takenBy[m] : c = d
    BY <2>2 DEF ChallengeOK
  <2>6. UNCHANGED <<takenBy, link>>
    BY <1>3
  <2> HIDE DEF LIInv
  <2> QED
    BY <1>4, <2>1, <2>3, <2>4, <2>5, <2>6 DEF ChallengeOK
<1>8. RowsOfLinked' /\ LinkedHasRow'
  BY <1>3 DEF RowsOfLinked, LinkedHasRow, Is
<1> QED
  BY <1>6, <1>7, <1>8

LEMMA ExpiryStep ==
  ASSUME LIInv, NEW u \in Users, ChallengeExpires(u)
  PROVE  LIInv'
<1> USE DEF LIInv
<1>1. /\ \A v \in Users : pending'[v] = IF v = u THEN 0 ELSE pending[v]
      /\ UNCHANGED <<issuedTo, linkedBy, link, takenBy, unlinked>>
  BY DEF ChallengeExpires, LinkTypeOK
<1>2. LinkTypeOK'
  BY <1>1 DEF ChallengeExpires, LinkTypeOK, Challenges
<1> QED
  BY <1>1, <1>2 DEF ChallengeOK, RowsOfLinked, LinkedHasRow, Is, Challenges

LEMMA LinkWalletStep ==
  ASSUME LIInv, NEW c \in Links, NEW u \in Users, NEW k \in WalletKeys, NEW n \in Challenges,
         NEW signed \in BOOLEAN, LinkWallet(c, u, k, n, signed)
  PROVE  LIInv'
<1> USE DEF LIInv
<1> DEFINE call0 == [at |-> "take", user |-> u, key |-> k, challenge |-> n, signed |-> signed]
<1>1. call0 \in LinkCall /\ call0.at = "take"
  BY ChallengesKnown DEF LinkCall
<1> HIDE DEF call0
<1>2. /\ \A d \in Links : link'[d] = IF d = c THEN call0 ELSE link[d]
      /\ link' \in [Links -> {NoLink} \cup LinkCall]
      /\ link[c].at = "idle"
      /\ UNCHANGED <<pending, issuedTo, linkedBy, takenBy, unlinked>>
  BY <1>1 DEF LinkWallet, LinkTypeOK, call0
<1>3. LinkTypeOK'
  BY <1>2 DEF LinkTypeOK, Challenges
<1>4. \A m \in 1..MaxChallenges : c \notin takenBy[m]
  BY <1>2 DEF ChallengeOK
<1>5. ChallengeOK'
  <2>1. Challenges' = Challenges
    BY <1>2 DEF Challenges
  <2>2. \A d \in Links : link'[d].at \in {"look", "write", "linked", "refused"} => link'[d] = link[d]
    BY <1>1, <1>2
  <2>3. ASSUME NEW d \in Links, link'[d].at \in {"look", "write", "linked"}
        PROVE  link'[d].challenge \in Challenges /\ d \in takenBy[link'[d].challenge]
    BY <2>2, <2>3 DEF ChallengeOK
  <2>4. ASSUME NEW m \in 1..MaxChallenges, NEW d \in takenBy[m]
        PROVE  link'[d].at \in {"look", "write", "linked", "refused"} /\ link'[d].user = issuedTo[m]
    <3>1. d \in Links /\ d # c
      BY <1>4 DEF LinkTypeOK
    <3> QED
      BY <3>1, <1>2, <2>4 DEF ChallengeOK
  <2> QED
    BY <1>2, <2>1, <2>3, <2>4 DEF ChallengeOK
<1>6. RowsOfLinked'
  BY <1>1, <1>2 DEF RowsOfLinked, Is
<1>7. LinkedHasRow'
  BY <1>1, <1>2 DEF LinkedHasRow, Is
<1> QED
  BY <1>3, <1>5, <1>6, <1>7

LEMMA TakeStep ==
  ASSUME LIInv, NEW c \in Links, Take(c)
  PROVE  LIInv'
<1> USE DEF LIInv
<1>0. PICK u, n : u = link[c].user /\ n = link[c].challenge
  OBVIOUS
<1>1. /\ link[c].at = "take" /\ ~Is(c, "idle") /\ u \in Users /\ n \in 1..MaxChallenges
      /\ \A m \in 1..MaxChallenges : c \notin takenBy[m]
      /\ UNCHANGED <<issuedTo, linkedBy, unlinked>>
      /\ pending' = [pending EXCEPT ![u] = 0]
  BY <1>0, LinkShape DEF Take, Is, TakeOnce, ChallengeOK
<1>2. \A v \in Users : pending'[v] = IF v = u THEN 0 ELSE pending[v]
  BY <1>1 DEF LinkTypeOK
<1>3. CASE pending[u] = n /\ link[c].signed
  <2>1. To(c, "look") /\ takenBy' = [takenBy EXCEPT ![n] = @ \cup {c}]
    BY <1>0, <1>3 DEF Take
  <2>2. /\ link' \in [Links -> {NoLink} \cup LinkCall]
        /\ \A d \in Links : link'[d].at = IF d = c THEN "look" ELSE link[d].at
        /\ \A d \in Links : d # c => link'[d] = link[d]
        /\ link'[c].user = u /\ link'[c].key = link[c].key /\ link'[c].challenge = n
    BY <1>0, <1>1, <2>1, LinkGoes
  <2>3. /\ \A m \in 1..MaxChallenges : takenBy'[m] = IF m = n THEN {c} ELSE takenBy[m]
        /\ takenBy' \in [1..MaxChallenges -> SUBSET Links]
    <3>1. takenBy[n] = {}
      BY <1>1, <1>3 DEF ChallengeOK
    <3> QED
      BY <1>1, <2>1, <3>1 DEF LinkTypeOK
  <2>4. n \in Challenges /\ issuedTo[n] = u /\ n # 0
    BY <1>1, <1>3 DEF LinkTypeOK, ChallengeOK
  <2>5. LinkTypeOK'
    BY <1>1, <2>2, <2>3 DEF LinkTypeOK, Challenges
  <2>6. ASSUME NEW v \in Users, pending'[v] # 0
        PROVE  issuedTo[pending'[v]] = v /\ takenBy'[pending'[v]] = {}
    <3>1. v # u /\ pending'[v] = pending[v]
      BY <1>2, <2>6
    <3>2. pending[v] \in Challenges /\ issuedTo[pending[v]] = v /\ takenBy[pending[v]] = {}
      BY <2>6, <3>1 DEF LinkTypeOK, ChallengeOK
    <3>3. pending[v] # n /\ pending[v] \in 1..MaxChallenges
      BY <2>4, <3>1, <3>2, ChallengesKnown
    <3> QED
      BY <2>3, <3>1, <3>2, <3>3
  <2>7. ASSUME NEW m \in 1..MaxChallenges
        PROVE  /\ m \notin Challenges => takenBy'[m] = {}
               /\ \A d, e \in takenBy'[m] : d = e
               /\ \A d \in takenBy'[m] :
                    link'[d].at \in {"look", "write", "linked", "refused"} /\ link'[d].user = issuedTo[m]
    <3>1. CASE m = n
      BY <2>2, <2>3, <2>4, <3>1
    <3>2. CASE m # n
      <4>1. takenBy'[m] = takenBy[m] /\ takenBy[m] \subseteq Links /\ c \notin takenBy[m]
        BY <1>1, <2>3, <3>2 DEF LinkTypeOK
      <4>2. \A d \in takenBy[m] : link'[d] = link[d]
        BY <2>2, <4>1
      <4> QED
        BY <4>1, <4>2 DEF ChallengeOK
    <3> QED
      BY <3>1, <3>2
  <2>8. ASSUME NEW d \in Links, link'[d].at \in {"look", "write", "linked"}
        PROVE  link'[d].challenge \in Challenges /\ d \in takenBy'[link'[d].challenge]
    <3>1. CASE d = c
      BY <1>1, <2>2, <2>3, <2>4, <3>1
    <3>2. CASE d # c
      <4>1. link'[d] = link[d] /\ link[d].challenge \in Challenges /\ d \in takenBy[link[d].challenge]
        BY <2>2, <2>8, <3>2 DEF ChallengeOK
      <4>2. link[d].challenge \in 1..MaxChallenges
        BY <4>1, ChallengesKnown
      <4>3. takenBy[n] = {}
        BY <1>1, <1>3 DEF ChallengeOK
      <4> QED
        BY <2>3, <4>1, <4>2, <4>3
    <3> QED
      BY <3>1, <3>2
  <2>9. ChallengeOK'
    BY <1>1, <2>6, <2>7, <2>8 DEF ChallengeOK, Challenges
  <2>10. RowsOfLinked' /\ LinkedHasRow'
    BY <1>1, <2>2 DEF RowsOfLinked, LinkedHasRow, Is
  <2> QED
    BY <2>5, <2>9, <2>10
<1>4. CASE ~(pending[u] = n /\ link[c].signed)
  <2>1. To(c, "refused") /\ UNCHANGED takenBy
    BY <1>0, <1>4 DEF Take
  <2>2. /\ link' \in [Links -> {NoLink} \cup LinkCall]
        /\ \A d \in Links : link'[d].at = IF d = c THEN "refused" ELSE link[d].at
        /\ \A d \in Links : d # c => link'[d] = link[d]
        /\ link'[c].user = u /\ link'[c].key = link[c].key /\ link'[c].challenge = n
    BY <1>0, <1>1, <2>1, LinkGoes
  <2>3. LinkTypeOK'
    BY <1>1, <2>1, <2>2 DEF LinkTypeOK, Challenges
  <2>4. ChallengeOK'
    BY <1>0, <1>1, <1>2, <2>1, <2>2, ChallengesKept
  <2>5. RowsOfLinked' /\ LinkedHasRow'
    BY <1>1, <2>2 DEF RowsOfLinked, LinkedHasRow, Is
  <2> QED
    BY <2>3, <2>4, <2>5
<1> QED
  BY <1>3, <1>4

LEMMA LookStep ==
  ASSUME LIInv, NEW c \in Links, Look(c)
  PROVE  LIInv'
<1> USE DEF LIInv
<1>1. PICK x \in {"write", "refused"} : To(c, x)
  BY DEF Look
<1>2. /\ link[c].at = "look" /\ ~Is(c, "idle")
      /\ UNCHANGED <<pending, issuedTo, linkedBy, takenBy, unlinked>>
  BY DEF Look, Is
<1>3. /\ link' \in [Links -> {NoLink} \cup LinkCall]
      /\ \A d \in Links : link'[d].at = IF d = c THEN x ELSE link[d].at
      /\ \A d \in Links : d # c => link'[d] = link[d]
      /\ link'[c].user = link[c].user /\ link'[c].key = link[c].key
      /\ link'[c].challenge = link[c].challenge
  BY <1>1, <1>2, LinkGoes
<1>4. LinkTypeOK'
  BY <1>2, <1>3 DEF LinkTypeOK, Challenges
<1>5. ChallengeOK'
  BY <1>2, <1>3, ChallengesKept
<1>6. RowsOfLinked' /\ LinkedHasRow'
  BY <1>2, <1>3 DEF RowsOfLinked, LinkedHasRow, Is
<1> QED
  BY <1>4, <1>5, <1>6

\* The row is the caller's, or was there: then somebody else was told so as well.
LEMMA WriteLinkStep ==
  ASSUME LIInv, NEW c \in Links, WriteLink(c)
  PROVE  LIInv'
<1> USE DEF LIInv
<1>0. PICK u, k : u = link[c].user /\ k = link[c].key
  OBVIOUS
<1>1. /\ link[c].at = "write" /\ ~Is(c, "idle") /\ To(c, "linked") /\ u \in Users /\ k \in WalletKeys
      /\ linkedBy' = [linkedBy EXCEPT ![k] = IF @ = NoUser THEN u ELSE @]
      /\ UNCHANGED <<pending, issuedTo, takenBy, unlinked>>
  BY <1>0, LinkShape DEF WriteLink, Is
<1>2. /\ link' \in [Links -> {NoLink} \cup LinkCall]
      /\ \A d \in Links : link'[d].at = IF d = c THEN "linked" ELSE link[d].at
      /\ \A d \in Links : d # c => link'[d] = link[d]
      /\ link'[c].user = u /\ link'[c].key = k /\ link'[c].challenge = link[c].challenge
  BY <1>0, <1>1, LinkGoes
<1>3. \A j \in WalletKeys : linkedBy'[j] = IF j = k /\ linkedBy[k] = NoUser THEN u ELSE linkedBy[j]
  BY <1>1 DEF LinkTypeOK
<1>4. LinkTypeOK'
  <2>1. linkedBy' \in [WalletKeys -> Users \cup {NoUser}]
    BY <1>1 DEF LinkTypeOK
  <2> QED
    BY <1>1, <1>2, <2>1 DEF LinkTypeOK, Challenges
<1>5. ChallengeOK'
  BY <1>0, <1>1, <1>2, ChallengesKept
<1>6. RowsOfLinked'
  <2> SUFFICES ASSUME NEW j \in WalletKeys, linkedBy'[j] # NoUser
               PROVE  \E d \in Links : Is(d, "linked")' /\ link'[d].user = linkedBy'[j] /\ link'[d].key = j
    BY DEF RowsOfLinked
  <2>1. CASE j = k /\ linkedBy[k] = NoUser
    BY <1>2, <1>3, <2>1 DEF Is
  <2>2. CASE ~(j = k /\ linkedBy[k] = NoUser)
    <3>1. PICK d \in Links : link[d].at = "linked" /\ link[d].user = linkedBy[j] /\ link[d].key = j
      BY <1>3, <2>2 DEF RowsOfLinked, Is
    <3> QED
      BY <1>1, <1>2, <1>3, <2>2, <3>1 DEF Is
  <2> QED
    BY <2>1, <2>2
<1>7. LinkedHasRow'
  <2> SUFFICES ASSUME NEW d \in Links, link'[d].at = "linked", linkedBy'[link'[d].key] # link'[d].user
               PROVE  \/ link'[d].key \in unlinked
                      \/ \E e \in Links \ {d} : /\ link'[e].at = "linked" /\ link'[e].key = link'[d].key
                                               /\ link'[e].user # link'[d].user
    BY <1>1 DEF LinkedHasRow, Is
  <2>1. CASE d = c
    <3>1. linkedBy[k] # NoUser /\ linkedBy[k] # u
      BY <1>1, <1>2, <1>3, <2>1
    <3>2. PICK e \in Links : link[e].at = "linked" /\ link[e].user = linkedBy[k] /\ link[e].key = k
      BY <1>1, <3>1 DEF RowsOfLinked, Is
    <3> QED
      BY <1>1, <1>2, <2>1, <3>1, <3>2
  <2>2. CASE d # c
    <3>1. link[d].at = "linked" /\ link[d] = link'[d] /\ link[d].key \in WalletKeys /\ link[d].user \in Users
      BY <1>2, <2>2, LinkShape DEF Is
    <3>2. linkedBy[link[d].key] # link[d].user
      BY <1>3, <3>1, LinkingAssumption
    <3> QED
      BY <1>1, <1>2, <3>1, <3>2 DEF LinkedHasRow, Is
  <2> QED
    BY <2>1, <2>2
<1> QED
  BY <1>4, <1>5, <1>6, <1>7

LEMMA UnlinkStep ==
  ASSUME LIInv, NEW u \in Users, NEW k \in WalletKeys, UnlinkWallet(u, k)
  PROVE  LIInv'
<1> USE DEF LIInv
<1>1. /\ \A j \in WalletKeys : linkedBy'[j] = IF j = k THEN NoUser ELSE linkedBy[j]
      /\ unlinked' = unlinked \cup {k} /\ UNCHANGED <<pending, issuedTo, link, takenBy>>
  BY DEF UnlinkWallet, LinkTypeOK
<1>2. LinkTypeOK'
  BY <1>1 DEF UnlinkWallet, LinkTypeOK, Challenges
<1>3. ChallengeOK'
  BY <1>1 DEF ChallengeOK, Challenges
<1>4. RowsOfLinked'
  BY <1>1 DEF RowsOfLinked, Is
<1>5. LinkedHasRow'
  BY <1>1, LinkShape DEF LinkedHasRow, Is
<1> QED
  BY <1>2, <1>3, <1>4, <1>5

LEMMA LinkingInit == InitLinking => LIInv
<1> SUFFICES ASSUME InitLinking PROVE LIInv
  OBVIOUS
<1> USE DEF InitLinking
<1>1. DOMAIN issuedTo = {} /\ issuedTo \in [1..0 -> Users] /\ 0 \in 0..MaxChallenges
  BY LinkingAssumption
<1>2. LinkTypeOK
  BY <1>1 DEF LinkTypeOK, NoLink, Challenges
<1> QED
  BY <1>1, <1>2 DEF LIInv, ChallengeOK, RowsOfLinked, LinkedHasRow, Is, Challenges

LEMMA LinkingStays == LIInv /\ [NextLinking]_linkingVars => LIInv'
<1> SUFFICES ASSUME LIInv, [NextLinking]_linkingVars PROVE LIInv'
  OBVIOUS
<1>1. CASE UNCHANGED linkingVars
  BY <1>1 DEF linkingVars, LIInv, LinkTypeOK, ChallengeOK, RowsOfLinked, LinkedHasRow, Is, Challenges
<1> QED
  BY <1>1, GetChallengeStep, ExpiryStep, LinkWalletStep, TakeStep, LookStep, WriteLinkStep, UnlinkStep
     DEF NextLinking

\* One signature links once and for its user, a row is somebody's who signed for it,
\* and who is told that a key is linked has its row, unless it was removed or another
\* was linking it as well: for any number of users, keys, calls and challenges.
THEOREM LinkingIsSound == SpecLinking => []LinkingInv
<1>1. LIInv => LinkingInv
  <2> SUFFICES ASSUME LIInv PROVE LinkingInv
    OBVIOUS
  <2>1. OneLinkEach
    BY AtMostOne, ChallengesKnown DEF LIInv, ChallengeOK, OneLinkEach
  <2>2. RowsAreSigned
    BY DEF LIInv, ChallengeOK, RowsOfLinked, RowsAreSigned, Is
  <2> QED
    BY <2>1, <2>2 DEF LIInv, LinkingInv
<1> QED
  BY <1>1, LinkingInit, LinkingStays, PTL DEF SpecLinking

-----------------------------------------------------------------------------
(* Custodial accounts: the inductive invariant.                            *)

JobAt == {"ensure", "fund", "reload", "set trust", "sent trust", "included trust",
          "mint", "set mint", "sent mint", "included mint", "told", "failed"}
NoJob == [at |-> "idle"]
JobCall == [at : JobAt, kind : {"wallet", "airdrop"}, of : Wallets, on : Servers, seq : Nat]

CustodyShapes ==
  /\ account \in [Wallets \cup {Issuer} -> [made : BOOLEAN, seq : Nat, trust : BOOLEAN]]
  /\ cache \in [Servers -> SUBSET Wallets]
  /\ job \in [Jobs -> {NoJob} \cup JobCall]
  /\ sent \subseteq [by : Jobs, from : Wallets \cup {Issuer}, seq : Nat]

\* A trustline is set on accounts that are there.
AccountsOK ==
  /\ account[Issuer].made
  /\ \A w \in Wallets : account[w].trust => account[w].made
  /\ \A j \in Jobs : job[j].at \in {"reload", "set trust", "sent trust"} => account[job[j].of].made

Ready == {"included trust", "told", "mint", "set mint", "sent mint", "included mint"}
TrustedOK == \A j \in Jobs : job[j].at \in Ready => account[job[j].of].trust

\* Only airdrops mint, and one that is answered has minted.
MintsOK ==
  /\ \A j \in Jobs :
       job[j].at = "included mint" \/ (job[j].at = "told" /\ job[j].kind = "airdrop") =>
         \E m \in minted : m.by = j
  /\ \A j \in Jobs : job[j].at \in {"mint", "set mint", "sent mint", "included mint"} =>
       job[j].kind = "airdrop"
  /\ \A m \in minted : m.landed

\* What the network may still include was sent by a call that waits for it or has failed.
SentOK == \A e \in sent :
  /\ job[e.by].at # "idle" /\ account[e.from].made
  /\ e.from # Issuer => e.from = job[e.by].of /\ job[e.by].at \in {"sent trust", "failed"}
  /\ e.from = Issuer => account[job[e.by].of].trust /\ job[e.by].at \in {"sent mint", "failed"}

\* A call sends one transaction at a time, and the next when the one before is included.
OneSent == \A e, f \in sent : e.by = f.by => e = f

CIInv == CustodyShapes /\ AccountsOK /\ CacheIsTrue /\ TrustedOK /\ MintsOK /\ SentOK /\ OneSent

\* A call that goes on is the same call.
LEMMA JobGoes ==
  ASSUME CustodyShapes, NEW j \in Jobs, job[j].at # "idle", NEW x \in JobAt, Go(j, x)
  PROVE  /\ job' \in [Jobs -> {NoJob} \cup JobCall]
         /\ job'[j].at = x /\ job'[j].of = job[j].of /\ job'[j].kind = job[j].kind
         /\ job[j].of \in Wallets /\ job[j].on \in Servers /\ job[j].kind \in {"wallet", "airdrop"}
         /\ \A i \in Jobs : i # j => job'[i] = job[i]
<1>1. job[j] \in JobCall
  BY DEF CustodyShapes, NoJob
<1>2. job' = [job EXCEPT ![j] = [job[j] EXCEPT !.at = x]]
  BY DEF Go, CustodyShapes
<1>3. [job[j] EXCEPT !.at = x] \in JobCall
  BY <1>1 DEF JobCall
<1> QED
  BY <1>1, <1>2, <1>3 DEF CustodyShapes, JobCall

LEMMA JobShape ==
  ASSUME CustodyShapes, NEW j \in Jobs, job[j].at # "idle"
  PROVE  job[j] \in JobCall /\ job[j].of \in Wallets /\ job[j].on \in Servers
<1>1. job[j] \in JobCall
  BY DEF CustodyShapes, NoJob
<1> QED
  BY <1>1 DEF JobCall

\* A step of one call on its own side: the chain at most has one more account.
LEMMA JobSteps ==
  ASSUME CIInv, NEW j \in Jobs, job[j].at \notin {"idle", "sent trust", "sent mint", "failed"},
         UNCHANGED <<minted, sent>>,
         account' \in [Wallets \cup {Issuer} -> [made : BOOLEAN, seq : Nat, trust : BOOLEAN]],
         \A a \in Wallets \cup {Issuer} :
           (account[a].made => account'[a].made) /\ account'[a].trust = account[a].trust,
         cache' \in [Servers -> SUBSET Wallets],
         \A s \in Servers : \A w \in cache'[s] : w \in cache[s] \/ account[w].trust,
         job' \in [Jobs -> {NoJob} \cup JobCall],
         job'[j].at # "idle", job'[j].of = job[j].of, job'[j].kind = job[j].kind,
         \A i \in Jobs : i # j => job'[i] = job[i],
         job'[j].at \in {"reload", "set trust"} => account'[job[j].of].made,
         job'[j].at \notin {"sent trust", "sent mint"},
         job'[j].at \in Ready => account[job[j].of].trust,
         job'[j].at = "told" /\ job[j].kind = "airdrop" => job[j].at = "included mint",
         job'[j].at = "included mint" => job[j].at = "included mint",
         job'[j].at \in {"mint", "set mint"} => job[j].kind = "airdrop"
  PROVE  CIInv'
<1> USE DEF CIInv
<1>1. CustodyShapes' /\ \A i \in Jobs : job[i].at # "idle" => job[i].of \in Wallets
  <2>1. CustodyShapes'
    BY DEF CustodyShapes
  <2> QED
    BY <2>1, JobShape
<1>2. AccountsOK'
  <2>1. ASSUME NEW i \in Jobs, job'[i].at \in {"reload", "set trust", "sent trust"}
        PROVE  account'[job'[i].of].made
    <3>1. CASE i = j
      BY <2>1, <3>1
    <3>2. CASE i # j
      BY <1>1, <2>1, <3>2 DEF AccountsOK
    <3> QED
      BY <3>1, <3>2
  <2> QED
    BY <2>1 DEF AccountsOK
<1>3. CacheIsTrue'
  BY DEF CacheIsTrue, CustodyShapes
<1>4. TrustedOK'
  <2> SUFFICES ASSUME NEW i \in Jobs, job'[i].at \in Ready PROVE account'[job'[i].of].trust
    BY DEF TrustedOK
  <2>1. CASE i = j
    BY <1>1, <2>1
  <2>2. CASE i # j
    BY <1>1, <2>2 DEF TrustedOK, Ready
  <2> QED
    BY <2>1, <2>2
<1>5. MintsOK'
  <2>1. ASSUME NEW i \in Jobs, job'[i].at = "included mint" \/ (job'[i].at = "told" /\ job'[i].kind = "airdrop")
        PROVE  \E m \in minted : m.by = i
    <3>1. CASE i = j
      <4>1. job[j].at = "included mint"
        BY <2>1, <3>1
      <4> QED
        BY <3>1, <4>1 DEF MintsOK
    <3>2. CASE i # j
      <4>1. job'[i] = job[i] /\ MintsOK
        BY <3>2
      <4>2. job[i].at = "included mint" \/ (job[i].at = "told" /\ job[i].kind = "airdrop")
        BY <2>1, <4>1
      <4> QED
        BY <4>1, <4>2 DEF MintsOK
    <3> QED
      BY <3>1, <3>2
  <2>2. ASSUME NEW i \in Jobs, job'[i].at \in {"mint", "set mint", "sent mint", "included mint"}
        PROVE  job'[i].kind = "airdrop"
    <3>1. CASE i = j
      <4>1. job'[j].at \in {"mint", "set mint"} \/ job[j].at = "included mint"
        BY <2>2, <3>1
      <4> QED
        BY <3>1, <4>1 DEF MintsOK
    <3>2. CASE i # j
      <4>1. job'[i] = job[i] /\ MintsOK
        BY <3>2
      <4>2. job[i].at \in {"mint", "set mint", "sent mint", "included mint"}
        BY <2>2, <4>1
      <4>3. job[i].kind = "airdrop"
        BY <4>2 DEF MintsOK
      <4> QED
        BY <4>1, <4>3
    <3> QED
      BY <3>1, <3>2
  <2> QED
    BY <2>1, <2>2 DEF MintsOK
<1>6. SentOK'
  <2> SUFFICES ASSUME NEW e \in sent
               PROVE  /\ job'[e.by].at # "idle" /\ account'[e.from].made
                      /\ e.from # Issuer => e.from = job'[e.by].of /\ job'[e.by].at \in {"sent trust", "failed"}
                      /\ e.from = Issuer => account'[job'[e.by].of].trust /\ job'[e.by].at \in {"sent mint", "failed"}
    BY DEF SentOK
  <2>1. e.by \in Jobs /\ e.from \in Wallets \cup {Issuer}
    BY DEF CustodyShapes
  <2>2. e.by # j
    <3>1. job[e.by].at \in {"sent trust", "sent mint", "failed"}
      BY DEF SentOK
    <3> QED
      BY <3>1
  <2>3. job'[e.by] = job[e.by] /\ job[e.by].of \in Wallets
    BY <1>1, <2>1, <2>2 DEF SentOK
  <2> QED
    BY <2>1, <2>3 DEF SentOK
<1>7. OneSent'
  BY DEF OneSent
<1> QED
  BY <1>1, <1>2, <1>3, <1>4, <1>5, <1>6, <1>7

LEMMA CallStep ==
  ASSUME CIInv, NEW j \in Jobs, NEW kind \in {"wallet", "airdrop"}, NEW w \in Wallets, NEW s \in Servers,
         Call(j, kind, w, s)
  PROVE  CIInv'
<1> USE DEF CIInv
<1> DEFINE new == [at |-> "ensure", kind |-> kind, of |-> w, on |-> s, seq |-> 0]
<1>1. new \in JobCall /\ new.at = "ensure"
  BY DEF JobCall, JobAt
<1> HIDE DEF new
<1>2. /\ job[j].at = "idle" /\ UNCHANGED <<account, minted, sent, cache>>
      /\ job' \in [Jobs -> {NoJob} \cup JobCall]
      /\ \A i \in Jobs : job'[i] = IF i = j THEN new ELSE job[i]
  BY <1>1 DEF Call, CustodyShapes, new
<1>3. \A e \in sent : e.by \in Jobs /\ e.by # j
  <2>1. \A e \in sent : job[e.by].at # "idle" /\ e.by \in Jobs
    BY DEF SentOK, CustodyShapes
  <2> QED
    BY <1>2, <2>1
<1>4. CustodyShapes' /\ CacheIsTrue' /\ SentOK'
  BY <1>2, <1>3 DEF CustodyShapes, CacheIsTrue, SentOK
<1>5. AccountsOK' /\ TrustedOK' /\ MintsOK'
  BY <1>1, <1>2 DEF AccountsOK, TrustedOK, Ready, MintsOK
<1>6. OneSent'
  BY <1>2 DEF OneSent
<1> QED
  BY <1>4, <1>5, <1>6

\* What comes after the trustline.
LEMMA OnwardsGoes ==
  ASSUME CustodyShapes, NEW j \in Jobs, job[j].at # "idle", Onwards(j)
  PROVE  \E x \in {"mint", "told"} :
           Go(j, x) /\ (x = "mint" <=> job[j].kind = "airdrop")
BY DEF Onwards

LEMMA CachedStep ==
  ASSUME CIInv, NEW j \in Jobs, Cached(j)
  PROVE  CIInv'
<1> USE DEF CIInv
<1>1. /\ job[j].at = "ensure" /\ Onwards(j) /\ job[j].of \in cache[job[j].on]
      /\ UNCHANGED <<account, minted, sent, cache>>
  BY DEF Cached
<1>2. PICK x \in {"mint", "told"} : Go(j, x) /\ (x = "mint" <=> job[j].kind = "airdrop")
  BY <1>1, OnwardsGoes
<1>3. x \in JobAt
  BY DEF JobAt
<1>4. /\ job' \in [Jobs -> {NoJob} \cup JobCall]
      /\ job'[j].at = x /\ job'[j].of = job[j].of /\ job'[j].kind = job[j].kind
      /\ job[j].of \in Wallets /\ job[j].on \in Servers /\ job[j].kind \in {"wallet", "airdrop"}
      /\ \A i \in Jobs : i # j => job'[i] = job[i]
  BY <1>1, <1>2, <1>3, JobGoes
<1>5. account[job[j].of].trust
  BY <1>1, <1>4 DEF CacheIsTrue
<1>6. /\ account \in [Wallets \cup {Issuer} -> [made : BOOLEAN, seq : Nat, trust : BOOLEAN]]
      /\ cache \in [Servers -> SUBSET Wallets]
  BY DEF CustodyShapes
<1> HIDE DEF CIInv
<1> QED
  BY <1>1, <1>2, <1>4, <1>5, <1>6, JobSteps

\* The account is read: the trustline is there, or the call goes on to set it.
LEMMA FoundGoes ==
  ASSUME CIInv, NEW j \in Jobs, job[j].at \in {"ensure", "reload"}, Found(j),
         account[job[j].of].made, UNCHANGED <<account, minted, sent>>
  PROVE  CIInv'
<1> USE DEF CIInv
<1>1. /\ job[j] \in JobCall /\ job[j].of \in Wallets /\ job[j].on \in Servers
      /\ account[job[j].of].seq \in Nat
  BY DEF CustodyShapes, JobCall, NoJob
<1>2. CASE account[job[j].of].trust
  <2>1. Remember(j) /\ Onwards(j)
    BY <1>2 DEF Found
  <2>2. PICK x \in {"mint", "told"} : Go(j, x) /\ (x = "mint" <=> job[j].kind = "airdrop")
    BY <2>1, OnwardsGoes
  <2>3. x \in JobAt
    BY DEF JobAt
  <2>4. /\ job' \in [Jobs -> {NoJob} \cup JobCall]
        /\ job'[j].at = x /\ job'[j].of = job[j].of /\ job'[j].kind = job[j].kind
        /\ \A i \in Jobs : i # j => job'[i] = job[i]
    BY <2>2, <2>3, JobGoes
  <2>5. /\ cache' \in [Servers -> SUBSET Wallets]
        /\ \A s \in Servers : \A w \in cache'[s] : w \in cache[s] \/ account[w].trust
    BY <1>1, <1>2, <2>1 DEF Remember, CustodyShapes
  <2>6. account \in [Wallets \cup {Issuer} -> [made : BOOLEAN, seq : Nat, trust : BOOLEAN]]
    BY DEF CustodyShapes
  <2> HIDE DEF CIInv
  <2> QED
    BY <1>2, <2>2, <2>4, <2>5, <2>6, JobSteps
<1>3. CASE ~account[job[j].of].trust
  <2>1. /\ job' = [job EXCEPT ![j] = [job[j] EXCEPT !.at = "set trust", !.seq = account[job[j].of].seq]]
        /\ UNCHANGED cache
    BY <1>3 DEF Found, CustodyShapes
  <2> DEFINE new == [job[j] EXCEPT !.at = "set trust", !.seq = account[job[j].of].seq]
  <2>2. /\ new \in JobCall /\ new.at = "set trust"
        /\ new.of = job[j].of /\ new.kind = job[j].kind
    BY <1>1 DEF JobCall, JobAt
  <2> HIDE DEF new
  <2>3. /\ job' \in [Jobs -> {NoJob} \cup JobCall] /\ job'[j] = new
        /\ \A i \in Jobs : i # j => job'[i] = job[i]
    BY <2>1, <2>2 DEF CustodyShapes, new
  <2>4. /\ account \in [Wallets \cup {Issuer} -> [made : BOOLEAN, seq : Nat, trust : BOOLEAN]]
        /\ cache \in [Servers -> SUBSET Wallets]
    BY DEF CustodyShapes
  <2> HIDE DEF CIInv
  <2> QED
    BY <2>1, <2>2, <2>3, <2>4, JobSteps DEF Ready
<1> QED
  BY <1>2, <1>3

\* A call goes on where the chain and the caches stay, and nothing is promised.
LEMMA JobFailsOn ==
  ASSUME CIInv, NEW j \in Jobs, job[j].at \notin {"idle", "sent trust", "sent mint", "failed"},
         NEW x \in {"fund", "failed"}, Go(j, x), UNCHANGED <<account, minted, sent, cache>>
  PROVE  CIInv'
<1>1. x \in JobAt
  BY DEF JobAt
<1>2. CustodyShapes
  BY DEF CIInv
<1>3. /\ job' \in [Jobs -> {NoJob} \cup JobCall]
      /\ job'[j].at = x /\ job'[j].of = job[j].of /\ job'[j].kind = job[j].kind
      /\ \A i \in Jobs : i # j => job'[i] = job[i]
  BY <1>1, <1>2, JobGoes
<1>4. /\ account \in [Wallets \cup {Issuer} -> [made : BOOLEAN, seq : Nat, trust : BOOLEAN]]
      /\ cache \in [Servers -> SUBSET Wallets]
  BY <1>2 DEF CustodyShapes
<1> QED
  BY <1>3, <1>4, JobSteps DEF Ready

LEMMA LoadAccountStep ==
  ASSUME CIInv, NEW j \in Jobs, LoadAccount(j)
  PROVE  CIInv'
<1>1. job[j].at = "ensure" /\ UNCHANGED <<account, minted, sent>>
  BY DEF LoadAccount
<1>2. CASE account[job[j].of].made /\ Found(j)
  BY <1>1, <1>2, FoundGoes
<1>3. CASE Go(j, "fund") /\ UNCHANGED cache
  BY <1>1, <1>3, JobFailsOn
<1> QED
  BY <1>2, <1>3 DEF LoadAccount

LEMMA ReloadStep ==
  ASSUME CIInv, NEW j \in Jobs, Reload(j)
  PROVE  CIInv'
<1>1. account[job[j].of].made
  BY DEF CIInv, AccountsOK, Reload
<1> QED
  BY <1>1, FoundGoes DEF Reload

LEMMA FriendbotFundStep ==
  ASSUME CIInv, NEW j \in Jobs, FriendbotFund(j)
  PROVE  CIInv'
<1>1. job[j].at = "fund" /\ UNCHANGED <<minted, sent, cache>>
  BY DEF FriendbotFund
<1>2. CASE account[job[j].of].made
  BY <1>1, <1>2, JobFailsOn DEF FriendbotFund
<1>3. CASE ~account[job[j].of].made
  <2>1. PICK x \in {"reload", "failed"} : Go(j, x)
    BY <1>3 DEF FriendbotFund
  <2>2. x \in JobAt /\ CustodyShapes
    BY DEF JobAt, CIInv
  <2>3. /\ job' \in [Jobs -> {NoJob} \cup JobCall]
        /\ job'[j].at = x /\ job'[j].of = job[j].of /\ job'[j].kind = job[j].kind
        /\ job[j].of \in Wallets
        /\ \A i \in Jobs : i # j => job'[i] = job[i]
    BY <1>1, <2>1, <2>2, JobGoes
  <2>4. account' = [account EXCEPT ![job[j].of] = [account[job[j].of] EXCEPT !.made = TRUE]]
    BY <1>3, <2>2, <2>3 DEF FriendbotFund, CustodyShapes
  <2>5. /\ account' \in [Wallets \cup {Issuer} -> [made : BOOLEAN, seq : Nat, trust : BOOLEAN]]
        /\ \A a \in Wallets \cup {Issuer} :
             (account[a].made => account'[a].made) /\ account'[a].trust = account[a].trust
        /\ account'[job[j].of].made
    BY <2>2, <2>3, <2>4 DEF CustodyShapes
  <2>6. cache \in [Servers -> SUBSET Wallets]
    BY <2>2 DEF CustodyShapes
  <2> QED
    BY <1>1, <2>3, <2>5, <2>6, JobSteps DEF Ready
<1> QED
  BY <1>2, <1>3

LEMMA TrustSetStep ==
  ASSUME CIInv, NEW j \in Jobs, TrustSet(j)
  PROVE  CIInv'
<1> USE DEF CIInv
<1>1. /\ job[j].at = "included trust" /\ Remember(j) /\ Onwards(j)
      /\ UNCHANGED <<account, minted, sent>>
      /\ account[job[j].of].trust
  BY DEF TrustSet, TrustedOK, Ready
<1>2. PICK x \in {"mint", "told"} : Go(j, x) /\ (x = "mint" <=> job[j].kind = "airdrop")
  BY <1>1, OnwardsGoes
<1>3. x \in JobAt
  BY DEF JobAt
<1>4. /\ job' \in [Jobs -> {NoJob} \cup JobCall]
      /\ job'[j].at = x /\ job'[j].of = job[j].of /\ job'[j].kind = job[j].kind
      /\ job[j].of \in Wallets /\ job[j].on \in Servers
      /\ \A i \in Jobs : i # j => job'[i] = job[i]
  BY <1>1, <1>2, <1>3, JobGoes
<1>5. /\ cache' \in [Servers -> SUBSET Wallets]
      /\ \A s \in Servers : \A w \in cache'[s] : w \in cache[s] \/ account[w].trust
  BY <1>1, <1>4 DEF Remember, CustodyShapes
<1>6. account \in [Wallets \cup {Issuer} -> [made : BOOLEAN, seq : Nat, trust : BOOLEAN]]
  BY DEF CustodyShapes
<1> HIDE DEF CIInv
<1> QED
  BY <1>1, <1>2, <1>4, <1>5, <1>6, JobSteps

LEMMA LoadIssuerStep ==
  ASSUME CIInv, NEW j \in Jobs, LoadIssuer(j)
  PROVE  CIInv'
<1> USE DEF CIInv
<1>1. /\ job[j] \in JobCall /\ job[j].at = "mint" /\ job[j].kind = "airdrop"
      /\ account[job[j].of].trust /\ account[Issuer].seq \in Nat
      /\ UNCHANGED <<account, minted, sent, cache>>
  <2>1. job[j].at = "mint" /\ UNCHANGED <<account, minted, sent, cache>>
    BY DEF LoadIssuer
  <2>2. account[Issuer].seq \in Nat
    BY DEF CustodyShapes
  <2> QED
    BY <2>1, <2>2, JobShape DEF MintsOK, TrustedOK, Ready
<1> DEFINE new == [job[j] EXCEPT !.at = "set mint", !.seq = account[Issuer].seq]
<1>2. new \in JobCall /\ new.at = "set mint" /\ new.of = job[j].of /\ new.kind = job[j].kind
  BY <1>1 DEF JobCall, JobAt
<1>3. job' = [job EXCEPT ![j] = new]
  BY <1>1 DEF LoadIssuer, CustodyShapes
<1> HIDE DEF new
<1>4. /\ job' \in [Jobs -> {NoJob} \cup JobCall] /\ job'[j] = new
      /\ \A i \in Jobs : i # j => job'[i] = job[i]
  BY <1>2, <1>3 DEF CustodyShapes
<1>5. /\ account \in [Wallets \cup {Issuer} -> [made : BOOLEAN, seq : Nat, trust : BOOLEAN]]
      /\ cache \in [Servers -> SUBSET Wallets]
  BY DEF CustodyShapes
<1> HIDE DEF CIInv
<1> QED
  BY <1>1, <1>2, <1>4, <1>5, JobSteps

LEMMA MintedStep ==
  ASSUME CIInv, NEW j \in Jobs, Minted(j)
  PROVE  CIInv'
<1>1. /\ job[j].at = "included mint" /\ Go(j, "told") /\ account[job[j].of].trust
      /\ UNCHANGED <<account, minted, sent, cache>>
  BY DEF CIInv, Minted, TrustedOK, Ready
<1>2. "told" \in JobAt /\ CustodyShapes
  BY DEF JobAt, CIInv
<1>3. /\ job' \in [Jobs -> {NoJob} \cup JobCall]
      /\ job'[j].at = "told" /\ job'[j].of = job[j].of /\ job'[j].kind = job[j].kind
      /\ \A i \in Jobs : i # j => job'[i] = job[i]
  BY <1>1, <1>2, JobGoes
<1>4. /\ account \in [Wallets \cup {Issuer} -> [made : BOOLEAN, seq : Nat, trust : BOOLEAN]]
      /\ cache \in [Servers -> SUBSET Wallets]
  BY <1>2 DEF CustodyShapes
<1> QED
  BY <1>1, <1>3, <1>4, JobSteps

\* A transaction is sent: its source is there, and a mint's account is ready.
LEMMA SendStep ==
  ASSUME CIInv, NEW j \in Jobs, SendTrust(j) \/ SendMint(j)
  PROVE  CIInv'
<1> USE DEF CIInv
<1> DEFINE trust == job[j].at = "set trust"
           e0 == [by |-> j, from |-> IF trust THEN job[j].of ELSE Issuer, seq |-> job[j].seq]
           x == IF trust THEN "sent trust" ELSE "sent mint"
<1>1. /\ job[j].at \in {"set trust", "set mint"} /\ sent' = sent \cup {e0} /\ Go(j, x)
      /\ UNCHANGED <<account, minted, cache>>
  BY DEF SendTrust, SendMint
<1>2. job[j] \in JobCall /\ job[j].of \in Wallets /\ job[j].of # Issuer
  BY <1>1, JobShape, CustodyAssumption
<1>3. /\ e0 \in [by : Jobs, from : Wallets \cup {Issuer}, seq : Nat] /\ e0.by = j
      /\ e0.from = IF trust THEN job[j].of ELSE Issuer
  BY <1>2 DEF JobCall
<1>4. x \in JobAt /\ x \in {"sent trust", "sent mint"} /\ (x = "sent trust" <=> trust)
  BY DEF JobAt
<1> HIDE DEF e0, x
<1>5. /\ job' \in [Jobs -> {NoJob} \cup JobCall]
      /\ job'[j].at = x /\ job'[j].of = job[j].of /\ job'[j].kind = job[j].kind
      /\ \A i \in Jobs : i # j => job'[i] = job[i]
  BY <1>1, <1>4, JobGoes
<1>6. CustodyShapes' /\ CacheIsTrue'
  BY <1>1, <1>3, <1>5 DEF CustodyShapes, CacheIsTrue
<1>7. AccountsOK'
  BY <1>1, <1>4, <1>5 DEF AccountsOK
<1>8. TrustedOK'
  BY <1>1, <1>4, <1>5 DEF TrustedOK, Ready
<1>9. MintsOK'
  BY <1>1, <1>4, <1>5 DEF MintsOK
<1>10. SentOK'
  <2> SUFFICES ASSUME NEW e \in sent'
               PROVE  /\ job'[e.by].at # "idle" /\ account[e.from].made
                      /\ e.from # Issuer => e.from = job'[e.by].of /\ job'[e.by].at \in {"sent trust", "failed"}
                      /\ e.from = Issuer => account[job'[e.by].of].trust /\ job'[e.by].at \in {"sent mint", "failed"}
    BY <1>1 DEF SentOK
  <2>1. CASE e = e0
    <3>1. trust => account[job[j].of].made
      BY DEF AccountsOK
    <3>2. ~trust => account[job[j].of].trust
      BY <1>1 DEF TrustedOK, Ready
    <3>3. account[Issuer].made
      BY DEF AccountsOK
    <3> HIDE DEF CIInv
    <3> QED
      BY <1>2, <1>3, <1>4, <1>5, <2>1, <3>1, <3>2, <3>3
  <2>2. CASE e # e0
    <3>1. e \in sent /\ e.by \in Jobs
      BY <1>1, <2>2 DEF CustodyShapes
    <3>2. job[e.by].at \in {"sent trust", "sent mint", "failed"}
      BY <3>1 DEF SentOK
    <3>3. job'[e.by] = job[e.by]
      BY <1>1, <1>5, <3>1, <3>2
    <3> QED
      BY <3>1, <3>3 DEF SentOK
  <2> QED
    BY <2>1, <2>2
<1>11. OneSent'
  <2>1. \A e \in sent : e.by # j
    BY <1>1 DEF SentOK
  <2> QED
    BY <1>1, <1>3, <2>1 DEF OneSent
<1> QED
  BY <1>6, <1>7, <1>8, <1>9, <1>10, <1>11

\* Calls fail: nothing that holds of them depends on where they were.
LEMMA CallsFail ==
  ASSUME CIInv, UNCHANGED <<account, minted>>, sent' \subseteq sent,
         cache' \in [Servers -> SUBSET Wallets],
         \A s \in Servers : cache'[s] \subseteq cache[s],
         job' \in [Jobs -> {NoJob} \cup JobCall],
         \A i \in Jobs : job'[i] = job[i] \/
           (job[i].at # "idle" /\ job'[i].at = "failed" /\ job'[i].of = job[i].of)
  PROVE  CIInv'
<1> USE DEF CIInv
<1>1. CustodyShapes' /\ CacheIsTrue'
  BY DEF CustodyShapes, CacheIsTrue
<1>2. AccountsOK'
  BY DEF AccountsOK
<1>3. TrustedOK'
  BY DEF TrustedOK, Ready
<1>4. MintsOK'
  BY DEF MintsOK
<1>5. SentOK'
  <2> SUFFICES ASSUME NEW e \in sent'
               PROVE  /\ job'[e.by].at # "idle" /\ account[e.from].made
                      /\ e.from # Issuer => e.from = job'[e.by].of /\ job'[e.by].at \in {"sent trust", "failed"}
                      /\ e.from = Issuer => account[job'[e.by].of].trust /\ job'[e.by].at \in {"sent mint", "failed"}
    BY DEF SentOK
  <2>1. e \in sent /\ e.by \in Jobs
    BY DEF CustodyShapes
  <2> QED
    BY <2>1 DEF SentOK
<1>6. OneSent'
  BY DEF OneSent
<1> QED
  BY <1>1, <1>2, <1>3, <1>4, <1>5, <1>6

LEMMA LostStep ==
  ASSUME CIInv, NEW j \in Jobs, Lost(j)
  PROVE  CIInv'
<1>1. /\ job[j].at # "idle" /\ Go(j, "failed") /\ UNCHANGED <<account, minted, sent, cache>>
  BY DEF Lost, Ended
<1>2. "failed" \in JobAt /\ CustodyShapes
  BY DEF JobAt, CIInv
<1>3. /\ job' \in [Jobs -> {NoJob} \cup JobCall]
      /\ job'[j].at = "failed" /\ job'[j].of = job[j].of
      /\ \A i \in Jobs : i # j => job'[i] = job[i]
  BY <1>1, <1>2, JobGoes
<1>4. cache \in [Servers -> SUBSET Wallets]
  BY <1>2 DEF CustodyShapes
<1> QED
  BY <1>1, <1>3, <1>4, CallsFail

LEMMA RestartServerStep ==
  ASSUME CIInv, NEW s \in Servers, RestartServer(s)
  PROVE  CIInv'
<1>1. CustodyShapes /\ UNCHANGED <<account, minted, sent>>
  BY DEF CIInv, RestartServer
<1>2. /\ cache' \in [Servers -> SUBSET Wallets]
      /\ \A r \in Servers : cache'[r] \subseteq cache[r]
  BY <1>1 DEF RestartServer, CustodyShapes
<1>3. \A i \in Jobs : job'[i] = IF job[i].at \notin Ended /\ job[i].on = s
                                THEN [job[i] EXCEPT !.at = "failed"] ELSE job[i]
  BY DEF RestartServer
<1>4. ASSUME NEW i \in Jobs, job[i].at \notin Ended
      PROVE  [job[i] EXCEPT !.at = "failed"] \in JobCall
             /\ [job[i] EXCEPT !.at = "failed"].at = "failed"
             /\ [job[i] EXCEPT !.at = "failed"].of = job[i].of
  <2>1. job[i] \in JobCall
    BY <1>1, <1>4, JobShape DEF Ended
  <2> QED
    BY <2>1 DEF JobCall, JobAt
<1>5. \A i \in Jobs : job'[i] = job[i] \/
        (job[i].at # "idle" /\ job'[i].at = "failed" /\ job'[i].of = job[i].of)
  BY <1>3, <1>4 DEF Ended
<1>6. job' \in [Jobs -> {NoJob} \cup JobCall]
  <2>1. \A i \in Jobs : job'[i] \in {NoJob} \cup JobCall
    BY <1>1, <1>3, <1>4 DEF CustodyShapes
  <2> QED
    BY <2>1 DEF RestartServer
<1> QED
  BY <1>1, <1>2, <1>5, <1>6, CallsFail

LEMMA RejectStep ==
  ASSUME CIInv, NEW e \in sent, Reject(e)
  PROVE  CIInv'
<1>1. CustodyShapes /\ UNCHANGED <<account, minted, cache>> /\ sent' = sent \ {e}
  BY DEF CIInv, Reject
<1>2. e.by \in Jobs /\ job[e.by].at # "idle"
  BY <1>1 DEF CIInv, SentOK, CustodyShapes
<1>3. job[e.by] \in JobCall
  BY <1>1, <1>2, JobShape
<1>4. PICK x \in JobAt : (x = "failed" \/ x = job[e.by].at)
                         /\ job' = [job EXCEPT ![e.by] = [job[e.by] EXCEPT !.at = x]]
  <2>1. job[e.by].at \in JobAt /\ "failed" \in JobAt
    BY <1>3 DEF JobCall, JobAt
  <2> QED
    BY <1>1, <1>2, <2>1 DEF Reject, CustodyShapes
<1>5. [job[e.by] EXCEPT !.at = x] \in JobCall /\ (x = job[e.by].at => [job[e.by] EXCEPT !.at = x] = job[e.by])
      /\ [job[e.by] EXCEPT !.at = x].at = x /\ [job[e.by] EXCEPT !.at = x].of = job[e.by].of
  BY <1>3 DEF JobCall
<1>6. /\ job' \in [Jobs -> {NoJob} \cup JobCall]
      /\ \A i \in Jobs : i # e.by => job'[i] = job[i]
      /\ job'[e.by] = [job[e.by] EXCEPT !.at = x]
  BY <1>1, <1>2, <1>4, <1>5 DEF CustodyShapes
<1>7. \A i \in Jobs : job'[i] = job[i] \/
        (job[i].at # "idle" /\ job'[i].at = "failed" /\ job'[i].of = job[i].of)
  BY <1>2, <1>4, <1>5, <1>6
<1>8. cache \in [Servers -> SUBSET Wallets]
  BY <1>1 DEF CustodyShapes
<1> QED
  BY <1>1, <1>6, <1>7, <1>8, CallsFail

\* The chain includes a transaction: a trustline is set, or a mint lands.
LEMMA AppliedStep ==
  ASSUME CIInv, NEW e \in sent, Applied(e)
  PROVE  CIInv'
<1> USE DEF CIInv
<1>0. PICK j : j = e.by
  OBVIOUS
<1>1. /\ j \in Jobs /\ job[j].at # "idle" /\ account[e.from].made /\ e.from \in Wallets \cup {Issuer}
      /\ e.from # Issuer => e.from = job[j].of /\ job[j].at \in {"sent trust", "failed"}
      /\ e.from = Issuer => account[job[j].of].trust /\ job[j].at \in {"sent mint", "failed"}
  BY <1>0 DEF SentOK, CustodyShapes
<1>2. job[j] \in JobCall /\ job[j].of \in Wallets
  BY <1>1, JobShape
<1> DEFINE x == CASE job[j].at = "sent trust" -> "included trust"
                  [] job[j].at = "sent mint" -> "included mint" [] OTHER -> job[j].at
           y == [account[e.from] EXCEPT !.seq = @ + 1, !.trust = @ \/ e.from # Issuer]
<1>3. /\ job' = [job EXCEPT ![j] = [job[j] EXCEPT !.at = x]]
      /\ account' = [account EXCEPT ![e.from] = y]
      /\ sent' = sent \ {e} /\ UNCHANGED cache
      /\ minted' = IF e.from = Issuer THEN minted \cup {[by |-> j, landed |-> account[job[j].of].trust]} ELSE minted
  BY <1>0, <1>1 DEF Applied, CustodyShapes
<1>4. /\ x \in JobAt /\ x \in {"included trust", "included mint", "failed"}
      /\ x = "included trust" => e.from = job[j].of /\ e.from # Issuer
      /\ x = "included mint" => e.from = Issuer /\ job[j].at = "sent mint"
  BY <1>1 DEF JobAt
<1> HIDE DEF x
<1>5. /\ [job[j] EXCEPT !.at = x] \in JobCall /\ [job[j] EXCEPT !.at = x].at = x
      /\ [job[j] EXCEPT !.at = x].of = job[j].of /\ [job[j] EXCEPT !.at = x].kind = job[j].kind
  BY <1>2, <1>4 DEF JobCall
<1>6. /\ job' \in [Jobs -> {NoJob} \cup JobCall]
      /\ job'[j].at = x /\ job'[j].of = job[j].of /\ job'[j].kind = job[j].kind
      /\ \A i \in Jobs : i # j => job'[i] = job[i]
  BY <1>1, <1>3, <1>5 DEF CustodyShapes
<1>7. /\ y \in [made : BOOLEAN, seq : Nat, trust : BOOLEAN] /\ y.made
      /\ account[e.from].trust => y.trust
      /\ e.from # Issuer => y.trust
  <2>1. PICK a \in [made : BOOLEAN, seq : Nat, trust : BOOLEAN] : a = account[e.from]
    BY <1>1 DEF CustodyShapes
  <2>2. PICK b \in BOOLEAN : b = (a.trust \/ e.from # Issuer)
    OBVIOUS
  <2>3. y = [a EXCEPT !.seq = a.seq + 1, !.trust = b]
    BY <2>1, <2>2
  <2> HIDE DEF y
  <2>4. a.made
    BY <1>1, <2>1
  <2>5. (a.trust => b) /\ (e.from # Issuer => b)
    BY <2>2, Zenon
  <2>6. y \in [made : BOOLEAN, seq : Nat, trust : BOOLEAN] /\ y.made = a.made /\ y.trust = b
    <3>1. a.seq + 1 \in Nat
      OBVIOUS
    <3>2. PICK n \in Nat : n = a.seq + 1
      BY <3>1
    <3>3. y = [a EXCEPT !.seq = n, !.trust = b]
      BY <2>3, <3>2
    <3> QED
      BY <3>3
  <2>7. (account[e.from].trust => y.trust) /\ (e.from # Issuer => y.trust)
    BY <2>1, <2>5, <2>6, Zenon
  <2> QED
    BY <2>4, <2>6, <2>7
<1> HIDE DEF y
<1>8. /\ account' \in [Wallets \cup {Issuer} -> [made : BOOLEAN, seq : Nat, trust : BOOLEAN]]
      /\ \A a \in Wallets \cup {Issuer} : account'[a] = IF a = e.from THEN y ELSE account[a]
  BY <1>1, <1>3, <1>7 DEF CustodyShapes
<1>9. \A a \in Wallets \cup {Issuer} :
        (account[a].made => account'[a].made) /\ (account[a].trust => account'[a].trust)
  BY <1>7, <1>8
<1>10. \A i \in Jobs : job[i].at # "idle" => job[i].of \in Wallets
  BY JobShape
<1>11. CustodyShapes'
  BY <1>3, <1>6, <1>8 DEF CustodyShapes
<1>12. CacheIsTrue'
  BY <1>3, <1>9 DEF CacheIsTrue, CustodyShapes
<1>13. AccountsOK'
  <2>1. account'[Issuer].made
    BY <1>9 DEF AccountsOK
  <2>2. \A w \in Wallets : account'[w].trust => account'[w].made
    BY <1>7, <1>8 DEF AccountsOK
  <2>3. ASSUME NEW i \in Jobs, job'[i].at \in {"reload", "set trust", "sent trust"}
        PROVE  account'[job'[i].of].made
    <3>1. i # j
      BY <1>4, <1>6, <2>3
    <3> QED
      BY <1>6, <1>9, <1>10, <2>3, <3>1 DEF AccountsOK
  <2> QED
    BY <2>1, <2>2, <2>3 DEF AccountsOK
<1>14. TrustedOK'
  <2> SUFFICES ASSUME NEW i \in Jobs, job'[i].at \in Ready PROVE account'[job'[i].of].trust
    BY DEF TrustedOK
  <2>1. CASE i = j
    <3>1. CASE x = "included trust"
      BY <1>2, <1>4, <1>6, <1>7, <1>8, <2>1, <3>1
    <3>2. CASE x = "included mint"
      BY <1>1, <1>2, <1>4, <1>6, <1>9, <2>1, <3>2
    <3> QED
      BY <1>4, <1>6, <2>1, <3>1, <3>2 DEF Ready
  <2>2. CASE i # j
    BY <1>6, <1>9, <1>10, <2>2 DEF TrustedOK, Ready
  <2> QED
    BY <2>1, <2>2
<1>15. MintsOK'
  <2>1. ASSUME NEW i \in Jobs, job'[i].at = "included mint" \/ (job'[i].at = "told" /\ job'[i].kind = "airdrop")
        PROVE  \E m \in minted' : m.by = i
    <3>1. CASE i = j
      <4>1. e.from = Issuer
        BY <1>4, <1>6, <2>1, <3>1
      <4> DEFINE m == [by |-> j, landed |-> account[job[j].of].trust]
      <4>2. m \in minted' /\ m.by = j
        BY <1>3, <4>1
      <4> QED
        BY <3>1, <4>2
    <3>2. CASE i # j
      BY <1>3, <1>6, <2>1, <3>2 DEF MintsOK
    <3> QED
      BY <3>1, <3>2
  <2>2. \A i \in Jobs : job'[i].at \in {"mint", "set mint", "sent mint", "included mint"} =>
          job'[i].kind = "airdrop"
    BY <1>4, <1>6 DEF MintsOK
  <2>3. ASSUME NEW m \in minted'
        PROVE  m.landed
    <3>1. CASE m \in minted
      BY <3>1 DEF MintsOK
    <3>2. CASE m \notin minted
      <4>1. e.from = Issuer /\ m = [by |-> j, landed |-> account[job[j].of].trust]
        BY <1>3, <3>2
      <4> QED
        BY <1>1, <4>1
    <3> QED
      BY <3>1, <3>2
  <2> QED
    BY <2>1, <2>2, <2>3 DEF MintsOK
<1>16. SentOK'
  <2> SUFFICES ASSUME NEW f \in sent, f # e
               PROVE  /\ job'[f.by].at # "idle" /\ account'[f.from].made
                      /\ f.from # Issuer => f.from = job'[f.by].of /\ job'[f.by].at \in {"sent trust", "failed"}
                      /\ f.from = Issuer => account'[job'[f.by].of].trust /\ job'[f.by].at \in {"sent mint", "failed"}
    BY <1>3 DEF SentOK
  <2>1. f.by \in Jobs /\ f.by # j /\ f.from \in Wallets \cup {Issuer}
    BY <1>0 DEF OneSent, CustodyShapes
  <2>2. /\ job[f.by].at # "idle" /\ account[f.from].made /\ job'[f.by] = job[f.by]
        /\ f.from # Issuer => f.from = job[f.by].of /\ job[f.by].at \in {"sent trust", "failed"}
        /\ f.from = Issuer => account[job[f.by].of].trust /\ job[f.by].at \in {"sent mint", "failed"}
    BY <1>6, <2>1 DEF SentOK
  <2> HIDE DEF CIInv
  <2> QED
    BY <1>9, <1>10, <2>1, <2>2
<1>17. OneSent'
  BY <1>3 DEF OneSent
<1> QED
  BY <1>11, <1>12, <1>13, <1>14, <1>15, <1>16, <1>17

LEMMA CustodyInit == InitCustody => CIInv
<1> SUFFICES ASSUME InitCustody PROVE CIInv
  OBVIOUS
<1>1. /\ account \in [Wallets \cup {Issuer} -> [made : BOOLEAN, seq : Nat, trust : BOOLEAN]]
      /\ \A a \in Wallets \cup {Issuer} : ~account[a].trust /\ (a = Issuer => account[a].made)
  BY DEF InitCustody
<1>2. /\ job \in [Jobs -> {NoJob}] /\ sent = {} /\ minted = {}
      /\ cache \in [Servers -> SUBSET Wallets] /\ \A s \in Servers : cache[s] = {}
  BY DEF InitCustody, NoJob
<1>3. \A j \in Jobs : job[j].at = "idle"
  BY <1>2 DEF NoJob
<1>4. CustodyShapes
  BY <1>1, <1>2 DEF CustodyShapes
<1> QED
  BY <1>1, <1>2, <1>3, <1>4 DEF CIInv, AccountsOK, CacheIsTrue, TrustedOK, Ready, MintsOK, SentOK, OneSent

LEMMA CustodyStays == CIInv /\ [NextCustody]_custodyVars => CIInv'
<1> SUFFICES ASSUME CIInv, [NextCustody]_custodyVars PROVE CIInv'
  OBVIOUS
<1>1. CASE UNCHANGED custodyVars
  BY <1>1 DEF custodyVars, CIInv, CustodyShapes, AccountsOK, CacheIsTrue, TrustedOK, MintsOK, SentOK, OneSent
<1> QED
  BY <1>1, CallStep, CachedStep, LoadAccountStep, FriendbotFundStep, ReloadStep, SendStep, TrustSetStep,
     LoadIssuerStep, MintedStep, LostStep, RestartServerStep, RejectStep, AppliedStep
     DEF NextCustody

\* What a process remembers of the chain is true, a wallet that is shown or minted to has
\* its trustline, and an airdrop that is answered has minted itself: for any number of
\* wallets, processes and calls, any of them failing anywhere.
THEOREM CustodyIsSound == SpecCustody => []CustodyInv
<1>1. CIInv => CustodyInv
  <2> SUFFICES ASSUME CIInv PROVE CustodyInv
    OBVIOUS
  <2>1. CustodyTypeOK
    BY DEF CIInv, CustodyShapes, AccountsOK, SentOK, CustodyTypeOK
  <2>2. WalletsReady
    BY DEF CIInv, TrustedOK, Ready, MintsOK, WalletsReady
  <2>3. AirdropIsOwn
    BY DEF CIInv, MintsOK, AirdropIsOwn
  <2> QED
    BY <2>1, <2>2, <2>3 DEF CIInv, CustodyInv
<1> QED
  BY <1>1, CustodyInit, CustodyStays, PTL DEF SpecCustody


-----------------------------------------------------------------------------
(* Factions and districts: the inductive invariant.                        *)

FoundCall == [at : {"fee", "found", "refund"}, key : Founders \X Names]
JoinCall == [at : {"join", "count", "disband", "quit"}, who : People, faction : Factions]
PromoteCall == [at : {"promote"}, who : People, rank : Ranks]
AwardCall == [at : {"influence"}, faction : Factions, attempt : Nat]
CommitCall == [at : {"commit"}, faction : Factions, attempt : Nat, seen : [Factions -> 0..MaxInfluence]]
CallSet == {Idle} \cup FoundCall \cup JoinCall \cup PromoteCall \cup AwardCall \cup CommitCall

\* A score that was read to be raised is below the bound.
CallsOK ==
  /\ call \in [Threads -> CallSet]
  /\ \A t \in Threads : At(t, "commit") => call[t].seen[call[t].faction] < MaxInfluence

RostersOK ==
  /\ alive \subseteq Factions
  /\ home \in [People -> Factions \cup {Nobody}]
  /\ rank \in [People -> {"none", "BOSS"} \cup Ranks]
  /\ \A p \in People : home[p] # Nobody => home[p] \in alive
  /\ \A p \in People : home[p] = Nobody <=> rank[p] = "none"
  /\ OneBoss

\* Whoever founds or refunds has paid, and does so for the only fee under the key, that
\* has bought nothing and is not refunded, unless the key is doubtful.
Held(t) == call[t].at \in {"found", "refund"}
FeesOK ==
  /\ refund \cup doubtful \subseteq fee /\ fee \subseteq Founders \X Factions
  /\ \A t \in Threads : Held(t) =>
       /\ call[t].key \in fee
       /\ call[t].key \in founded \cup refund => call[t].key \in doubtful
       /\ \A u \in Threads \ {t} : Held(u) /\ call[u].key = call[t].key => call[t].key \in doubtful
  /\ FeeBuysFaction

\* The members and those who were let through to join.
Joining(f) == {t \in Threads : At(t, "join") /\ call[t].faction = f}
Room == MaxMembers + Cardinality(Threads) - 1
RosterRoom == \A f \in Factions : Cardinality(Members(f)) + Cardinality(Joining(f)) <= Room

TurfOK ==
  /\ influence \in [Factions -> 0..MaxInfluence]
  /\ controller \in alive \cup {Nobody}
  /\ InfluenceAddsUp

CommIInv == CallsOK /\ RostersOK /\ FeesOK /\ RosterRoom /\ TurfOK

-----------------------------------------------------------------------------
(* What a call holds, and what becomes of the parts a step leaves alone.   *)

LEMMA CallShape ==
  ASSUME NEW c \in CallSet
  PROVE  /\ c.at \in {"fee", "found", "refund"} => c \in FoundCall
         /\ c.at \in {"join", "count", "disband", "quit"} => c \in JoinCall
         /\ c.at = "promote" => c \in PromoteCall
         /\ c.at = "influence" => c \in AwardCall
         /\ c.at = "commit" => c \in CommitCall
BY DEF CallSet, Idle, FoundCall, JoinCall, PromoteCall, AwardCall, CommitCall

LEMMA CallReplaced ==
  ASSUME CallsOK, NEW t \in Threads, NEW c \in CallSet, call' = [call EXCEPT ![t] = c],
         c.at = "commit" => c.seen[c.faction] < MaxInfluence
  PROVE  /\ CallsOK' /\ call'[t] = c
         /\ \A u \in Threads : u # t => call'[u] = call[u]
<1>1. call' \in [Threads -> CallSet] /\ call'[t] = c /\ \A u \in Threads : u # t => call'[u] = call[u]
  BY DEF CallsOK
<1>2. ASSUME NEW u \in Threads, call'[u].at = "commit"
      PROVE  call'[u].seen[call'[u].faction] < MaxInfluence
  <2>1. CASE u = t
    BY <1>1, <1>2, <2>1
  <2>2. CASE u # t
    BY <1>1, <1>2, <2>2 DEF CallsOK, At
  <2> QED
    BY <2>1, <2>2
<1> QED
  BY <1>1, <1>2 DEF CallsOK, At

LEMMA CallEnds ==
  ASSUME CallsOK, NEW t \in Threads, End(t)
  PROVE  /\ CallsOK' /\ call'[t].at = "idle"
         /\ \A u \in Threads : u # t => call'[u] = call[u]
<1>1. Idle \in CallSet /\ Idle.at = "idle"
  BY DEF CallSet, Idle
<1> QED
  BY <1>1, CallReplaced DEF End

LEMMA FoundGoto ==
  ASSUME CallsOK, NEW t \in Threads, call[t].at \in {"fee", "found", "refund"},
         NEW x \in {"found", "refund"}, Goto(t, x)
  PROVE  /\ CallsOK' /\ call'[t].at = x /\ call'[t].key = call[t].key
         /\ \A u \in Threads : u # t => call'[u] = call[u]
<1>1. call[t] \in FoundCall /\ call \in [Threads -> CallSet]
  BY CallShape DEF CallsOK
<1> DEFINE c == [call[t] EXCEPT !.at = x]
<1>2. c \in FoundCall /\ c.at = x /\ c.key = call[t].key
  BY <1>1 DEF FoundCall
<1>3. call' = [call EXCEPT ![t] = c]
  BY <1>1 DEF Goto
<1> HIDE DEF c
<1>4. c \in CallSet /\ c.at # "commit"
  BY <1>2 DEF CallSet
<1> QED
  BY <1>2, <1>3, <1>4, CallReplaced

LEMMA RostersKept ==
  ASSUME RostersOK, UNCHANGED rosters
  PROVE  RostersOK'
BY DEF RostersOK, OneBoss, rosters

LEMMA TurfKept ==
  ASSUME TurfOK, UNCHANGED district, controller \in alive' \cup {Nobody}
  PROVE  TurfOK'
BY DEF TurfOK, InfluenceAddsUp, district

\* Fees that nobody touches, of a call that is not about them.
LEMMA FeesKept ==
  ASSUME FeesOK, UNCHANGED fees, NEW t \in Threads,
         \A u \in Threads : u # t => call'[u] = call[u],
         call[t].at \notin {"found", "refund"}, call'[t].at \notin {"found", "refund"}
  PROVE  FeesOK'
<1>1. \A u \in Threads : (Held(u)' <=> Held(u)) /\ (Held(u) => call'[u] = call[u])
  BY DEF Held
<1>2. UNCHANGED <<fee, refund, founded, astray, doubtful>>
  BY DEF fees
<1>3. \A u \in Threads : At(u, "found")' => Held(u)'
  BY DEF Held, At
<1>4. \A k \in fee \ refund : k \in founded \/ k \in astray \/ \E u \in Threads : Held(u) /\ call[u].key = k
  BY DEF FeesOK, FeeBuysFaction, Held
<1>5. \A k \in fee' \ refund' :
        k \in founded' \/ k \in astray' \/ \E u \in Threads : Held(u)' /\ call'[u].key = k
  BY <1>1, <1>2, <1>4
<1>6. \A u \in Threads : Held(u)' =>
        /\ call'[u].key \in fee'
        /\ call'[u].key \in founded' \cup refund' => call'[u].key \in doubtful'
        /\ \A v \in Threads \ {u} : Held(v)' /\ call'[v].key = call'[u].key => call'[u].key \in doubtful'
  BY <1>1, <1>2 DEF FeesOK
<1>7. FeeBuysFaction'
  <2>1. founded' \subseteq fee' /\ founded' \cap refund' \subseteq doubtful'
    BY <1>2 DEF FeesOK, FeeBuysFaction
  <2> QED
    BY <1>3, <1>5, <1>6, <2>1 DEF FeeBuysFaction, Held
<1> QED
  BY <1>2, <1>6, <1>7 DEF FeesOK

LEMMA Finite ==
  /\ Cardinality(Threads) \in Nat /\ Cardinality(Threads) >= 1
  /\ MaxMembers \in Nat /\ MaxMembers >= 1 /\ Room \in Nat
  /\ \A f \in Factions : IsFiniteSet(Members(f)) /\ IsFiniteSet(Joining(f))
<1>1. IsFiniteSet(Threads) /\ Threads # {} /\ IsFiniteSet(People) /\ MaxMembers \in Nat \ {0}
  BY CommunityAssumption
<1>2. Cardinality(Threads) \in Nat /\ Cardinality(Threads) # 0
  BY <1>1, FS_CardinalityType, FS_EmptySet
<1>3. \A f \in Factions : Members(f) \subseteq People /\ Joining(f) \subseteq Threads
  BY DEF Members, Joining
<1>4. \A f \in Factions : IsFiniteSet(Members(f)) /\ IsFiniteSet(Joining(f))
  BY <1>1, <1>3, FS_Subset
<1> QED
  BY <1>1, <1>2, <1>4 DEF Room

LEMMA FiniteNext == \A f \in Factions : IsFiniteSet(Members(f)') /\ IsFiniteSet(Joining(f)')
<1>1. IsFiniteSet(Threads) /\ IsFiniteSet(People)
  BY CommunityAssumption
<1>2. \A f \in Factions : Members(f)' \subseteq People /\ Joining(f)' \subseteq Threads
  BY DEF Members, Joining
<1> QED
  BY <1>1, <1>2, FS_Subset

\* Fewer members and fewer who join.
LEMMA RoomLess ==
  ASSUME RosterRoom, NEW f \in Factions, Members(f)' \subseteq Members(f), Joining(f)' \subseteq Joining(f)
  PROVE  Cardinality(Members(f)') + Cardinality(Joining(f)') <= Room
<1>1. IsFiniteSet(Members(f)) /\ IsFiniteSet(Joining(f)) /\ Room \in Nat
  BY Finite
<1>2. /\ Cardinality(Members(f)') <= Cardinality(Members(f)) /\ IsFiniteSet(Members(f)')
      /\ Cardinality(Joining(f)') <= Cardinality(Joining(f)) /\ IsFiniteSet(Joining(f)')
  BY <1>1, FS_Subset
<1>3. /\ Cardinality(Members(f)') \in Nat /\ Cardinality(Members(f)) \in Nat
      /\ Cardinality(Joining(f)') \in Nat /\ Cardinality(Joining(f)) \in Nat
  BY <1>1, <1>2, FS_CardinalityType
<1>4. Cardinality(Members(f)) + Cardinality(Joining(f)) <= Room
  BY DEF RosterRoom
<1> QED
  BY <1>1, <1>2, <1>3, <1>4

LEMMA RoomKept ==
  ASSUME RosterRoom, NEW t \in Threads,
         \A u \in Threads : u # t => call'[u] = call[u], call'[t].at # "join",
         \A p \in People : home'[p] \in {home[p], Nobody}
  PROVE  RosterRoom'
<1> SUFFICES ASSUME NEW f \in Factions
             PROVE  Cardinality(Members(f)') + Cardinality(Joining(f)') <= Room
  BY DEF RosterRoom, Room
<1>1. Members(f)' \subseteq Members(f)
  BY CommunityAssumption DEF Members
<1>2. Joining(f)' \subseteq Joining(f)
  BY DEF Joining, At
<1> QED
  BY <1>1, <1>2, RoomLess

\* A step that changes one call and nothing else.
LEMMA QuietStep ==
  ASSUME CommIInv, NEW t \in Threads, CallsOK',
         \A u \in Threads : u # t => call'[u] = call[u],
         UNCHANGED <<rosters, fees, district>>,
         call[t].at \notin {"found", "refund"}, call'[t].at \notin {"found", "refund", "join"}
  PROVE  CommIInv'
<1> USE DEF CommIInv
<1>1. RostersOK' /\ FeesOK'
  BY RostersKept, FeesKept
<1>2. RosterRoom'
  BY RoomKept DEF rosters
<1>3. TurfOK'
  BY TurfKept DEF TurfOK, rosters
<1> QED
  BY <1>1, <1>2, <1>3

LEMMA BeginGoes ==
  ASSUME CallsOK, NEW t \in Threads, NEW c \in CallSet, c.at # "commit", Begin(t, c)
  PROVE  /\ CallsOK' /\ call[t].at = "idle" /\ call'[t] = c
         /\ \A u \in Threads : u # t => call'[u] = call[u]
<1>1. call[t].at = "idle" /\ call' = [call EXCEPT ![t] = c]
  BY DEF Begin, Idle
<1> QED
  BY <1>1, CallReplaced

\* The calls that begin with a read.
LEMMA ReadSteps ==
  ASSUME CommIInv, NEW t \in Threads, NEW p \in People,
         \/ \E f \in Factions : FoundRead(t, p, f)
         \/ LeaveRead(t, p)
         \/ AwardRead(t, p)
         \/ \E q \in People, r \in Ranks : PromoteRead(t, p, q, r)
  PROVE  CommIInv'
<1>0. CallsOK /\ (home[p] # Nobody => home[p] \in Factions)
  BY DEF CommIInv, RostersOK
<1>1. PICK c \in CallSet : /\ Begin(t, c) /\ UNCHANGED <<rosters, fees, district>>
                           /\ c.at \notin {"found", "refund", "join", "commit"}
  <2>1. CASE \E f \in Factions : FoundRead(t, p, f)
    <3>1. PICK f \in Factions : FoundRead(t, p, f)
      BY <2>1
    <3> DEFINE c == [at |-> "fee", key |-> <<p, f>>]
    <3>2. c \in FoundCall /\ c.at = "fee"
      BY <3>1 DEF FoundRead, FoundCall
    <3>3. Begin(t, c) /\ UNCHANGED <<rosters, fees, district>>
      BY <3>1 DEF FoundRead
    <3> HIDE DEF c
    <3> QED
      BY <3>2, <3>3 DEF CallSet
  <2>2. CASE LeaveRead(t, p)
    <3> DEFINE c == [at |-> IF rank[p] = "BOSS" THEN "count" ELSE "quit", who |-> p, faction |-> home[p]]
    <3>1. Begin(t, c) /\ UNCHANGED <<rosters, fees, district>> /\ home[p] # Nobody
      BY <2>2 DEF LeaveRead
    <3>2. c \in JoinCall /\ c.at \in {"count", "quit"}
      BY <1>0, <3>1 DEF JoinCall
    <3> HIDE DEF c
    <3> QED
      BY <3>1, <3>2 DEF CallSet
  <2>3. CASE AwardRead(t, p)
    <3> DEFINE c == [at |-> "influence", faction |-> home[p], attempt |-> 1]
    <3>1. Begin(t, c) /\ UNCHANGED <<rosters, fees, district>> /\ home[p] # Nobody
      BY <2>3 DEF AwardRead
    <3>2. c \in AwardCall /\ c.at = "influence"
      BY <1>0, <3>1 DEF AwardCall
    <3> HIDE DEF c
    <3> QED
      BY <3>1, <3>2 DEF CallSet
  <2>4. CASE \E q \in People, r \in Ranks : PromoteRead(t, p, q, r)
    <3>1. PICK q \in People, r \in Ranks : PromoteRead(t, p, q, r)
      BY <2>4
    <3> DEFINE c == [at |-> "promote", who |-> q, rank |-> r]
    <3>2. Begin(t, c) /\ UNCHANGED <<rosters, fees, district>>
      BY <3>1 DEF PromoteRead
    <3>3. c \in PromoteCall /\ c.at = "promote"
      BY DEF PromoteCall
    <3> HIDE DEF c
    <3> QED
      BY <3>2, <3>3 DEF CallSet
  <2> QED
    BY <2>1, <2>2, <2>3, <2>4
<1>2. /\ CallsOK' /\ call[t].at = "idle" /\ call'[t] = c
      /\ \A u \in Threads : u # t => call'[u] = call[u]
  BY <1>0, <1>1, BeginGoes
<1> QED
  BY <1>1, <1>2, QuietStep

LEMMA LeaveCountStep ==
  ASSUME CommIInv, NEW t \in Threads, LeaveCount(t)
  PROVE  CommIInv'
<1>1. CallsOK /\ call[t].at = "count" /\ UNCHANGED <<rosters, fees, district>>
  BY DEF CommIInv, LeaveCount, At
<1>2. CASE End(t)
  <2>1. /\ CallsOK' /\ call'[t].at = "idle"
        /\ \A u \in Threads : u # t => call'[u] = call[u]
    BY <1>1, <1>2, CallEnds
  <2> QED
    BY <1>1, <2>1, QuietStep
<1>3. CASE Goto(t, "disband")
  <2>1. call[t] \in JoinCall /\ call \in [Threads -> CallSet]
    BY <1>1, CallShape DEF CallsOK
  <2> DEFINE c == [call[t] EXCEPT !.at = "disband"]
  <2>2. c \in JoinCall /\ c.at = "disband"
    BY <2>1 DEF JoinCall
  <2>3. call' = [call EXCEPT ![t] = c]
    BY <1>3, <2>1 DEF Goto
  <2> HIDE DEF c
  <2>4. c \in CallSet
    BY <2>2 DEF CallSet
  <2>5. CallsOK' /\ call'[t] = c /\ \A u \in Threads : u # t => call'[u] = call[u]
    BY <1>1, <2>2, <2>3, <2>4, CallReplaced
  <2> QED
    BY <1>1, <2>2, <2>5, QuietStep
<1> QED
  BY <1>2, <1>3 DEF LeaveCount

\* A join is let through when the faction has room, whoever else is on the way.
LEMMA JoinReadStep ==
  ASSUME CommIInv, NEW t \in Threads, NEW p \in People, NEW f \in Factions, JoinRead(t, p, f)
  PROVE  CommIInv'
<1> DEFINE c == [at |-> "join", who |-> p, faction |-> f]
<1>1. Begin(t, c) /\ ~Crowded(f) /\ UNCHANGED <<rosters, fees, district>>
  BY DEF JoinRead
<1>2. c \in JoinCall /\ c.at = "join" /\ c.faction = f
  BY DEF JoinCall
<1> HIDE DEF c
<1>3. /\ CallsOK' /\ call[t].at = "idle" /\ call'[t] = c
      /\ \A u \in Threads : u # t => call'[u] = call[u]
  BY <1>1, <1>2, BeginGoes DEF CallSet, CommIInv
<1>4. RostersOK' /\ FeesOK' /\ TurfOK'
  <2>1. RostersOK' /\ FeesOK'
    BY <1>1, <1>2, <1>3, RostersKept, FeesKept DEF CommIInv
  <2>2. TurfOK'
    BY <1>1, TurfKept DEF CommIInv, TurfOK, rosters
  <2> QED
    BY <2>1, <2>2
<1>5. RosterRoom'
  <2> SUFFICES ASSUME NEW g \in Factions
               PROVE  Cardinality(Members(g)') + Cardinality(Joining(g)') <= Room
    BY DEF RosterRoom, Room
  <2>1. Members(g)' = Members(g) /\ RosterRoom
    BY <1>1 DEF Members, rosters, CommIInv
  <2>2. CASE g = f
    <3>1. /\ IsFiniteSet(Members(f)) /\ IsFiniteSet(Threads) /\ Joining(g)' \subseteq Threads
          /\ MaxMembers \in Nat
      BY Finite, CommunityAssumption DEF Joining
    <3>2. /\ Cardinality(Members(f)) \in Nat /\ Cardinality(Threads) \in Nat
          /\ Cardinality(Joining(g)') <= Cardinality(Threads) /\ Cardinality(Joining(g)') \in Nat
      BY <3>1, FS_Subset, FS_CardinalityType
    <3>3. ~(Cardinality(Members(f)) >= MaxMembers)
      BY <1>1 DEF Crowded
    <3> QED
      BY <2>1, <2>2, <3>1, <3>2, <3>3 DEF Room
  <2>3. CASE g # f
    <3>1. Joining(g)' \subseteq Joining(g)
      BY <1>2, <1>3, <2>3 DEF Joining, At
    <3> QED
      BY <2>1, <3>1, RoomLess
  <2> QED
    BY <2>2, <2>3
<1> QED
  BY <1>3, <1>4, <1>5 DEF CommIInv

\* What the property about the fees follows from, of the state a step leads to.
LEMMA FeesShape ==
  ASSUME founded' \subseteq fee', founded' \cap refund' \subseteq doubtful',
         \A t \in Threads : Held(t)' /\ call'[t].key \in founded' \cup refund' =>
           call'[t].key \in doubtful',
         \A k \in fee' \ refund' :
           k \in founded' \/ k \in astray' \/ \E t \in Threads : Held(t)' /\ call'[t].key = k
  PROVE  FeeBuysFaction'
BY DEF FeeBuysFaction, Held, At

\* The fee is taken; when it fails, or nobody hears of it, the call is over.
LEMMA FoundFeeStep ==
  ASSUME CommIInv, NEW t \in Threads, FoundFee(t)
  PROVE  CommIInv'
<1> DEFINE key == call[t].key
<1>1. /\ CallsOK /\ call[t].at = "fee" /\ UNCHANGED <<rosters, refund, founded, district>>
      /\ \/ End(t) /\ UNCHANGED <<fee, astray, doubtful>>
         \/ /\ fee' = fee \cup {key} /\ Goto(t, "found") /\ UNCHANGED astray
            /\ doubtful' = doubtful \cup ({key} \cap fee)
         \/ fee' = fee \cup {key} /\ astray' = astray \cup {key} /\ End(t) /\ UNCHANGED doubtful
  BY DEF CommIInv, FoundFee, At
<1>2. key \in Founders \X Factions
  <2>1. call[t] \in FoundCall
    BY <1>1, CallShape DEF CallsOK
  <2> QED
    BY <2>1, CommunityAssumption DEF FoundCall
<1>3. /\ CallsOK' /\ call'[t].at \in {"idle", "found"}
      /\ \A u \in Threads : u # t => call'[u] = call[u]
      /\ call'[t].at = "found" =>
           call'[t].key = key /\ fee' = fee \cup {key} /\ doubtful' = doubtful \cup ({key} \cap fee)
  <2>1. CASE End(t)
    BY <1>1, <2>1, CallEnds
  <2>2. CASE Goto(t, "found") /\ fee' = fee \cup {key} /\ doubtful' = doubtful \cup ({key} \cap fee)
    BY <1>1, <2>2, FoundGoto
  <2> QED
    BY <1>1, <2>1, <2>2
<1> HIDE DEF key
<1>4. RostersOK' /\ RosterRoom' /\ TurfOK'
  <2>1. UNCHANGED rosters /\ UNCHANGED district /\ UNCHANGED <<home, alive>>
    BY <1>1 DEF rosters
  <2> QED
    BY <1>1, <1>3, <2>1, RostersKept, RoomKept, TurfKept DEF CommIInv, TurfOK
<1>5. /\ fee \subseteq fee' /\ fee' \subseteq fee \cup {key} /\ astray \subseteq astray'
      /\ refund' = refund /\ founded' = founded
      /\ doubtful \subseteq doubtful' /\ doubtful' \subseteq doubtful \cup fee
      /\ key \in fee' \ fee => key \in astray' \/ call'[t].at = "found"
  <2>1. CASE End(t) /\ UNCHANGED <<fee, astray, doubtful>>
    BY <1>1, <2>1
  <2>2. CASE fee' = fee \cup {key} /\ Goto(t, "found") /\ UNCHANGED astray
             /\ doubtful' = doubtful \cup ({key} \cap fee)
    <3>1. call'[t].at = "found"
      BY <1>1, <2>2, FoundGoto
    <3> QED
      BY <1>1, <2>2, <3>1
  <2>3. CASE fee' = fee \cup {key} /\ astray' = astray \cup {key} /\ End(t) /\ UNCHANGED doubtful
    BY <1>1, <2>3
  <2> QED
    BY <1>1, <2>1, <2>2, <2>3
<1>6. FeesOK
  BY DEF CommIInv
<1>7. /\ \A u \in Threads : u # t => (Held(u)' <=> Held(u)) /\ call'[u] = call[u]
      /\ ~Held(t) /\ (Held(t)' => call'[t].at = "found")
  BY <1>1, <1>3 DEF Held
<1>8. /\ refund' \cup doubtful' \subseteq fee' /\ fee' \subseteq Founders \X Factions /\ founded' \subseteq fee'
      /\ founded' \cap refund' \subseteq doubtful'
  BY <1>2, <1>5, <1>6 DEF FeesOK, FeeBuysFaction
<1>9. ASSUME NEW u \in Threads, Held(u)'
      PROVE  /\ call'[u].key \in fee'
             /\ call'[u].key \in founded' \cup refund' => call'[u].key \in doubtful'
             /\ \A v \in Threads \ {u} :
                  Held(v)' /\ call'[v].key = call'[u].key => call'[u].key \in doubtful'
  <2>1. CASE u = t
    <3>1. /\ call'[u].key = key /\ fee' = fee \cup {key} /\ doubtful' = doubtful \cup ({key} \cap fee)
      BY <1>3, <1>7, <1>9, <2>1
    <3>2. key \in founded \cup refund => key \in fee
      BY <1>6 DEF FeesOK, FeeBuysFaction
    <3>3. \A v \in Threads \ {t} : Held(v) /\ call[v].key = key => key \in fee
      BY <1>6 DEF FeesOK
    <3> QED
      BY <1>5, <1>7, <2>1, <3>1, <3>2, <3>3
  <2>2. CASE u # t
    <3>1. /\ call[u].key \in fee
          /\ call[u].key \in founded \cup refund => call[u].key \in doubtful
          /\ \A v \in Threads \ {u} : Held(v) /\ call[v].key = call[u].key => call[u].key \in doubtful
      BY <1>6, <1>7, <1>9, <2>2 DEF FeesOK
    <3>2. Held(t)' /\ call'[t].key = call[u].key => call[u].key \in doubtful'
      BY <1>3, <1>7, <3>1
    <3> QED
      BY <1>5, <1>7, <2>2, <3>1, <3>2
  <2> QED
    BY <2>1, <2>2
<1>10. ASSUME NEW k \in fee' \ refund'
       PROVE  k \in founded' \/ k \in astray' \/ \E u \in Threads : Held(u)' /\ call'[u].key = k
  <2>1. CASE k \in fee
    <3>1. k \in founded \/ k \in astray \/ \E u \in Threads : Held(u) /\ call[u].key = k
      BY <1>5, <1>6, <1>10, <2>1 DEF FeesOK, FeeBuysFaction, Held
    <3> QED
      BY <1>5, <1>7, <3>1
  <2>2. CASE k \notin fee
    <3>1. k = key
      BY <1>5, <1>10, <2>2
    <3> QED
      BY <1>3, <1>5, <1>10, <2>2, <3>1 DEF Held
  <2> QED
    BY <2>1, <2>2
<1>11. FeesOK'
  BY <1>8, <1>9, <1>10, FeesShape DEF FeesOK
<1> QED
  BY <1>3, <1>4, <1>11 DEF CommIInv

\* A call about a fee that was paid goes on or ends: its fee has bought the faction, is
\* refunded, is astray, or is still the call's to refund.
LEMMA FeesEnd ==
  ASSUME FeesOK, NEW t \in Threads, Held(t),
         \A u \in Threads : u # t => call'[u] = call[u],
         call'[t].at \in {"idle", "refund"},
         call'[t].at = "refund" => call'[t].key = call[t].key,
         fee' = fee, refund \subseteq refund', refund' \subseteq refund \cup {call[t].key},
         founded \subseteq founded', founded' \subseteq founded \cup {call[t].key},
         astray \subseteq astray',
         doubtful \subseteq doubtful', doubtful' \subseteq doubtful \cup {call[t].key},
         call'[t].at = "refund" =>
           refund' = refund /\ (founded' = founded \/ call[t].key \in doubtful'),
         call'[t].at = "idle" =>
           /\ refund' = refund \/ founded' = founded
           /\ call[t].key \in refund' \cup founded' \cup astray'
  PROVE  FeesOK'
<1>1. /\ call[t].key \in fee
      /\ call[t].key \in founded \cup refund => call[t].key \in doubtful
      /\ \A u \in Threads \ {t} : Held(u) /\ call[u].key = call[t].key => call[t].key \in doubtful
  BY DEF FeesOK
<1>2. /\ refund' \cup doubtful' \subseteq fee' /\ fee' \subseteq Founders \X Factions /\ founded' \subseteq fee'
  BY <1>1 DEF FeesOK, FeeBuysFaction
<1>3. founded' \cap refund' \subseteq doubtful'
  <2>1. founded \cap refund \subseteq doubtful
    BY DEF FeesOK, FeeBuysFaction
  <2> QED
    BY <1>1, <2>1
<1>4. \A u \in Threads : u # t => (Held(u)' <=> Held(u)) /\ call'[u] = call[u]
  BY DEF Held
<1>5. ASSUME NEW u \in Threads, Held(u)'
      PROVE  /\ call'[u].key \in fee'
             /\ call'[u].key \in founded' \cup refund' => call'[u].key \in doubtful'
             /\ \A v \in Threads \ {u} :
                  Held(v)' /\ call'[v].key = call'[u].key => call'[u].key \in doubtful'
  <2>1. CASE u = t
    <3>1. call'[t].at = "refund" /\ call'[t].key = call[t].key
      BY <1>5, <2>1 DEF Held
    <3>2. call[t].key \in founded' \cup refund' => call[t].key \in doubtful'
      BY <1>1, <3>1
    <3>3. \A v \in Threads \ {t} : Held(v)' /\ call'[v].key = call[t].key => call[t].key \in doubtful'
      BY <1>1, <1>4
    <3> QED
      BY <1>1, <2>1, <3>1, <3>2, <3>3
  <2>2. CASE u # t
    <3>1. Held(u) /\ call'[u] = call[u]
      BY <1>4, <1>5, <2>2
    <3>2. /\ call[u].key \in fee
          /\ call[u].key \in founded \cup refund => call[u].key \in doubtful
          /\ \A v \in Threads \ {u} : Held(v) /\ call[v].key = call[u].key => call[u].key \in doubtful
      BY <3>1 DEF FeesOK
    <3>3. call[u].key = call[t].key => call[u].key \in doubtful'
      BY <2>2, <3>2
    <3>4. Held(t)' => call'[t].key = call[t].key
      BY DEF Held
    <3> QED
      BY <1>4, <3>1, <3>2, <3>3, <3>4
  <2> QED
    BY <2>1, <2>2
<1>6. ASSUME NEW k \in fee' \ refund'
      PROVE  k \in founded' \/ k \in astray' \/ \E u \in Threads : Held(u)' /\ call'[u].key = k
  <2>1. k \in founded \/ k \in astray \/ \E u \in Threads : Held(u) /\ call[u].key = k
    BY <1>6 DEF FeesOK, FeeBuysFaction, Held
  <2>2. CASE k = call[t].key
    BY <1>6, <2>2 DEF Held
  <2>3. CASE k # call[t].key
    <3>1. \A u \in Threads : Held(u) /\ call[u].key = k => Held(u)' /\ call'[u].key = k
      BY <1>4, <2>3
    <3> QED
      BY <2>1, <3>1
  <2> QED
    BY <2>2, <2>3
<1> QED
  BY <1>2, <1>3, <1>5, <1>6, FeesShape DEF FeesOK

LEMMA FoundRefundStep ==
  ASSUME CommIInv, NEW t \in Threads, FoundRefund(t)
  PROVE  CommIInv'
<1>1. /\ CallsOK /\ call[t].at = "refund" /\ End(t)
      /\ UNCHANGED <<rosters, fee, founded, doubtful, district>>
      /\ \/ refund' = refund \cup {call[t].key} /\ UNCHANGED astray
         \/ astray' = astray \cup {call[t].key} /\ UNCHANGED refund
  BY DEF CommIInv, FoundRefund, At, Repaid
<1>2. /\ CallsOK' /\ call'[t].at = "idle"
      /\ \A u \in Threads : u # t => call'[u] = call[u]
  BY <1>1, CallEnds
<1>3. UNCHANGED rosters /\ UNCHANGED district /\ UNCHANGED <<home, alive>>
  BY <1>1 DEF rosters
<1>4. RostersOK' /\ RosterRoom' /\ TurfOK'
  BY <1>1, <1>2, <1>3, RostersKept, RoomKept, TurfKept DEF CommIInv, TurfOK
<1>5. FeesOK'
  BY <1>1, <1>2, FeesEnd DEF CommIInv, Held
<1> QED
  BY <1>2, <1>4, <1>5 DEF CommIInv

LEMMA CrashCommunityStep ==
  ASSUME CommIInv, NEW t \in Threads, CrashCommunity(t)
  PROVE  CommIInv'
<1>1. /\ CallsOK /\ End(t) /\ UNCHANGED <<rosters, fee, refund, founded, doubtful, district>>
      /\ astray' = IF call[t].at \in {"found", "refund"} THEN astray \cup {call[t].key} ELSE astray
  BY DEF CommIInv, CrashCommunity
<1>2. /\ CallsOK' /\ call'[t].at = "idle"
      /\ \A u \in Threads : u # t => call'[u] = call[u]
  BY <1>1, CallEnds
<1>3. UNCHANGED rosters /\ UNCHANGED district /\ UNCHANGED <<home, alive>>
  BY <1>1 DEF rosters
<1>4. CASE call[t].at \in {"found", "refund"}
  <2>1. RostersOK' /\ RosterRoom' /\ TurfOK'
    BY <1>1, <1>2, <1>3, RostersKept, RoomKept, TurfKept DEF CommIInv, TurfOK
  <2>2. FeesOK'
    BY <1>1, <1>2, <1>4, FeesEnd DEF CommIInv, Held
  <2> QED
    BY <1>2, <2>1, <2>2 DEF CommIInv
<1>5. CASE call[t].at \notin {"found", "refund"}
  <2>1. UNCHANGED fees
    BY <1>1, <1>5 DEF fees
  <2> QED
    BY <1>1, <1>2, <1>5, <2>1, QuietStep
<1> QED
  BY <1>4, <1>5

\* A new member of a rank other than boss, or the boss of a faction without members.
LEMMA Enters ==
  ASSUME RostersOK, NEW p \in People, NEW f \in Factions, NEW r \in {"BOSS", "PROSPECT"},
         home[p] = Nobody,
         alive' = alive \cup {f}, home' = [home EXCEPT ![p] = f], rank' = [rank EXCEPT ![p] = r],
         r = "BOSS" => f \notin alive
  PROVE  RostersOK'
<1>1. /\ home' \in [People -> Factions \cup {Nobody}] /\ home'[p] = f /\ alive' \subseteq Factions
      /\ rank' \in [People -> {"none", "BOSS"} \cup Ranks] /\ rank'[p] = r
      /\ \A q \in People : q # p => home'[q] = home[q] /\ rank'[q] = rank[q]
  BY DEF RostersOK, Ranks
<1>2. ASSUME NEW q \in People
      PROVE  (home'[q] # Nobody => home'[q] \in alive') /\ (home'[q] = Nobody <=> rank'[q] = "none")
  <2>1. CASE q = p
    BY <1>1, <2>1, CommunityAssumption
  <2>2. CASE q # p
    BY <1>1, <2>2 DEF RostersOK
  <2> QED
    BY <2>1, <2>2
<1>3. ASSUME NEW q1 \in People, NEW q2 \in People,
             rank'[q1] = "BOSS", rank'[q2] = "BOSS", home'[q1] = home'[q2], q1 # q2
      PROVE  FALSE
  <2>1. CASE q1 # p /\ q2 # p
    BY <1>1, <1>3, <2>1 DEF RostersOK, OneBoss
  <2>2. CASE q1 = p \/ q2 = p
    <3>1. PICK q \in People : q # p /\ home[q] = f
      BY <1>1, <1>3, <2>2
    <3>2. r = "BOSS"
      BY <1>1, <1>3, <2>2
    <3> QED
      BY <3>1, <3>2, CommunityAssumption DEF RostersOK
  <2> QED
    BY <2>1, <2>2
<1> QED
  BY <1>1, <1>2, <1>3 DEF RostersOK, OneBoss

LEMMA FoundCreateStep ==
  ASSUME CommIInv, NEW t \in Threads, FoundCreate(t)
  PROVE  CommIInv'
<1>1. /\ CallsOK /\ call[t].at = "found" /\ UNCHANGED <<fee, refund, astray, district>>
  BY DEF CommIInv, FoundCreate, At
<1>2. call[t] \in FoundCall
  BY <1>1, CallShape DEF CallsOK
<1>3. PICK p \in Founders, f \in Names : call[t].key = <<p, f>>
  BY <1>2 DEF FoundCall
<1>4. p \in People /\ f \in Factions
  BY CommunityAssumption
<1>5. CASE Goto(t, "refund") /\ UNCHANGED <<rosters, founded, doubtful>>
  <2>1. /\ CallsOK' /\ call'[t].at = "refund" /\ call'[t].key = call[t].key
        /\ \A u \in Threads : u # t => call'[u] = call[u]
    BY <1>1, <1>5, FoundGoto
  <2>2. UNCHANGED rosters /\ UNCHANGED district /\ UNCHANGED <<home, alive>>
    BY <1>1, <1>5 DEF rosters
  <2>3. RostersOK' /\ RosterRoom' /\ TurfOK'
    BY <2>1, <2>2, RostersKept, RoomKept, TurfKept DEF CommIInv, TurfOK
  <2>4. FeesOK'
    BY <1>1, <1>5, <2>1, FeesEnd DEF CommIInv, Held
  <2> QED
    BY <2>1, <2>3, <2>4 DEF CommIInv
<1>6. CASE /\ Free(p, f) /\ alive' = alive \cup {f}
           /\ home' = [home EXCEPT ![p] = f] /\ rank' = [rank EXCEPT ![p] = "BOSS"]
           /\ founded' = founded \cup {<<p, f>>}
           /\ \/ End(t) /\ UNCHANGED doubtful
              \/ Goto(t, "refund") /\ doubtful' = doubtful \cup {<<p, f>>}
  <2>1. /\ CallsOK' /\ call'[t].at \in {"idle", "refund"}
        /\ call'[t].at = "refund" => call'[t].key = call[t].key
        /\ call'[t].at = "refund" => call[t].key \in doubtful'
        /\ \A u \in Threads : u # t => call'[u] = call[u]
        /\ doubtful \subseteq doubtful' /\ doubtful' \subseteq doubtful \cup {call[t].key}
    <3>1. CASE End(t) /\ UNCHANGED doubtful
      BY <1>1, <3>1, CallEnds
    <3>2. CASE Goto(t, "refund") /\ doubtful' = doubtful \cup {<<p, f>>}
      BY <1>1, <1>3, <3>2, FoundGoto
    <3> QED
      BY <1>6, <3>1, <3>2
  <2>2. home[p] = Nobody /\ f \notin alive
    BY <1>6 DEF Free
  <2>3. RostersOK'
    BY <1>4, <1>6, <2>2, Enters DEF CommIInv
  <2>4. FeesOK'
    BY <1>1, <1>3, <1>6, <2>1, FeesEnd DEF CommIInv, Held
  <2>5. TurfOK'
    BY <1>1, <1>6, TurfKept DEF CommIInv, TurfOK
  <2>6. RosterRoom'
    <3> SUFFICES ASSUME NEW g \in Factions
                 PROVE  Cardinality(Members(g)') + Cardinality(Joining(g)') <= Room
      BY DEF RosterRoom, Room
    <3>0. home \in [People -> Factions \cup {Nobody}] /\ RosterRoom
      BY DEF CommIInv, RostersOK
    <3>1. \A q \in People : home'[q] = IF q = p THEN f ELSE home[q]
      BY <1>6, <3>0
    <3>2. Joining(g)' \subseteq Joining(g) /\ Joining(g)' \subseteq Threads \ {t}
      BY <2>1 DEF Joining, At
    <3>3. CASE g = f
      <4>1. Members(g)' \subseteq {p}
        <5>1. \A q \in People : home[q] # f
          BY <2>2, CommunityAssumption DEF CommIInv, RostersOK
        <5> QED
          BY <3>1, <3>3, <5>1 DEF Members
      <4>2. IsFiniteSet({p}) /\ Cardinality({p}) = 1
        BY FS_Singleton
      <4>3. IsFiniteSet(Threads)
        BY CommunityAssumption
      <4>4. IsFiniteSet(Threads \ {t}) /\ Cardinality(Threads \ {t}) = Cardinality(Threads) - 1
        BY <4>3, FS_RemoveElement
      <4>5. Cardinality(Members(g)') <= 1 /\ IsFiniteSet(Members(g)')
        BY <4>1, <4>2, FS_Subset
      <4>6. Cardinality(Joining(g)') <= Cardinality(Threads) - 1 /\ IsFiniteSet(Joining(g)')
        BY <3>2, <4>4, FS_Subset
      <4>7. Cardinality(Members(g)') \in Nat /\ Cardinality(Joining(g)') \in Nat
        BY <4>5, <4>6, FS_CardinalityType
      <4>8. Cardinality(Threads) \in Nat /\ MaxMembers \in Nat /\ MaxMembers >= 1
        BY Finite
      <4> QED
        BY <4>5, <4>6, <4>7, <4>8 DEF Room
    <3>4. CASE g # f
      <4>1. Members(g)' \subseteq Members(g)
        BY <3>1, <3>4 DEF Members
      <4> QED
        BY <3>0, <3>2, <4>1, RoomLess
    <3> QED
      BY <3>3, <3>4
  <2> QED
    BY <2>1, <2>3, <2>4, <2>5, <2>6 DEF CommIInv
<1> QED
  BY <1>3, <1>5, <1>6 DEF FoundCreate

LEMMA JoinCreateStep ==
  ASSUME CommIInv, NEW t \in Threads, JoinCreate(t)
  PROVE  CommIInv'
<1> DEFINE p == call[t].who
           f == call[t].faction
<1>1. /\ CallsOK /\ call[t].at = "join" /\ End(t) /\ UNCHANGED <<alive, fees, district>>
  BY DEF CommIInv, JoinCreate, At
<1>2. p \in People /\ f \in Factions
  <2>1. call[t] \in JoinCall
    BY <1>1, CallShape DEF CallsOK
  <2> QED
    BY <2>1 DEF JoinCall
<1>3. /\ CallsOK' /\ call'[t].at = "idle"
      /\ \A u \in Threads : u # t => call'[u] = call[u]
  BY <1>1, CallEnds
<1>4. FeesOK' /\ TurfOK'
  <2>1. FeesOK'
    BY <1>1, <1>3, FeesKept DEF CommIInv
  <2>2. TurfOK'
    BY <1>1, TurfKept DEF CommIInv, TurfOK
  <2> QED
    BY <2>1, <2>2
<1>5. CASE UNCHANGED <<home, rank>>
  <2>1. RostersOK' /\ RosterRoom'
    BY <1>1, <1>3, <1>5, RostersKept, RoomKept DEF CommIInv, rosters
  <2> QED
    BY <1>3, <1>4, <2>1 DEF CommIInv
<1>6. CASE /\ home[p] = Nobody /\ f \in alive
           /\ home' = [home EXCEPT ![p] = f] /\ rank' = [rank EXCEPT ![p] = "PROSPECT"]
  <2>1. RostersOK'
    <3>1. alive' = alive \cup {f}
      BY <1>1, <1>6
    <3> QED
      BY <1>2, <1>6, <3>1, Enters DEF CommIInv
  <2>2. RosterRoom'
    <3> SUFFICES ASSUME NEW g \in Factions
                 PROVE  Cardinality(Members(g)') + Cardinality(Joining(g)') <= Room
      BY DEF RosterRoom, Room
    <3>0. home \in [People -> Factions \cup {Nobody}] /\ RosterRoom
      BY DEF CommIInv, RostersOK
    <3>1. \A q \in People : home'[q] = IF q = p THEN f ELSE home[q]
      BY <1>6, <3>0
    <3>2. Joining(g)' = Joining(g) \ {t} /\ (g = f => t \in Joining(g))
      BY <1>1, <1>3 DEF Joining, At
    <3>3. CASE g = f
      <4>1. Members(g)' = Members(g) \cup {p}
        BY <1>2, <1>6, <3>1, <3>3, CommunityAssumption DEF Members
      <4>2. p \notin Members(g)
        BY <1>6, <3>3, CommunityAssumption DEF Members
      <4>3. IsFiniteSet(Members(g)) /\ IsFiniteSet(Joining(g)) /\ Room \in Nat
        BY Finite
      <4>4. Cardinality(Members(g)') = Cardinality(Members(g)) + 1
        BY <4>1, <4>2, <4>3, FS_AddElement
      <4>5. Cardinality(Joining(g)') = Cardinality(Joining(g)) - 1
        BY <3>2, <3>3, <4>3, FS_RemoveElement
      <4>6. Cardinality(Members(g)) \in Nat /\ Cardinality(Joining(g)) \in Nat
        BY <4>3, FS_CardinalityType
      <4>7. Cardinality(Members(g)) + Cardinality(Joining(g)) <= Room
        BY <3>0 DEF RosterRoom
      <4> QED
        BY <4>3, <4>4, <4>5, <4>6, <4>7
    <3>4. CASE g # f
      <4>1. Members(g)' \subseteq Members(g) /\ Joining(g)' \subseteq Joining(g)
        BY <3>1, <3>2, <3>4 DEF Members
      <4> QED
        BY <3>0, <4>1, RoomLess
    <3> QED
      BY <3>3, <3>4
  <2> QED
    BY <1>3, <1>4, <2>1, <2>2 DEF CommIInv
<1> QED
  BY <1>5, <1>6 DEF JoinCreate

\* The faction's row goes only when nobody is a member of it.
LEMMA DisbandStep ==
  ASSUME CommIInv, NEW t \in Threads, Disband(t)
  PROVE  CommIInv'
<1> DEFINE f == call[t].faction
<1>1. /\ CallsOK /\ call[t].at = "disband" /\ End(t)
      /\ UNCHANGED <<home, rank, fees, influence, earned>>
  BY DEF CommIInv, Disband, At
<1>2. /\ CallsOK' /\ call'[t].at = "idle"
      /\ \A u \in Threads : u # t => call'[u] = call[u]
  BY <1>1, CallEnds
<1>3. FeesOK' /\ RosterRoom'
  BY <1>1, <1>2, FeesKept, RoomKept DEF CommIInv
<1>4. RostersOK /\ TurfOK
  BY DEF CommIInv
<1>5. CASE UNCHANGED <<alive, controller>>
  BY <1>1, <1>2, <1>3, <1>4, <1>5, RostersKept, TurfKept DEF CommIInv, TurfOK, rosters, district
<1>6. CASE /\ Members(f) = {} /\ alive' = alive \ {f}
           /\ controller' = IF controller = f THEN Nobody ELSE controller
  <2>1. \A p \in People : home[p] # f
    BY <1>6 DEF Members
  <2>2. RostersOK'
    BY <1>1, <1>4, <1>6, <2>1 DEF RostersOK, OneBoss
  <2>3. TurfOK'
    BY <1>1, <1>4, <1>6 DEF TurfOK, InfluenceAddsUp
  <2> QED
    BY <1>2, <1>3, <2>2, <2>3 DEF CommIInv
<1> QED
  BY <1>5, <1>6 DEF Disband, Deletable

LEMMA QuitStep ==
  ASSUME CommIInv, NEW t \in Threads, Quit(t)
  PROVE  CommIInv'
<1> DEFINE p == call[t].who
<1>1. /\ CallsOK /\ call[t].at = "quit" /\ End(t) /\ UNCHANGED <<alive, fees, district>>
      /\ home' = [home EXCEPT ![p] = Nobody] /\ rank' = [rank EXCEPT ![p] = "none"]
  BY DEF CommIInv, Quit, At
<1>2. /\ CallsOK' /\ call'[t].at = "idle"
      /\ \A u \in Threads : u # t => call'[u] = call[u]
  BY <1>1, CallEnds
<1>3. RostersOK
  BY DEF CommIInv
<1>4. \A q \in People : /\ home'[q] = IF q = p THEN Nobody ELSE home[q]
                        /\ rank'[q] = IF q = p THEN "none" ELSE rank[q]
  BY <1>1, <1>3 DEF RostersOK
<1>5. RostersOK'
  BY <1>1, <1>3, <1>4, CommunityAssumption DEF RostersOK, OneBoss
<1>6. FeesOK' /\ RosterRoom'
  BY <1>1, <1>2, <1>4, FeesKept, RoomKept DEF CommIInv
<1>7. TurfOK'
  BY <1>1, TurfKept DEF CommIInv, TurfOK
<1> QED
  BY <1>2, <1>5, <1>6, <1>7 DEF CommIInv

LEMMA PromoteStep ==
  ASSUME CommIInv, NEW t \in Threads, Promote(t)
  PROVE  CommIInv'
<1> DEFINE p == call[t].who
<1>1. /\ CallsOK /\ call[t].at = "promote" /\ End(t) /\ UNCHANGED <<alive, home, fees, district>>
      /\ rank' = IF home[p] = Nobody THEN rank ELSE [rank EXCEPT ![p] = call[t].rank]
  BY DEF CommIInv, Promote, At
<1>2. p \in People /\ call[t].rank \in Ranks
  <2>1. call[t] \in PromoteCall
    BY <1>1, CallShape DEF CallsOK
  <2> QED
    BY <2>1 DEF PromoteCall
<1>3. /\ CallsOK' /\ call'[t].at = "idle"
      /\ \A u \in Threads : u # t => call'[u] = call[u]
  BY <1>1, CallEnds
<1>4. RostersOK
  BY DEF CommIInv
<1>5. \A q \in People : rank'[q] = IF q = p /\ home[p] # Nobody THEN call[t].rank ELSE rank[q]
  BY <1>1, <1>4 DEF RostersOK
<1>6. RostersOK'
  BY <1>1, <1>2, <1>4, <1>5 DEF RostersOK, OneBoss, Ranks
<1>7. FeesOK' /\ RosterRoom'
  BY <1>1, <1>3, FeesKept, RoomKept DEF CommIInv
<1>8. TurfOK'
  BY <1>1, TurfKept DEF CommIInv, TurfOK
<1> QED
  BY <1>3, <1>6, <1>7, <1>8 DEF CommIInv

LEMMA InfluenceReadStep ==
  ASSUME CommIInv, NEW t \in Threads, InfluenceRead(t)
  PROVE  CommIInv'
<1> DEFINE c == [at |-> "commit", faction |-> call[t].faction, attempt |-> call[t].attempt, seen |-> influence]
<1>1. /\ CallsOK /\ call[t].at = "influence" /\ influence[call[t].faction] < MaxInfluence
      /\ UNCHANGED <<rosters, fees, district>> /\ call \in [Threads -> CallSet]
  BY DEF CommIInv, CallsOK, InfluenceRead, At
<1>2. call[t] \in AwardCall
  BY <1>1, CallShape
<1>3. influence \in [Factions -> 0..MaxInfluence]
  BY DEF CommIInv, TurfOK
<1>4. c \in CommitCall /\ c.at = "commit" /\ c.seen[c.faction] < MaxInfluence
  BY <1>1, <1>2, <1>3 DEF AwardCall, CommitCall
<1>5. call' = [call EXCEPT ![t] = c]
  BY <1>1 DEF InfluenceRead
<1> HIDE DEF c
<1>6. /\ CallsOK' /\ call'[t] = c
      /\ \A u \in Threads : u # t => call'[u] = call[u]
  BY <1>1, <1>4, <1>5, CallReplaced DEF CallSet
<1> QED
  BY <1>1, <1>4, <1>6, QuietStep

\* The scores that were read are the scores there are: none is lost.
LEMMA InfluenceCommitStep ==
  ASSUME CommIInv, NEW t \in Threads, InfluenceCommit(t)
  PROVE  CommIInv'
<1> DEFINE f == call[t].faction
           scores == [call[t].seen EXCEPT ![f] = @ + 1]
           again == [at |-> "influence", faction |-> f, attempt |-> call[t].attempt + 1]
<1>1. CallsOK /\ call[t].at = "commit" /\ UNCHANGED <<rosters, fees>>
  BY DEF CommIInv, InfluenceCommit, At
<1>2. /\ call[t] \in CommitCall /\ f \in Factions /\ call[t].attempt \in Nat
      /\ call[t].seen \in [Factions -> 0..MaxInfluence] /\ call[t].seen[f] < MaxInfluence
  <2>1. call[t] \in CommitCall /\ call[t].seen[f] < MaxInfluence
    BY <1>1, CallShape DEF CallsOK, At
  <2> QED
    BY <2>1 DEF CommitCall
<1>3. CASE call' = [call EXCEPT ![t] = again] /\ UNCHANGED district
  <2>1. again \in AwardCall /\ again.at = "influence"
    BY <1>2 DEF AwardCall
  <2> HIDE DEF again
  <2>2. /\ CallsOK' /\ call'[t] = again
        /\ \A u \in Threads : u # t => call'[u] = call[u]
    BY <1>1, <1>3, <2>1, CallReplaced DEF CallSet
  <2> QED
    BY <1>1, <1>3, <2>1, <2>2, QuietStep
<1>4. CASE End(t) /\ UNCHANGED district
  <2>1. /\ CallsOK' /\ call'[t].at = "idle"
        /\ \A u \in Threads : u # t => call'[u] = call[u]
    BY <1>1, <1>4, CallEnds
  <2> QED
    BY <1>1, <1>4, <2>1, QuietStep
<1>5. CASE /\ End(t) /\ call[t].seen = influence
           /\ \E top \in {g \in Factions : \A h \in Factions : scores[h] <= scores[g]} :
                /\ top \in alive /\ influence' = scores /\ controller' = top
                /\ earned' = [earned EXCEPT ![f] = @ + 1]
  <2>1. /\ CallsOK' /\ call'[t].at = "idle"
        /\ \A u \in Threads : u # t => call'[u] = call[u]
    BY <1>1, <1>5, CallEnds
  <2>2. RostersOK' /\ FeesOK' /\ RosterRoom'
    BY <1>1, <2>1, RostersKept, FeesKept, RoomKept DEF CommIInv, rosters
  <2>3. TurfOK'
    <3>1. PICK top \in Factions : /\ \A h \in Factions : scores[h] <= scores[top]
                                  /\ top \in alive /\ influence' = scores /\ controller' = top
                                  /\ earned' = [earned EXCEPT ![f] = @ + 1]
      BY <1>5
    <3>2. influence = earned /\ MaxInfluence \in Nat
      BY CommunityAssumption DEF CommIInv, TurfOK, InfluenceAddsUp
    <3>3. scores \in [Factions -> 0..MaxInfluence]
      BY <1>2, <3>2
    <3>4. influence' = earned'
      BY <1>5, <3>1, <3>2
    <3>5. alive' = alive
      BY <1>1 DEF rosters
    <3> HIDE DEF scores
    <3> QED
      BY <3>1, <3>3, <3>4, <3>5 DEF TurfOK, InfluenceAddsUp
  <2> QED
    BY <2>1, <2>2, <2>3 DEF CommIInv
<1> HIDE DEF scores
<1>6. CASE Conflicts(t)
  BY <1>3, <1>4, <1>6 DEF InfluenceCommit
<1>7. CASE ~Conflicts(t)
  BY <1>4, <1>5, <1>7 DEF InfluenceCommit, Conflicts, scores
<1> QED
  BY <1>6, <1>7

LEMMA CommunityInit == InitCommunity => CommIInv
<1> SUFFICES ASSUME InitCommunity PROVE CommIInv
  OBVIOUS
<1>1. /\ call = [t \in Threads |-> Idle] /\ home \in Homes
      /\ alive = {home[p] : p \in People} \ {Nobody}
      /\ rank = [p \in People |-> IF home[p] = Nobody THEN "none" ELSE "BOSS"]
      /\ founded = {key \in People \X Factions : home[key[1]] = key[2]} /\ fee = founded
      /\ refund = {} /\ astray = {} /\ doubtful = {}
      /\ influence = [f \in Factions |-> 0] /\ earned = [f \in Factions |-> 0]
      /\ controller = Nobody
  BY DEF InitCommunity, InitCalls
<1>2. /\ home \in [People -> Factions \cup {Nobody}] /\ Nobody \notin Factions
      /\ \A p, q \in People : home[p] # Nobody => p \in Founders /\ (home[p] = home[q] => p = q)
  BY <1>1, CommunityAssumption
<1>3. CallsOK /\ \A t \in Threads : call[t].at = "idle"
  BY <1>1 DEF CallsOK, CallSet, Idle, At
<1>4. RostersOK
  <2>1. /\ alive \subseteq Factions /\ rank \in [People -> {"none", "BOSS"} \cup Ranks]
        /\ \A p \in People : home[p] # Nobody => home[p] \in alive
    BY <1>1, <1>2
  <2>2. \A p \in People : (home[p] = Nobody <=> rank[p] = "none") /\ (rank[p] = "BOSS" => home[p] # Nobody)
    BY <1>1
  <2> QED
    BY <1>2, <2>1, <2>2 DEF RostersOK, OneBoss
<1>5. FeesOK
  <2>1. fee \subseteq Founders \X Factions
    BY <1>1, <1>2
  <2> QED
    BY <1>1, <1>3, <2>1 DEF FeesOK, FeeBuysFaction, Held, At
<1>6. RosterRoom
  <2> SUFFICES ASSUME NEW f \in Factions
               PROVE  Cardinality(Members(f)) + Cardinality(Joining(f)) <= Room
    BY DEF RosterRoom
  <2>1. Joining(f) = {} /\ Cardinality({}) = 0
    BY <1>3, FS_EmptySet DEF Joining, At
  <2>2. IsFiniteSet(Members(f)) /\ \A p, q \in Members(f) : p = q
    BY <1>2, Finite DEF Members
  <2>3. Cardinality(Members(f)) <= 1
    <3>1. CASE Members(f) = {}
      BY <2>1, <3>1
    <3>2. CASE Members(f) # {}
      <4>1. PICK p : Members(f) = {p}
        BY <2>2, <3>2
      <4>2. Cardinality({p}) = 1
        BY FS_Singleton
      <4> QED
        BY <4>1, <4>2
    <3> QED
      BY <3>1, <3>2
  <2>4. Cardinality(Members(f)) \in Nat
    BY <2>2, FS_CardinalityType
  <2>5. Cardinality(Threads) \in Nat /\ Cardinality(Threads) >= 1 /\ MaxMembers \in Nat /\ MaxMembers >= 1
    BY Finite
  <2> QED
    BY <2>1, <2>3, <2>4, <2>5 DEF Room
<1>7. TurfOK
  BY <1>1, CommunityAssumption DEF TurfOK, InfluenceAddsUp
<1> QED
  BY <1>3, <1>4, <1>5, <1>6, <1>7 DEF CommIInv

LEMMA CommunityStays == CommIInv /\ [NextCommunity]_communityVars => CommIInv'
<1> SUFFICES ASSUME CommIInv, [NextCommunity]_communityVars PROVE CommIInv'
  OBVIOUS
<1>1. CASE UNCHANGED communityVars
  BY <1>1 DEF communityVars, rosters, fees, district, CommIInv, CallsOK, At, RostersOK, OneBoss, FeesOK,
     FeeBuysFaction, Held, RosterRoom, Room, Members, Joining, TurfOK, InfluenceAddsUp
<1>2. CASE NextCommunity
  <2>1. PICK t \in Threads :
          \/ \E p \in People, f \in Factions : FoundRead(t, p, f) \/ JoinRead(t, p, f)
          \/ FoundFee(t) \/ FoundCreate(t) \/ FoundRefund(t) \/ JoinCreate(t)
          \/ \E p \in People : LeaveRead(t, p) \/ AwardRead(t, p)
          \/ LeaveCount(t) \/ Disband(t) \/ Quit(t) \/ Promote(t)
          \/ \E p, q \in People, r \in Ranks : PromoteRead(t, p, q, r)
          \/ InfluenceRead(t) \/ InfluenceCommit(t) \/ CrashCommunity(t)
    BY <1>2 DEF NextCommunity
  <2> QED
    BY <2>1, ReadSteps, JoinReadStep, FoundFeeStep, FoundCreateStep, FoundRefundStep, JoinCreateStep,
       LeaveCountStep, DisbandStep, QuitStep, PromoteStep, InfluenceReadStep, InfluenceCommitStep,
       CrashCommunityStep
<1> QED
  BY <1>1, <1>2

\* A fee that is not refunded bought a faction unless an answer or a process was lost, a
\* faction was bought by a fee of its own unless its founder had tried the name before or
\* nobody heard that it was created, a faction has one boss and at most the members it may have and those who were let through
\* meanwhile, and every influence that was acknowledged counts: for any number of players,
\* factions and calls.
THEOREM CommunityIsSound == SpecCommunity => []CommunityInv
<1>1. CommIInv => CommunityInv
  <2> SUFFICES ASSUME CommIInv PROVE CommunityInv
    OBVIOUS
  <2>1. CommunityTypeOK
    BY CommunityAssumption DEF CommIInv, RostersOK, FeesOK, TurfOK, CommunityTypeOK
  <2>2. FeeBuysFaction /\ OneBoss /\ InfluenceAddsUp
    BY DEF CommIInv, RostersOK, FeesOK, TurfOK
  <2>3. RosterHolds
    <3> SUFFICES ASSUME NEW f \in Factions
                 PROVE  Cardinality(Members(f)) <= MaxMembers + Cardinality(Threads) - 1
      BY DEF RosterHolds
    <3>1. IsFiniteSet(Members(f)) /\ IsFiniteSet(Joining(f))
      BY Finite
    <3>2. Cardinality(Members(f)) \in Nat /\ Cardinality(Joining(f)) \in Nat
      BY <3>1, FS_CardinalityType
    <3>3. Cardinality(Members(f)) + Cardinality(Joining(f)) <= Room /\ Room \in Nat
      BY Finite DEF CommIInv, RosterRoom
    <3> QED
      BY <3>2, <3>3 DEF Room
  <2> QED
    BY <2>1, <2>2, <2>3 DEF CommunityInv
<1> QED
  BY <1>1, CommunityInit, CommunityStays, PTL DEF SpecCommunity

-----------------------------------------------------------------------------
(* Accounts and sessions: the inductive invariant.                         *)

Token == 0..Len(users)
Session == [token : Token, profile : Token]
Await == [at : {"done", "guest", "guest me", "me"}, token : Token]
TabSet == [page : {"closed", "app", "callback"}, session : Session, init : Await, refresh : Await,
           landed : Token, unlucky : BOOLEAN]
LoginSet == {NoLogin} \cup [at : {"answered"}, token : Token]
            \cup [at : {"callback", "guest", "update", "upsert"}, who : Identities, upgrade : Token]

AccountShapes ==
  /\ users \in Seq(Identities \cup {Guest}) /\ Len(users) <= MaxAccounts
  /\ login \in [Tabs -> LoginSet]
  /\ tab \in [Tabs -> TabSet]
  /\ stored \in Session
  /\ \A a \in told : a[1] \in Identities /\ a[2] \in DOMAIN users

\* An identity has one account, and so has a sign-in that upgrades a guest: the account
\* is still a guest's, or another sign-in read it as one too.
UpgradesOK ==
  /\ \A i \in Identities : \A u, v \in Holders(i) : u = v
  /\ \A b \in Tabs : login[b].at \in {"guest", "update"} => login[b].upgrade # NoAccount
  /\ \A b \in Tabs : login[b].at = "update" =>
       users[login[b].upgrade] = Guest \/ login[b].upgrade \in shared
  /\ \A b, c \in Tabs :
       login[b].at = "update" /\ login[c].at = "update" /\ login[b].upgrade = login[c].upgrade =>
         b = c \/ login[b].upgrade \in shared

\* What a tab waits for was asked for under the token it has.
TabOwn(t) ==
  t.page # "closed" /\ ~t.unlucky =>
    /\ t.init.at \in {"me", "guest me"} => t.init.token = t.session.token
    /\ t.init.at = "guest" =>
         t.page = "app" /\ t.session.token = NoAccount /\ t.refresh = Done /\ t.landed = NoAccount
    /\ t.refresh # Done => t.refresh.at = "me" /\ t.refresh.token = t.session.token
    /\ t.landed # NoAccount \/ t.page = "callback" => t.session.token = t.landed
    /\ t.init = Done /\ t.refresh = Done => t.session.profile = t.session.token

AIInv == AccountShapes /\ UpgradesOK /\ IdentityKept /\ \A b \in Tabs : TabOwn(tab[b])

LEMMA UsersGrow ==
  ASSUME users \in Seq(Identities \cup {Guest}), NEW x \in Identities \cup {Guest}, users' = Append(users, x)
  PROVE  /\ users' \in Seq(Identities \cup {Guest}) /\ Len(users') = Len(users) + 1
         /\ DOMAIN users' = DOMAIN users \cup {New} /\ users'[New] = x
         /\ \A u \in DOMAIN users : users'[u] = users[u]
BY DEF New

LEMMA TokensGrow ==
  ASSUME users \in Seq(Identities \cup {Guest}), users' \in Seq(Identities \cup {Guest}),
         Len(users) <= Len(users')
  PROVE  /\ Token \subseteq Token' /\ Session \subseteq Session'
         /\ TabSet \subseteq TabSet' /\ LoginSet \subseteq LoginSet'
<1>1. Token \subseteq Token'
  BY DEF Token
<1>2. Session \subseteq Session' /\ Await \subseteq Await'
  BY <1>1 DEF Session, Await
<1>3. TabSet \subseteq TabSet'
  BY <1>1, <1>2 DEF TabSet
<1>4. LoginSet \subseteq LoginSet'
  BY <1>1 DEF LoginSet
<1> QED
  BY <1>1, <1>2, <1>3, <1>4

\* A step of one tab and its sign-in, that may make an account.
LEMMA AccountStep ==
  ASSUME AIInv, NEW b \in Tabs, NEW t, NEW r,
         \/ users' = users
         \/ \E x \in Identities \cup {Guest} :
              /\ users' = Append(users, x) /\ New <= MaxAccounts
              /\ x \in Identities => Holders(x) = {},
         t \in TabSet', TabOwn(t), tab' = [tab EXCEPT ![b] = t],
         r \in LoginSet', login' = [login EXCEPT ![b] = r],
         \/ r = login[b]
         \/ r.at \notin {"guest", "update"}
         \/ r.at = "guest" /\ r.upgrade # NoAccount
         \/ /\ r.at = "update" /\ r.upgrade # NoAccount /\ users[r.upgrade] = Guest
            /\ r.upgrade \in DOMAIN users
            /\ \A c \in Tabs : c # b /\ login[c].at = "update" /\ login[c].upgrade = r.upgrade =>
                 r.upgrade \in shared',
         stored' \in Session', shared \subseteq shared',
         \A a \in told' : a \in told \/
           (a[1] \in Identities /\ a[2] \in DOMAIN users' /\ users'[a[2]] = a[1])
  PROVE  AIInv'
<1>1. /\ users' \in Seq(Identities \cup {Guest}) /\ Len(users) <= Len(users') /\ Len(users') <= MaxAccounts
      /\ DOMAIN users \subseteq DOMAIN users'
      /\ \A u \in DOMAIN users : users'[u] = users[u]
      /\ users \in Seq(Identities \cup {Guest})
  <2>1. users \in Seq(Identities \cup {Guest}) /\ Len(users) <= MaxAccounts /\ Len(users) \in Nat
    BY DEF AIInv, AccountShapes
  <2>2. CASE users' = users
    BY <2>1, <2>2
  <2>3. CASE users' # users
    <3>1. PICK x \in Identities \cup {Guest} : users' = Append(users, x) /\ New <= MaxAccounts
      BY <2>3
    <3> QED
      BY <2>1, <3>1, UsersGrow DEF New
  <2> QED
    BY <2>2, <2>3
<1>2. TabSet \subseteq TabSet' /\ LoginSet \subseteq LoginSet'
  BY <1>1, TokensGrow
<1>3. /\ login \in [Tabs -> LoginSet] /\ tab \in [Tabs -> TabSet]
      /\ \A c \in Tabs : login'[c] = IF c = b THEN r ELSE login[c]
      /\ \A c \in Tabs : tab'[c] = IF c = b THEN t ELSE tab[c]
  BY DEF AIInv, AccountShapes
<1>4. AccountShapes'
  <2>1. login' \in [Tabs -> LoginSet'] /\ tab' \in [Tabs -> TabSet']
    BY <1>2, <1>3
  <2>2. \A a \in told' : a[1] \in Identities /\ a[2] \in DOMAIN users'
    BY <1>1 DEF AIInv, AccountShapes
  <2> QED
    BY <1>1, <2>1, <2>2 DEF AccountShapes
<1>5. \A i \in Identities : \A u, v \in Holders(i)' : u = v
  <2>1. \A i \in Identities : \A u, v \in Holders(i) : u = v
    BY DEF AIInv, UpgradesOK
  <2>2. CASE users' = users
    BY <2>1, <2>2 DEF Holders
  <2>3. CASE users' # users
    <3>1. PICK x \in Identities \cup {Guest} :
            users' = Append(users, x) /\ (x \in Identities => Holders(x) = {})
      BY <2>3
    <3>2. DOMAIN users' = DOMAIN users \cup {New} /\ users'[New] = x
      BY <1>1, <3>1, UsersGrow
    <3>3. \A i \in Identities : \A u \in Holders(i)' : u \in Holders(i) \/ (u = New /\ i = x)
      BY <1>1, <3>2 DEF Holders
    <3>4. ASSUME NEW i \in Identities, NEW u \in Holders(i)', NEW v \in Holders(i)'
          PROVE  u = v
      BY <2>1, <3>1, <3>3, <3>4
    <3> QED
      BY <3>4
  <2> QED
    BY <2>2, <2>3
<1>6. UpgradesOK'
  <2>1. \A c \in Tabs : login'[c].at \in {"guest", "update"} => login'[c].upgrade # NoAccount
    BY <1>3 DEF AIInv, UpgradesOK
  <2>2. ASSUME NEW c \in Tabs, login[c].at = "update"
        PROVE  login[c].upgrade \in DOMAIN users
    <3>1. login[c] \in [at : {"callback", "guest", "update", "upsert"}, who : Identities, upgrade : Token]
      BY <1>3, <2>2 DEF LoginSet, NoLogin
    <3>2. login[c].upgrade \in Token /\ login[c].upgrade # 0
      BY <2>2, <3>1 DEF AIInv, UpgradesOK, NoAccount
    <3> QED
      BY <1>1, <3>2 DEF Token
  <2>3. ASSUME NEW c \in Tabs, login'[c].at = "update"
        PROVE  users'[login'[c].upgrade] = Guest \/ login'[c].upgrade \in shared'
    <3>1. CASE login'[c] = login[c]
      BY <1>1, <2>2, <2>3, <3>1 DEF AIInv, UpgradesOK
    <3>2. CASE login'[c] # login[c]
      BY <1>1, <1>3, <2>3, <3>2
    <3> QED
      BY <3>1, <3>2
  <2>4. ASSUME NEW c \in Tabs, NEW d \in Tabs, login'[c].at = "update", login'[d].at = "update",
               login'[c].upgrade = login'[d].upgrade, c # d
        PROVE  login'[c].upgrade \in shared'
    <3>1. CASE login'[c] = login[c] /\ login'[d] = login[d]
      BY <2>4, <3>1 DEF AIInv, UpgradesOK
    <3>2. CASE login'[c] # login[c]
      BY <1>3, <2>4, <3>2
    <3>3. CASE login'[d] # login[d]
      BY <1>3, <2>4, <3>3
    <3> QED
      BY <3>1, <3>2, <3>3
  <2> QED
    BY <1>5, <2>1, <2>3, <2>4 DEF UpgradesOK
<1>7. IdentityKept'
  <2>1. \A a \in told : a[2] \in DOMAIN users /\ (users[a[2]] = a[1] \/ a[2] \in shared)
    BY DEF AIInv, AccountShapes, IdentityKept
  <2> QED
    BY <1>1, <2>1 DEF IdentityKept
<1>8. \A c \in Tabs : TabOwn(tab'[c])
  BY <1>3 DEF AIInv
<1> QED
  BY <1>4, <1>6, <1>7, <1>8 DEF AIInv, TabOwn, Done, NoAccount

-----------------------------------------------------------------------------
(* The API.                                                                *)

\* A handler moves the sign-in and leaves the tabs.
LEMMA HandlerStep ==
  ASSUME AIInv, NEW b \in Tabs, NEW r, ServerOnly,
         \/ users' = users
         \/ \E x \in Identities \cup {Guest} :
              /\ users' = Append(users, x) /\ New <= MaxAccounts
              /\ x \in Identities => Holders(x) = {},
         r \in LoginSet', login' = [login EXCEPT ![b] = r],
         \/ r.at \notin {"guest", "update"}
         \/ r.at = "guest" /\ r.upgrade # NoAccount
         \/ /\ r.at = "update" /\ r.upgrade # NoAccount /\ users[r.upgrade] = Guest
            /\ r.upgrade \in DOMAIN users
            /\ \A c \in Tabs : c # b /\ login[c].at = "update" /\ login[c].upgrade = r.upgrade =>
                 r.upgrade \in shared',
         shared \subseteq shared',
         \A a \in told' : a \in told \/
           (a[1] \in Identities /\ a[2] \in DOMAIN users' /\ users'[a[2]] = a[1])
  PROVE  AIInv'
<1>1. /\ users \in Seq(Identities \cup {Guest}) /\ tab \in [Tabs -> TabSet] /\ stored \in Session
      /\ TabOwn(tab[b])
  BY DEF AIInv, AccountShapes
<1>2. users' \in Seq(Identities \cup {Guest}) /\ Len(users) <= Len(users')
  BY <1>1, UsersGrow
<1>3. TabSet \subseteq TabSet' /\ Session \subseteq Session'
  BY <1>1, <1>2, TokensGrow
<1>4. tab[b] \in TabSet' /\ tab' = [tab EXCEPT ![b] = tab[b]] /\ stored' \in Session'
  BY <1>1, <1>3 DEF ServerOnly
<1> QED
  BY <1>1, <1>4, AccountStep

LEMMA LoginShape ==
  ASSUME AIInv, NEW b \in Tabs
  PROVE  /\ login[b].at \in {"callback", "guest", "update", "upsert"} =>
              /\ login[b] \in [at : {"callback", "guest", "update", "upsert"}, who : Identities, upgrade : Token]
              /\ login[b].who \in Identities /\ login[b].upgrade \in Token
         /\ login[b].at = "answered" => login[b].token \in Token
         /\ login[b].at \in {"guest", "update"} => login[b].upgrade \in DOMAIN users
         /\ login \in [Tabs -> LoginSet] /\ users \in Seq(Identities \cup {Guest})
<1>1. login[b] \in LoginSet /\ login \in [Tabs -> LoginSet] /\ users \in Seq(Identities \cup {Guest})
  BY DEF AIInv, AccountShapes
<1>2. login[b].at \in {"guest", "update"} => login[b].upgrade # 0
  BY DEF AIInv, UpgradesOK, NoAccount
<1> QED
  BY <1>1, <1>2 DEF LoginSet, NoLogin, Token

\* An answer is about an account that its identity holds.
LEMMA AnswerStep ==
  ASSUME AIInv, NEW b \in Tabs, NEW u, Answer(b, u), ServerOnly, UNCHANGED shared,
         login[b].who \in Identities, u \in DOMAIN users', users'[u] = login[b].who,
         \/ users' = users
         \/ \E x \in Identities \cup {Guest} :
              /\ users' = Append(users, x) /\ New <= MaxAccounts
              /\ x \in Identities => Holders(x) = {}
  PROVE  AIInv'
<1> DEFINE r == [at |-> "answered", token |-> u]
<1>1. users \in Seq(Identities \cup {Guest})
  BY DEF AIInv, AccountShapes
<1>2. users' \in Seq(Identities \cup {Guest})
  BY <1>1, UsersGrow
<1>3. u \in Token'
  BY <1>2 DEF Token
<1>4. r \in LoginSet' /\ r.at = "answered"
  BY <1>3 DEF LoginSet
<1>5. login' = [login EXCEPT ![b] = r] /\ told' = told \cup {<<login[b].who, u>>}
  BY DEF Answer
<1> HIDE DEF r
<1>6. \A a \in told' : a \in told \/ (a[1] \in Identities /\ a[2] \in DOMAIN users' /\ users'[a[2]] = a[1])
  BY <1>5
<1> QED
  BY <1>4, <1>5, <1>6, HandlerStep

\* The sign-in goes on with the account it found.
LEMMA SignInGoes ==
  ASSUME AIInv, NEW b \in Tabs, login[b].at \in {"callback", "guest", "update", "upsert"},
         NEW x \in {"guest", "upsert", "update"}, login' = [login EXCEPT ![b].at = x],
         ServerOnly, UNCHANGED <<users, told>>, shared \subseteq shared',
         x # "upsert" => login[b].upgrade # NoAccount,
         x = "update" =>
           /\ users[login[b].upgrade] = Guest /\ login[b].upgrade \in DOMAIN users
           /\ \A c \in Tabs : c # b /\ login[c].at = "update" /\ login[c].upgrade = login[b].upgrade =>
                login[b].upgrade \in shared'
  PROVE  AIInv'
<1> DEFINE r == [login[b] EXCEPT !.at = x]
<1>1. /\ login[b] \in [at : {"callback", "guest", "update", "upsert"}, who : Identities, upgrade : Token]
      /\ login \in [Tabs -> LoginSet]
  BY LoginShape
<1>2. /\ r \in [at : {"callback", "guest", "update", "upsert"}, who : Identities, upgrade : Token]
      /\ r.at = x /\ r.upgrade = login[b].upgrade
  BY <1>1
<1>3. login' = [login EXCEPT ![b] = r]
  BY <1>1
<1> HIDE DEF r
<1>4. r \in LoginSet'
  BY <1>2 DEF LoginSet, Token
<1>5. \/ r.at \notin {"guest", "update"}
      \/ r.at = "guest" /\ r.upgrade # NoAccount
      \/ /\ r.at = "update" /\ r.upgrade # NoAccount /\ users[r.upgrade] = Guest
         /\ r.upgrade \in DOMAIN users
         /\ \A c \in Tabs : c # b /\ login[c].at = "update" /\ login[c].upgrade = r.upgrade =>
              r.upgrade \in shared'
  BY <1>2
<1>6. \A a \in told' : a \in told
  OBVIOUS
<1> QED
  BY <1>3, <1>4, <1>5, <1>6, HandlerStep

LEMMA FindIdentityStep ==
  ASSUME AIInv, NEW b \in Tabs, FindIdentity(b)
  PROVE  AIInv'
<1>1. login[b].at = "callback" /\ UNCHANGED <<users, shared>> /\ ServerOnly /\ login[b].who \in Identities
  BY LoginShape DEF FindIdentity
<1>2. CASE \E u \in Holders(login[b].who) : Answer(b, u)
  <2>1. PICK u \in Holders(login[b].who) : Answer(b, u)
    BY <1>2
  <2>2. u \in DOMAIN users /\ users[u] = login[b].who
    BY DEF Holders
  <2> QED
    BY <1>1, <2>1, <2>2, AnswerStep
<1>3. CASE /\ login' = [login EXCEPT ![b].at = IF login[b].upgrade = NoAccount THEN "upsert" ELSE "guest"]
           /\ UNCHANGED told
  <2>1. CASE login[b].upgrade = NoAccount
    BY <1>1, <1>3, <2>1, SignInGoes
  <2>2. CASE login[b].upgrade # NoAccount
    BY <1>1, <1>3, <2>2, SignInGoes
  <2> QED
    BY <2>1, <2>2
<1> QED
  BY <1>2, <1>3 DEF FindIdentity

\* Whoever reads a guest that another sign-in has read as well shares it.
LEMMA ReadGuestStep ==
  ASSUME AIInv, NEW b \in Tabs, ReadGuest(b)
  PROVE  AIInv'
<1> DEFINE u == login[b].upgrade
           others == {c \in Tabs \ {b} : login[c].at = "update" /\ login[c].upgrade = u}
<1>1. /\ login[b].at = "guest" /\ UNCHANGED <<users, told>> /\ ServerOnly
      /\ login' = [login EXCEPT ![b].at = IF CanUpgrade(u) THEN "update" ELSE "upsert"]
      /\ shared' = IF CanUpgrade(u) /\ others # {} THEN shared \cup {u} ELSE shared
  BY DEF ReadGuest
<1>2. u \in DOMAIN users /\ u # NoAccount
  BY <1>1, LoginShape DEF AIInv, UpgradesOK
<1>3. CASE CanUpgrade(u)
  <2>1. users[u] = Guest
    BY <1>3 DEF CanUpgrade
  <2>2. \A c \in Tabs : c # b /\ login[c].at = "update" /\ login[c].upgrade = u => u \in shared'
    BY <1>1, <1>3
  <2>3. shared \subseteq shared' /\ login' = [login EXCEPT ![b].at = "update"]
    BY <1>1, <1>3
  <2> QED
    BY <1>1, <1>2, <2>1, <2>2, <2>3, SignInGoes
<1>4. CASE ~CanUpgrade(u)
  BY <1>1, <1>4, SignInGoes
<1> QED
  BY <1>3, <1>4

LEMMA UpsertStep ==
  ASSUME AIInv, NEW b \in Tabs, Upsert(b)
  PROVE  AIInv'
<1>1. /\ login[b].at = "upsert" /\ UNCHANGED shared /\ ServerOnly /\ login[b].who \in Identities
      /\ users \in Seq(Identities \cup {Guest})
  BY LoginShape DEF Upsert
<1>2. CASE Holders(login[b].who) # {}
  <2>1. PICK u \in Holders(login[b].who) : Answer(b, u)
    BY <1>2 DEF Upsert
  <2>2. u \in DOMAIN users /\ users[u] = login[b].who /\ UNCHANGED users
    BY <1>2 DEF Holders, Upsert
  <2> QED
    BY <1>1, <2>1, <2>2, AnswerStep
<1>3. CASE Holders(login[b].who) = {}
  <2>1. New <= MaxAccounts /\ users' = Append(users, login[b].who) /\ Answer(b, New)
    BY <1>3 DEF Upsert
  <2>2. New \in DOMAIN users' /\ users'[New] = login[b].who
    BY <1>1, <2>1, UsersGrow
  <2>3. \E x \in Identities \cup {Guest} :
          /\ users' = Append(users, x) /\ New <= MaxAccounts
          /\ x \in Identities => Holders(x) = {}
    BY <1>1, <1>3, <2>1
  <2> QED
    BY <1>1, <2>1, <2>2, <2>3, AnswerStep
<1> QED
  BY <1>2, <1>3

LEMMA CallbackFailsStep ==
  ASSUME AIInv, NEW b \in Tabs, CallbackFails(b)
  PROVE  AIInv'
<1>1. NoLogin \in LoginSet' /\ NoLogin.at = "none"
  BY DEF LoginSet, NoLogin
<1>2. /\ login' = [login EXCEPT ![b] = NoLogin] /\ UNCHANGED <<users, tab, stored, told, shared>>
  BY DEF CallbackFails, ExchangeFails
<1>3. \A a \in told' : a \in told
  BY <1>2
<1>4. tab[b] \in TabSet' /\ tab' = [tab EXCEPT ![b] = tab[b]] /\ stored' \in Session' /\ TabOwn(tab[b])
  <2>1. tab \in [Tabs -> TabSet] /\ stored \in Session /\ TabOwn(tab[b])
    BY DEF AIInv, AccountShapes
  <2> QED
    BY <1>2, <2>1 DEF TabSet, Session, Await, Token
<1> QED
  BY <1>1, <1>2, <1>3, <1>4, AccountStep

\* The account of a guest becomes the identity's; whoever was told it is theirs shares it.
LEMMA UpgradeStep ==
  ASSUME AIInv, NEW b \in Tabs, Upgrade(b)
  PROVE  AIInv'
<1> DEFINE u == login[b].upgrade
           i == login[b].who
<1>1. /\ login[b].at = "update" /\ UNCHANGED shared /\ ServerOnly
      /\ i \in Identities /\ u \in DOMAIN users
      /\ users \in Seq(Identities \cup {Guest}) /\ login \in [Tabs -> LoginSet]
  BY LoginShape DEF Upgrade
<1>2. CASE login' = [login EXCEPT ![b] = NoLogin] /\ UNCHANGED <<users, told>>
  <2>1. NoLogin \in LoginSet' /\ NoLogin.at = "none"
    BY DEF LoginSet, NoLogin
  <2> QED
    BY <1>1, <1>2, <2>1, HandlerStep
<1>3. CASE /\ Holders(i) \subseteq {u} /\ users' = [users EXCEPT ![u] = i] /\ Answer(b, u)
  <2>1. /\ users' \in Seq(Identities \cup {Guest}) /\ Len(users') = Len(users)
        /\ DOMAIN users' = DOMAIN users
        /\ \A v \in DOMAIN users : users'[v] = IF v = u THEN i ELSE users[v]
    BY <1>1, <1>3
  <2> DEFINE r == [at |-> "answered", token |-> u]
  <2>2. r \in LoginSet' /\ r.at = "answered"
    BY <1>1, <2>1 DEF LoginSet, Token
  <2>3. login' = [login EXCEPT ![b] = r] /\ told' = told \cup {<<i, u>>}
    BY <1>3 DEF Answer
  <2> HIDE DEF r
  <2>4. \A c \in Tabs : login'[c] = IF c = b THEN r ELSE login[c]
    BY <1>1, <2>3
  <2>5. UNCHANGED <<tab, stored, shared>>
    BY <1>1 DEF ServerOnly
  <2>6. AccountShapes'
    <3>1. /\ tab \in [Tabs -> TabSet] /\ stored \in Session /\ Len(users) <= MaxAccounts
          /\ \A a \in told : a[1] \in Identities /\ a[2] \in DOMAIN users
      BY DEF AIInv, AccountShapes
    <3>2. Session \subseteq Session' /\ TabSet \subseteq TabSet' /\ LoginSet \subseteq LoginSet'
      BY <1>1, <2>1, TokensGrow
    <3>3. tab' \in [Tabs -> TabSet'] /\ stored' \in Session'
      BY <2>5, <3>1, <3>2
    <3>4. login' \in [Tabs -> LoginSet']
      BY <1>1, <2>2, <2>3, <3>2
    <3>5. \A a \in told' : a[1] \in Identities /\ a[2] \in DOMAIN users'
      BY <1>1, <2>1, <2>3, <3>1
    <3> QED
      BY <2>1, <3>1, <3>3, <3>4, <3>5 DEF AccountShapes
  <2>7. \A j \in Identities : \A v, w \in Holders(j)' : v = w
    <3>1. \A j \in Identities : \A v, w \in Holders(j) : v = w
      BY DEF AIInv, UpgradesOK
    <3> SUFFICES ASSUME NEW j \in Identities, NEW v \in Holders(j)', NEW w \in Holders(j)' PROVE v = w
      OBVIOUS
    <3>2. v \in DOMAIN users /\ w \in DOMAIN users /\ users'[v] = j /\ users'[w] = j
      BY <2>1 DEF Holders
    <3>3. CASE j = i
      <4>1. \A k \in DOMAIN users : users'[k] = i => k = u
        BY <1>3, <2>1 DEF Holders
      <4> QED
        BY <3>2, <3>3, <4>1
    <3>4. CASE j # i
      <4>1. v \in Holders(j) /\ w \in Holders(j)
        BY <2>1, <3>2, <3>4 DEF Holders
      <4> QED
        BY <3>1, <4>1
    <3> QED
      BY <3>3, <3>4
  <2>8. \A c \in Tabs : login'[c].at \in {"guest", "update"} => c # b /\ login'[c] = login[c]
    BY <2>2, <2>4
  <2>9. ASSUME NEW c \in Tabs, login'[c].at = "update"
        PROVE  users'[login'[c].upgrade] = Guest \/ login'[c].upgrade \in shared
    <3>1. c # b /\ login'[c] = login[c] /\ login[c].upgrade \in DOMAIN users
      BY <2>8, <2>9, LoginShape
    <3>2. CASE login[c].upgrade = u
      BY <1>1, <2>9, <3>1, <3>2 DEF AIInv, UpgradesOK
    <3>3. CASE login[c].upgrade # u
      BY <2>1, <2>9, <3>1, <3>3 DEF AIInv, UpgradesOK
    <3> QED
      BY <3>2, <3>3
  <2>10. UpgradesOK'
    BY <2>5, <2>7, <2>8, <2>9 DEF AIInv, UpgradesOK
  <2>11. IdentityKept'
    <3> SUFFICES ASSUME NEW a \in told', a # <<i, u>> PROVE users'[a[2]] = a[1] \/ a[2] \in shared
      BY <1>1, <2>1, <2>5 DEF IdentityKept
    <3>1. a \in told /\ a[1] \in Identities /\ a[2] \in DOMAIN users /\ (users[a[2]] = a[1] \/ a[2] \in shared)
      BY <2>3 DEF AIInv, AccountShapes, IdentityKept
    <3>2. CASE a[2] = u
      <4>1. users[u] = Guest \/ u \in shared
        BY <1>1 DEF AIInv, UpgradesOK
      <4> QED
        BY <3>1, <3>2, <4>1, AccountAssumption
    <3>3. CASE a[2] # u
      BY <2>1, <3>1, <3>3
    <3> QED
      BY <3>2, <3>3
  <2>12. (\A c \in Tabs : TabOwn(tab[c]))'
    BY <2>5 DEF AIInv, TabOwn, Done, NoAccount
  <2> QED
    BY <2>6, <2>10, <2>11, <2>12 DEF AIInv
<1> QED
  BY <1>2, <1>3 DEF Upgrade

-----------------------------------------------------------------------------
(* The tabs.                                                               *)

LEMMA TabShape ==
  ASSUME AIInv, NEW b \in Tabs
  PROVE  /\ tab[b] \in TabSet /\ TabOwn(tab[b]) /\ tab \in [Tabs -> TabSet]
         /\ tab[b].session \in Session /\ tab[b].session.token \in Token /\ tab[b].session.profile \in Token
         /\ tab[b].init \in Await /\ tab[b].refresh \in Await
         /\ tab[b].init.token \in Token /\ tab[b].refresh.token \in Token /\ tab[b].landed \in Token
         /\ stored \in Session /\ stored.token \in Token /\ stored.profile \in Token
         /\ users \in Seq(Identities \cup {Guest})
<1>1. tab \in [Tabs -> TabSet] /\ TabOwn(tab[b]) /\ stored \in Session /\ users \in Seq(Identities \cup {Guest})
  BY DEF AIInv, AccountShapes
<1>2. tab[b] \in TabSet
  BY <1>1
<1>3. /\ tab[b].session \in Session /\ tab[b].init \in Await /\ tab[b].refresh \in Await
      /\ tab[b].landed \in Token
  BY <1>2 DEF TabSet
<1> QED
  BY <1>1, <1>2, <1>3 DEF Session, Await

\* A tab's own step.
LEMMA TabStep ==
  ASSUME AIInv, NEW b \in Tabs, NEW t, TabOnly, users' = users,
         t \in TabSet, TabOwn(t), tab' = [tab EXCEPT ![b] = t], stored' \in {stored, t.session}
  PROVE  AIInv'
<1>1. /\ login[b] \in LoginSet /\ login \in [Tabs -> LoginSet] /\ stored \in Session
      /\ users \in Seq(Identities \cup {Guest})
  BY DEF AIInv, AccountShapes
<1>2. TabSet \subseteq TabSet' /\ LoginSet \subseteq LoginSet' /\ Session \subseteq Session'
  BY <1>1, TokensGrow
<1>3. t.session \in Session
  BY DEF TabSet
<1>4. /\ login' = [login EXCEPT ![b] = login[b]] /\ login[b] \in LoginSet' /\ t \in TabSet'
      /\ stored' \in Session' /\ shared \subseteq shared' /\ \A a \in told' : a \in told
  BY <1>1, <1>2, <1>3 DEF TabOnly
<1> QED
  BY <1>4, AccountStep

LEMMA Dones ==
  ASSUME AIInv
  PROVE  /\ Done \in Await /\ Done.at = "done" /\ NoAccount \in Token /\ SignedOut \in Session
         /\ SignedOut.token = NoAccount /\ SignedOut.profile = NoAccount
<1>1. 0 \in Token
  BY DEF AIInv, AccountShapes, Token
<1> QED
  BY <1>1 DEF Done, Await, NoAccount, SignedOut, Session

LEMMA InitProfileStep ==
  ASSUME AIInv, NEW b \in Tabs, InitProfile(b)
  PROVE  AIInv'
<1> DEFINE t == [tab[b] EXCEPT !.session.profile = tab[b].init.token, !.init = Done]
<1>1. /\ tab[b].page # "closed" /\ tab[b].init.at = "me" /\ TabOnly /\ users' = users
      /\ tab' = [tab EXCEPT ![b] = t] /\ stored' = t.session
  BY DEF InitProfile, Awaits, Save
<1>2. /\ t \in TabSet /\ t.page = tab[b].page /\ t.unlucky = tab[b].unlucky
      /\ t.session = [token |-> tab[b].session.token, profile |-> tab[b].init.token]
      /\ t.init = Done /\ t.refresh = tab[b].refresh /\ t.landed = tab[b].landed
  BY TabShape, Dones DEF TabSet, Session, Await
<1> HIDE DEF t
<1>3. TabOwn(t)
  <2> SUFFICES ASSUME t.page # "closed", ~t.unlucky
               PROVE  /\ t.refresh # Done => t.refresh.at = "me" /\ t.refresh.token = t.session.token
                      /\ t.landed # NoAccount \/ t.page = "callback" => t.session.token = t.landed
                      /\ t.session.profile = t.session.token
    BY <1>2, Dones DEF TabOwn
  <2>1. ~tab[b].unlucky
    BY <1>2
  <2>2. /\ tab[b].init.token = tab[b].session.token
        /\ tab[b].refresh # Done => tab[b].refresh.at = "me" /\ tab[b].refresh.token = tab[b].session.token
        /\ tab[b].landed # NoAccount \/ tab[b].page = "callback" => tab[b].session.token = tab[b].landed
    BY <1>1, <2>1, TabShape DEF TabOwn
  <2>3. t.session.token = tab[b].session.token /\ t.session.profile = tab[b].init.token
    BY <1>2
  <2> QED
    BY <1>2, <2>2, <2>3
<1> QED
  BY <1>1, <1>2, <1>3, TabStep

LEMMA Callings ==
  ASSUME AIInv, NEW u \in Token
  PROVE  /\ Calling(u) \in Await /\ Calling(u).at = "me" /\ Calling(u).token = u /\ Calling(u) # Done
         /\ [at |-> "guest", token |-> NoAccount] \in Await
         /\ [at |-> "guest", token |-> NoAccount] # Done
BY Dones DEF Calling, Await, Done

LEMMA StartingShape ==
  ASSUME AIInv, NEW b \in Tabs, NEW page \in {"app", "callback"}, NEW s, s = Starting(stored, page)
  PROVE  /\ s \in TabSet /\ s.page = page /\ s.session = stored /\ s.refresh = Done
         /\ s.landed = NoAccount /\ s.unlucky = FALSE
         /\ s.init = IF stored.token = NoAccount THEN [at |-> "guest", token |-> NoAccount] ELSE Calling(stored.token)
<1> DEFINE i == IF stored.token = NoAccount THEN [at |-> "guest", token |-> NoAccount] ELSE Calling(stored.token)
<1>1. i \in Await /\ Done \in Await /\ stored \in Session /\ NoAccount \in Token /\ SignedOut \in Session
  BY TabShape, Dones, Callings
<1>2. s = [page |-> page, session |-> stored, init |-> i, refresh |-> Done, landed |-> NoAccount, unlucky |-> FALSE]
  BY DEF Starting, Closed
<1> HIDE DEF i
<1>3. /\ s \in TabSet /\ s.page = page /\ s.session = stored /\ s.refresh = Done
      /\ s.landed = NoAccount /\ s.unlucky = FALSE /\ s.init = i
  BY <1>1, <1>2 DEF TabSet
<1> QED
  BY <1>3 DEF i

\* A tab one of whose calls has failed promises nothing.
LEMMA UnluckyStep ==
  ASSUME AIInv, NEW b \in Tabs, NEW t, TabOnly, users' = users,
         t \in TabSet, t.unlucky = TRUE, tab' = [tab EXCEPT ![b] = t], stored' \in {stored, t.session}
  PROVE  AIInv'
<1>1. TabOwn(t)
  BY DEF TabOwn
<1> QED
  BY <1>1, TabStep

LEMMA LoadStep ==
  ASSUME AIInv, NEW b \in Tabs, Load(b)
  PROVE  AIInv'
<1>1. PICK t : t = Starting(stored, "app")
  OBVIOUS
<1>2. tab' = [tab EXCEPT ![b] = t] /\ TabOnly /\ UNCHANGED <<users, stored>>
  BY <1>1 DEF Load, TabOnly
<1>3. /\ t \in TabSet /\ t.page = "app" /\ t.session = stored /\ t.refresh = Done
      /\ t.landed = NoAccount
      /\ t.init = IF stored.token = NoAccount THEN [at |-> "guest", token |-> NoAccount] ELSE Calling(stored.token)
  BY <1>1, StartingShape
<1>4. TabOwn(t)
  <2>1. CASE stored.token = NoAccount
    <3>1. t.init = [at |-> "guest", token |-> NoAccount] /\ t.init # Done
      BY <1>3, <2>1, TabShape, Callings
    <3> QED
      BY <1>3, <2>1, <3>1 DEF TabOwn
  <2>2. CASE stored.token # NoAccount
    <3>1. t.init.at = "me" /\ t.init.token = stored.token /\ t.init # Done
      BY <1>3, <2>2, TabShape, Callings
    <3> QED
      BY <1>3, <3>1 DEF TabOwn
  <2> QED
    BY <2>1, <2>2
<1> QED
  BY <1>2, <1>3, <1>4, TabStep

LEMMA InitFailsStep ==
  ASSUME AIInv, NEW b \in Tabs, InitFails(b)
  PROVE  AIInv'
<1> DEFINE t == [tab[b] EXCEPT !.session = SignedOut, !.init = [at |-> "guest", token |-> NoAccount], !.unlucky = TRUE]
<1>1. TabOnly /\ users' = users /\ tab' = [tab EXCEPT ![b] = t] /\ stored' = t.session
  BY DEF InitFails, Save
<1>2. t \in TabSet /\ t.unlucky = TRUE
  <2>1. tab[b] \in TabSet /\ SignedOut \in Session /\ [at |-> "guest", token |-> NoAccount] \in Await
    BY TabShape, Dones, Callings
  <2> QED
    BY <2>1 DEF TabSet
<1> HIDE DEF t
<1> QED
  BY <1>1, <1>2, UnluckyStep

LEMMA RefreshFailsStep ==
  ASSUME AIInv, NEW b \in Tabs, RefreshFails(b)
  PROVE  AIInv'
<1> DEFINE t == [tab[b] EXCEPT !.refresh = Done, !.unlucky = TRUE]
<1>1. /\ tab[b] \in TabSet /\ Done \in Await /\ tab \in [Tabs -> TabSet]
  BY TabShape, Dones
<1>2. TabOnly /\ users' = users /\ tab' = [tab EXCEPT ![b] = t] /\ stored' = stored
  BY <1>1 DEF RefreshFails
<1>3. t \in TabSet /\ t.unlucky = TRUE
  BY <1>1 DEF TabSet
<1> HIDE DEF t
<1> QED
  BY <1>2, <1>3, UnluckyStep

\* An account that is made, or may have been made, for a guest.
LEMMA GuestMade ==
  ASSUME AIInv, NEW b \in Tabs, NEW t, TabOnly,
         users' = users \/ (users' = Append(users, Guest) /\ New <= MaxAccounts),
         t \in TabSet', TabOwn(t), tab' = [tab EXCEPT ![b] = t], stored' \in {stored, t.session}
  PROVE  AIInv'
<1>1. /\ login[b] \in LoginSet /\ login \in [Tabs -> LoginSet] /\ stored \in Session
      /\ users \in Seq(Identities \cup {Guest})
  BY DEF AIInv, AccountShapes
<1>2. users' \in Seq(Identities \cup {Guest}) /\ Len(users) <= Len(users')
  BY <1>1, UsersGrow
<1>3. LoginSet \subseteq LoginSet' /\ Session \subseteq Session'
  BY <1>1, <1>2, TokensGrow
<1>4. t.session \in Session'
  BY DEF TabSet
<1>5. /\ login' = [login EXCEPT ![b] = login[b]] /\ login[b] \in LoginSet'
      /\ stored' \in Session' /\ shared \subseteq shared' /\ \A a \in told' : a \in told
  BY <1>1, <1>3, <1>4 DEF TabOnly
<1>6. \/ users' = users
      \/ \E x \in Identities \cup {Guest} :
           /\ users' = Append(users, x) /\ New <= MaxAccounts
           /\ x \in Identities => Holders(x) = {}
  BY AccountAssumption
<1> QED
  BY <1>5, <1>6, AccountStep

LEMMA GuestFailsStep ==
  ASSUME AIInv, NEW b \in Tabs, GuestFails(b)
  PROVE  AIInv'
<1> DEFINE t == [tab[b] EXCEPT !.init = Done, !.unlucky = TRUE]
<1>1. /\ tab[b] \in TabSet /\ Done \in Await /\ tab \in [Tabs -> TabSet]
      /\ users \in Seq(Identities \cup {Guest})
  BY TabShape, Dones
<1>2. /\ TabOnly /\ tab' = [tab EXCEPT ![b] = t] /\ stored' = stored
      /\ users' = users \/ (users' = Append(users, Guest) /\ New <= MaxAccounts)
  BY <1>1 DEF GuestFails
<1>3. t \in TabSet /\ t.unlucky = TRUE
  BY <1>1 DEF TabSet
<1> HIDE DEF t
<1>4. t \in TabSet'
  BY <1>1, <1>2, <1>3, UsersGrow, TokensGrow
<1>5. TabOwn(t)
  BY <1>3 DEF TabOwn
<1> QED
  BY <1>2, <1>4, <1>5, GuestMade

\* The token of the guest that was made is the tab's own from now on.
LEMMA MakeGuestStep ==
  ASSUME AIInv, NEW b \in Tabs, MakeGuest(b)
  PROVE  AIInv'
<1> DEFINE t == [tab[b] EXCEPT !.session.token = New, !.init = [at |-> "guest me", token |-> New]]
<1>1. /\ tab[b].page # "closed" /\ tab[b].init.at = "guest" /\ TabOnly
      /\ users' = Append(users, Guest) /\ New <= MaxAccounts
      /\ tab' = [tab EXCEPT ![b] = t] /\ stored' = t.session
  BY DEF MakeGuest, Awaits, Save
<1>2. users \in Seq(Identities \cup {Guest}) /\ tab[b] \in TabSet
  BY TabShape
<1>3. /\ users' \in Seq(Identities \cup {Guest}) /\ Len(users) <= Len(users') /\ New \in Token'
      /\ tab[b] \in TabSet'
  <2>1. users' \in Seq(Identities \cup {Guest}) /\ Len(users') = Len(users) + 1
    BY <1>1, <1>2, UsersGrow
  <2>2. tab[b] \in TabSet'
    BY <1>2, <2>1, TokensGrow
  <2> QED
    BY <1>2, <2>1, <2>2 DEF Token, New
<1>4. /\ [at |-> "guest me", token |-> New] \in Await' /\ [at |-> "guest me", token |-> New] # Done
      /\ [tab[b].session EXCEPT !.token = New] \in Session'
      /\ [tab[b].session EXCEPT !.token = New].token = New
  <2>1. tab[b].session \in Session'
    BY <1>3 DEF TabSet
  <2> QED
    BY <1>3, <2>1 DEF Await, Session, Done
<1>5. /\ t \in TabSet' /\ t.page = tab[b].page /\ t.unlucky = tab[b].unlucky
      /\ t.session.token = New /\ t.init = [at |-> "guest me", token |-> New]
      /\ t.refresh = tab[b].refresh /\ t.landed = tab[b].landed
  BY <1>3, <1>4 DEF TabSet
<1>6. t.init # Done /\ t.init.at = "guest me" /\ t.init.token = New
  BY <1>3, <1>4 DEF TabSet
<1> HIDE DEF t
<1>7. TabOwn(t)
  <2> SUFFICES ASSUME t.page # "closed", ~t.unlucky
               PROVE  t.refresh = Done /\ t.landed = NoAccount /\ t.page = "app" /\ t.init # Done
                      /\ t.init.at = "guest me" /\ t.init.token = New /\ t.session.token = New
    BY DEF TabOwn
  <2>1. ~tab[b].unlucky
    BY <1>5
  <2>2. tab[b].page = "app" /\ tab[b].refresh = Done /\ tab[b].landed = NoAccount
    BY <1>1, <2>1, TabShape DEF TabOwn
  <2>3. t.init # Done /\ t.init.at = "guest me" /\ t.init.token = New
    BY <1>6
  <2>4. t.refresh = Done /\ t.landed = NoAccount /\ t.page = "app" /\ t.session.token = New
    BY <1>5, <2>2
  <2> QED
    BY <2>3, <2>4
<1> QED
  BY <1>1, <1>5, <1>7, GuestMade

LEMMA GuestProfileStep ==
  ASSUME AIInv, NEW b \in Tabs, GuestProfile(b)
  PROVE  AIInv'
<1> DEFINE t == [tab[b] EXCEPT !.session = [token |-> tab[b].init.token, profile |-> tab[b].init.token], !.init = Done]
<1>1. /\ tab[b].page # "closed" /\ tab[b].init.at = "guest me" /\ TabOnly /\ users' = users
      /\ tab' = [tab EXCEPT ![b] = t] /\ stored' = t.session
  BY DEF GuestProfile, Awaits, Save
<1>2. /\ t \in TabSet /\ t.page = tab[b].page /\ t.unlucky = tab[b].unlucky
      /\ t.session = [token |-> tab[b].init.token, profile |-> tab[b].init.token]
      /\ t.init = Done /\ t.refresh = tab[b].refresh /\ t.landed = tab[b].landed
  BY TabShape, Dones DEF TabSet, Session, Await
<1> HIDE DEF t
<1>3. TabOwn(t)
  <2> SUFFICES ASSUME t.page # "closed", ~t.unlucky
               PROVE  /\ t.refresh # Done => t.refresh.at = "me" /\ t.refresh.token = t.session.token
                      /\ t.landed # NoAccount \/ t.page = "callback" => t.session.token = t.landed
                      /\ t.session.profile = t.session.token
    BY <1>2, Dones DEF TabOwn
  <2>1. ~tab[b].unlucky
    BY <1>2
  <2>2. /\ tab[b].init.token = tab[b].session.token
        /\ tab[b].refresh # Done => tab[b].refresh.at = "me" /\ tab[b].refresh.token = tab[b].session.token
        /\ tab[b].landed # NoAccount \/ tab[b].page = "callback" => tab[b].session.token = tab[b].landed
    BY <1>1, <2>1, TabShape DEF TabOwn
  <2>3. t.session.token = tab[b].init.token /\ t.session.profile = tab[b].init.token
    BY <1>2
  <2> QED
    BY <1>2, <2>2, <2>3
<1> QED
  BY <1>1, <1>2, <1>3, TabStep

LEMMA RefreshStep ==
  ASSUME AIInv, NEW b \in Tabs, Refresh(b)
  PROVE  AIInv'
<1> DEFINE u == tab[b].session.token
           t == [tab[b] EXCEPT !.refresh = Calling(u)]
<1>1. tab[b] \in TabSet /\ tab \in [Tabs -> TabSet] /\ u \in Token /\ Calling(u) \in Await
  BY TabShape, Callings
<1>2. /\ tab[b].page = "app" /\ tab[b].refresh = Done /\ u # NoAccount /\ TabOnly /\ users' = users
      /\ tab' = [tab EXCEPT ![b] = t] /\ stored' = stored
  BY <1>1 DEF Refresh
<1>3. /\ t \in TabSet /\ t.page = tab[b].page /\ t.unlucky = tab[b].unlucky
      /\ t.session = tab[b].session /\ t.init = tab[b].init /\ t.landed = tab[b].landed
      /\ t.refresh = Calling(u)
  BY <1>1 DEF TabSet
<1>4. Calling(u) # Done /\ Calling(u).at = "me" /\ Calling(u).token = u
  BY <1>1, Callings
<1> HIDE DEF t
<1>5. TabOwn(t)
  <2> SUFFICES ASSUME t.page # "closed", ~t.unlucky
               PROVE  /\ t.init.at \in {"me", "guest me"} => t.init.token = u
                      /\ t.init.at # "guest"
                      /\ t.landed # NoAccount \/ t.page = "callback" => u = t.landed
    BY <1>3, <1>4 DEF TabOwn
  <2>1. ~tab[b].unlucky
    BY <1>3
  <2>2. /\ tab[b].init.at \in {"me", "guest me"} => tab[b].init.token = u
        /\ tab[b].init.at # "guest"
        /\ tab[b].landed # NoAccount \/ tab[b].page = "callback" => u = tab[b].landed
    BY <1>2, <2>1, TabShape DEF TabOwn
  <2> QED
    BY <1>3, <2>2
<1> QED
  BY <1>2, <1>3, <1>5, TabStep

\* A tab on a page whose profile comes back, as a record.
LEMMA ProfileSet ==
  ASSUME NEW p \in TabSet, p.page = "app", NEW d \in Await
  PROVE  [p EXCEPT !.session.profile = p.refresh.token, !.refresh = d] =
         [p EXCEPT !.session = [token |-> p.session.token, profile |-> p.refresh.token],
                   !.refresh = d, !.page = "app"]
<1>1. PICK x \in Session : x = p.session
  BY DEF TabSet
<1>2. PICK y \in Token : y = p.refresh.token
  BY DEF TabSet, Await
<1>3. [x EXCEPT !.profile = y] = [token |-> x.token, profile |-> y]
  BY DEF Session
<1>4. PICK z \in Session : z = [token |-> x.token, profile |-> y]
  BY DEF Session
<1>5. [p EXCEPT !.session = z, !.refresh = d] = [p EXCEPT !.session = z, !.refresh = d, !.page = "app"]
  BY DEF TabSet
<1>6. [p EXCEPT !.session.profile = y, !.refresh = d] = [p EXCEPT !.session = z, !.refresh = d]
  BY <1>1, <1>3, <1>4 DEF TabSet
<1> QED
  BY <1>1, <1>2, <1>4, <1>5, <1>6

\* The profile that comes back is that of the token, on a page or where a sign-in lands.
LEMMA RefreshedStep ==
  ASSUME AIInv, NEW b \in Tabs,
         (tab[b].page = "app" /\ Refreshed(b)) \/ Landed(b)
  PROVE  AIInv'
<1> DEFINE u == IF tab[b].page = "app" THEN tab[b].session.token ELSE tab[b].landed
           s == [token |-> u, profile |-> tab[b].refresh.token]
           page == "app"
           t == [tab[b] EXCEPT !.session = s, !.refresh = Done, !.page = page]
<1>1. /\ tab[b] \in TabSet /\ tab \in [Tabs -> TabSet] /\ u \in Token /\ s \in Session /\ Done \in Await
      /\ s.token = u /\ s.profile = tab[b].refresh.token
  BY TabShape, Dones DEF Session
<1>2. /\ tab[b].page # "closed" /\ tab[b].refresh # Done /\ TabOnly /\ users' = users
      /\ tab' = [tab EXCEPT ![b] = t] /\ stored' = t.session
      /\ tab[b].page \in {"app", "callback"}
  <2>1. CASE tab[b].page = "app" /\ Refreshed(b)
    <3>1. [tab[b] EXCEPT !.session.profile = tab[b].refresh.token, !.refresh = Done] = t
      BY <1>1, <2>1, ProfileSet
    <3>2. tab[b].refresh # Done
      BY <2>1 DEF Refreshed, Awaits, Done
    <3> QED
      BY <2>1, <3>1, <3>2 DEF Refreshed, Save
  <2>2. CASE Landed(b)
    BY <1>1, <2>2 DEF Landed, Save
  <2> QED
    BY <2>1, <2>2
<1>3. /\ t \in TabSet /\ t.page = "app" /\ t.unlucky = tab[b].unlucky /\ t.session = s
      /\ t.init = tab[b].init /\ t.landed = tab[b].landed /\ t.refresh = Done
  BY <1>1 DEF TabSet
<1> HIDE DEF t, s
<1>4. TabOwn(t)
  <2> SUFFICES ASSUME ~t.unlucky
               PROVE  /\ t.init.at \in {"me", "guest me"} => t.init.token = u
                      /\ t.init.at # "guest"
                      /\ t.landed # NoAccount => u = t.landed
                      /\ s.profile = u
    BY <1>1, <1>3 DEF TabOwn
  <2>1. ~tab[b].unlucky
    BY <1>3
  <2>2. /\ tab[b].init.at \in {"me", "guest me"} => tab[b].init.token = tab[b].session.token
        /\ tab[b].init.at # "guest"
        /\ tab[b].landed # NoAccount \/ tab[b].page = "callback" => tab[b].session.token = tab[b].landed
        /\ tab[b].refresh.token = tab[b].session.token
    BY <1>2, <2>1, TabShape DEF TabOwn
  <2>3. u = tab[b].session.token
    BY <1>2, <2>2
  <2> QED
    BY <1>1, <1>3, <2>2, <2>3
<1> QED
  BY <1>2, <1>3, <1>4, TabStep

\* The tab goes to the provider.
LEMMA SignInStep ==
  ASSUME AIInv, NEW b \in Tabs, NEW i \in Identities, SignIn(b, i)
  PROVE  AIInv'
<1> DEFINE r == [at |-> "callback", who |-> i, upgrade |-> tab[b].session.token]
<1>1. /\ login' = [login EXCEPT ![b] = r] /\ tab' = [tab EXCEPT ![b] = Closed]
      /\ UNCHANGED <<users, stored, told, shared>>
  BY DEF SignIn
<1>2. r \in LoginSet' /\ r.at = "callback"
  BY <1>1, TabShape DEF LoginSet, Token
<1> HIDE DEF r
<1>3. Closed \in TabSet' /\ TabOwn(Closed)
  <2>1. Closed \in TabSet
    BY Dones DEF Closed, TabSet
  <2>2. TabSet \subseteq TabSet'
    BY <1>1, TokensGrow, TabShape
  <2> QED
    BY <2>1, <2>2 DEF TabOwn, Closed
<1>4. stored' \in Session' /\ \A a \in told' : a \in told
  <2>1. stored \in Session /\ Session \subseteq Session'
    BY <1>1, TokensGrow, TabShape
  <2> QED
    BY <1>1, <2>1
<1>5. shared \subseteq shared' /\ users' = users
  BY <1>1
<1> QED
  BY <1>1, <1>2, <1>3, <1>4, <1>5, AccountStep

\* The landing page and the provider around it ask under the token that came back.
LEMMA LandStep ==
  ASSUME AIInv, NEW b \in Tabs, Land(b)
  PROVE  AIInv'
<1> DEFINE u == login[b].token
<1>1. PICK t : t = Landing(u)
  OBVIOUS
<1>2. /\ login[b].at = "answered" /\ login' = [login EXCEPT ![b] = NoLogin]
      /\ tab' = [tab EXCEPT ![b] = t] /\ stored' = t.session
      /\ UNCHANGED <<users, told, shared>>
  BY <1>1 DEF Land, Save
<1>3. u \in Token /\ users \in Seq(Identities \cup {Guest})
  BY <1>2, LoginShape
<1>4. PICK s : s = Starting(stored, "callback")
  OBVIOUS
<1>5. /\ s \in TabSet /\ s.page = "callback" /\ s.session = stored
      /\ s.init = IF stored.token = NoAccount THEN [at |-> "guest", token |-> NoAccount] ELSE Calling(stored.token)
  BY <1>4, StartingShape
<1>6. PICK i \in Await : /\ i = IF stored.token = NoAccount THEN s.init ELSE Calling(u)
                         /\ stored.token # NoAccount => i = Calling(u)
  BY <1>3, <1>5, Callings DEF TabSet
<1>7. PICK z \in BOOLEAN : z = (stored.token = NoAccount)
  OBVIOUS
<1>8. t = [s EXCEPT !.session.token = u, !.refresh = Calling(u), !.landed = u, !.init = i, !.unlucky = z]
  BY <1>1, <1>4, <1>6, <1>7 DEF Landing
<1>9. [s.session EXCEPT !.token = u] \in Session /\ [s.session EXCEPT !.token = u].token = u
  <2>1. s.session \in Session
    BY <1>5 DEF TabSet
  <2> QED
    BY <1>3, <2>1 DEF Session
<1>10. Calling(u) \in Await /\ Calling(u) # Done /\ Calling(u).at = "me" /\ Calling(u).token = u
  BY <1>3, Callings
<1>11. /\ t \in TabSet /\ t.page = "callback" /\ t.session.token = u /\ t.refresh = Calling(u)
       /\ t.landed = u /\ t.init = i /\ t.unlucky = z
  BY <1>3, <1>5, <1>8, <1>9, <1>10 DEF TabSet
<1>12. TabOwn(t)
  <2> SUFFICES ASSUME ~t.unlucky PROVE TabOwn(t)
    BY DEF TabOwn
  <2>1. ~z
    BY <1>11
  <2>2. stored.token # NoAccount
    BY <1>7, <2>1
  <2>3. t.init = Calling(u)
    BY <1>6, <1>11, <2>2
  <2> QED
    BY <1>10, <1>11, <2>3 DEF TabOwn
<1>13. TabSet \subseteq TabSet' /\ Session \subseteq Session'
  BY <1>2, <1>3, TokensGrow
<1>14. t \in TabSet' /\ stored' \in Session'
  <2>1. t.session \in Session
    BY <1>11 DEF TabSet
  <2> QED
    BY <1>2, <1>11, <1>13, <2>1
<1>15. NoLogin \in LoginSet' /\ NoLogin.at = "none" /\ shared \subseteq shared' /\ users' = users
       /\ \A a \in told' : a \in told
  BY <1>2 DEF LoginSet, NoLogin
<1> QED
  BY <1>2, <1>12, <1>14, <1>15, AccountStep

LEMMA AccountInit == InitAccount => AIInv
<1> SUFFICES ASSUME InitAccount PROVE AIInv
  OBVIOUS
<1>1. /\ users = <<>> /\ login = [b \in Tabs |-> NoLogin] /\ tab = [b \in Tabs |-> Closed]
      /\ stored = SignedOut /\ told = {} /\ shared = {}
  BY DEF InitAccount
<1>2. users \in Seq(Identities \cup {Guest}) /\ Len(users) = 0 /\ DOMAIN users = {} /\ Token = {0}
  BY <1>1 DEF Token
<1>3. Closed \in TabSet /\ SignedOut \in Session /\ NoLogin \in LoginSet
  BY <1>2 DEF Closed, TabSet, SignedOut, Session, NoLogin, LoginSet, Done, Await, NoAccount
<1>4. AccountShapes
  BY <1>1, <1>2, <1>3, AccountAssumption DEF AccountShapes
<1>5. UpgradesOK
  <2>1. \A b \in Tabs : login[b].at = "none"
    BY <1>1 DEF NoLogin
  <2>2. \A i \in Identities : Holders(i) = {}
    BY <1>2 DEF Holders
  <2> QED
    BY <2>1, <2>2 DEF UpgradesOK
<1>6. \A b \in Tabs : TabOwn(tab[b])
  BY <1>1 DEF TabOwn, Closed
<1> QED
  BY <1>1, <1>4, <1>5, <1>6 DEF AIInv, IdentityKept

LEMMA AccountStays == AIInv /\ [NextAccount]_accountVars => AIInv'
<1> SUFFICES ASSUME AIInv, [NextAccount]_accountVars PROVE AIInv'
  OBVIOUS
<1>1. CASE UNCHANGED accountVars
  <2>1. UNCHANGED <<users, login, tab, stored, told, shared>>
    BY <1>1 DEF accountVars
  <2>2. AccountShapes'
    BY <2>1 DEF AIInv, AccountShapes, LoginSet, TabSet, Session, Await, Token
  <2>3. UpgradesOK' /\ IdentityKept'
    BY <2>1 DEF AIInv, UpgradesOK, Holders, IdentityKept
  <2>4. \A b \in Tabs : TabOwn(tab[b])'
    BY <2>1 DEF AIInv, TabOwn
  <2> QED
    BY <2>2, <2>3, <2>4 DEF AIInv
<1>2. CASE NextAccount
  <2>1. PICK b \in Tabs :
          \/ FindIdentity(b) \/ ReadGuest(b) \/ Upgrade(b) \/ Upsert(b) \/ CallbackFails(b)
          \/ Load(b) \/ InitProfile(b) \/ InitFails(b) \/ MakeGuest(b) \/ GuestProfile(b) \/ GuestFails(b)
          \/ Refresh(b) \/ (tab[b].page = "app" /\ Refreshed(b)) \/ RefreshFails(b)
          \/ (\E i \in Identities : SignIn(b, i)) \/ Land(b) \/ Landed(b)
    BY <1>2 DEF NextAccount
  <2> QED
    BY <2>1, FindIdentityStep, ReadGuestStep, UpgradeStep, UpsertStep, CallbackFailsStep, LoadStep,
       InitProfileStep, InitFailsStep, MakeGuestStep, GuestProfileStep, GuestFailsStep, RefreshStep,
       RefreshedStep, RefreshFailsStep, SignInStep, LandStep
<1> QED
  BY <1>1, <1>2

\* An identity goes on holding the account it was told, unless two sign-ins raced to
\* upgrade one guest, and a tab at rest shows the profile of the account it acts as: for
\* any number of identities, tabs, sign-ins and failures.
THEOREM AccountIsSound == SpecAccount => []AccountInv
<1>1. AIInv => AccountInv
  <2> SUFFICES ASSUME AIInv PROVE AccountInv
    OBVIOUS
  <2>1. AccountTypeOK
    <3>1. ASSUME NEW i \in Identities PROVE Cardinality(Holders(i)) <= 1
      BY AtMostOne DEF AIInv, UpgradesOK
    <3>2. \A b \in Tabs : tab[b].session.token \in 0..Len(users) /\ tab[b].session.profile \in 0..Len(users)
      BY TabShape DEF Token
    <3> QED
      BY <3>1, <3>2 DEF AIInv, AccountShapes, AccountTypeOK
  <2>2. SessionIsOwn
    BY DEF AIInv, TabOwn, SessionIsOwn, AtRest
  <2> QED
    BY <2>1, <2>2 DEF AIInv, AccountInv
<1> QED
  BY <1>1, AccountInit, AccountStays, PTL DEF SpecAccount

-----------------------------------------------------------------------------
(* Tournaments: the inductive invariant.                                   *)

EntryCall == [at : {"count", "enter"}, who : Entrants]
SettleCall == [at : {"settle", "payout", "rollback"}, ranking : Rankings]
PrizeCall == [at : {"disperse"}, ranking : Rankings, next : 1..3]

\* A handler has read what its next steps use.
CallTypeOK == call \in [Threads -> {Idle} \cup EntryCall \cup SettleCall \cup PrizeCall]

\* A ranking of players who have paid, one place for each.
Paid(r) ==
  /\ r # <<>> /\ Len(r) <= Cardinality(entries)
  /\ \A i \in DOMAIN r : r[i] \in entries
  /\ \A i, j \in DOMAIN r : r[i] = r[j] => i = j

RankingsPaid ==
  /\ payout # <<>> => Paid(payout)
  /\ \A t \in Threads : call[t].at \in {"settle", "payout", "rollback", "disperse"} =>
       Paid(call[t].ranking)

Entering == {t \in Threads : At(t, "enter")}
Registering == {t \in Threads : call[t].at \in {"count", "enter"}}

EntriesOK == entries \subseteq Entrants /\ IsFiniteSet(entries)

\* Whoever is about to pay was counted before the bracket was full.
RoomLeft ==
  Cardinality(entries) + Cardinality(Entering) <= BracketSize - 1 + Cardinality(Threads)

\* Once a settle call has closed the registration, who comes in was under way: every
\* late fee has used up one of the calls that were.
LateRoom == inTime # {} =>
  /\ status # "REGISTRATION"
  /\ Cardinality(entries \ inTime) + Cardinality(Registering) <= Cardinality(Threads) - 1

\* A settling call has the tournament to itself.
OneSettles ==
  /\ \A t, u \in Threads : Settling(t) /\ Settling(u) => t = u
  /\ \A t \in Threads : Settling(t) => status = "SETTLED"

\* A payout that was posted and answered, and a prize that was sent, end it.
Final == status = "SETTLED" /\ \A t \in Threads : ~Settling(t)
PaidIsFinal ==
  /\ payout # <<>> /\ ~unackedPayout => Final
  /\ \A i \in 1..3 : prize[i] # Nobody => Final

\* One call sends the prizes, in the order of its ranking, which is the payout's.
Dispersing == \A t \in Threads : At(t, "disperse") =>
  /\ Final
  /\ \A u \in Threads : At(u, "disperse") => u = t
  /\ ~unackedPayout => payout = call[t].ranking
  /\ call[t].next <= Len(call[t].ranking)
  /\ \A i \in 1..3 : prize[i] # Nobody =>
       i < call[t].next /\ prize[i] = call[t].ranking[i]

Registration == EntriesOK /\ inTime \subseteq entries /\ RoomLeft /\ LateRoom
Settlement ==
  /\ payout \in Rankings \cup {<<>>} /\ prize \in [1..3 -> Players \cup {Nobody}]
  /\ RankingsPaid /\ OneSettles /\ PaidIsFinal /\ Dispersing
  /\ SettledMeansPaid /\ PrizesFollowPayout

IInv ==
  /\ status \in {"REGISTRATION", "SETTLED", "RUNNING"}
  /\ CallTypeOK /\ Registration /\ Settlement

-----------------------------------------------------------------------------
(* What the shapes of the calls and the entries give.                      *)

\* Each label belongs to one shape.
LEMMA Shapes ==
  ASSUME CallTypeOK, NEW t \in Threads
  PROVE  /\ call[t].at \in {"count", "enter"} => call[t] \in EntryCall
         /\ call[t].at \in {"settle", "payout", "rollback"} => call[t] \in SettleCall
         /\ At(t, "disperse") => call[t] \in PrizeCall
         /\ call[t] = Idle => call[t].at = "idle"
BY DEF CallTypeOK, EntryCall, SettleCall, PrizeCall, Idle, At

\* A call that ends leaves the others as they are.
LEMMA EndShape ==
  ASSUME CallTypeOK, NEW t \in Threads, End(t)
  PROVE  /\ CallTypeOK'
         /\ call'[t].at = "idle"
         /\ \A u \in Threads \ {t} : call'[u] = call[u]
BY DEF CallTypeOK, End, Idle

\* A settling call that goes on keeps its ranking.
LEMMA SettleGoes ==
  ASSUME CallTypeOK, NEW t \in Threads, NEW x \in {"payout", "rollback"},
         call[t].at \in {"settle", "payout"}, Goto(t, x)
  PROVE  /\ CallTypeOK'
         /\ call'[t].at = x /\ call'[t].ranking = call[t].ranking
         /\ \A u \in Threads \ {t} : call'[u] = call[u]
<1>1. call[t] \in SettleCall
  BY Shapes
<1>2. call' = [call EXCEPT ![t] = [call[t] EXCEPT !.at = x]]
  BY DEF Goto, CallTypeOK
<1>3. [call[t] EXCEPT !.at = x] \in SettleCall
  BY <1>1 DEF SettleCall
<1> QED
  BY <1>1, <1>2, <1>3 DEF CallTypeOK, SettleCall

\* Who has paid stays so: more entries keep a ranking paid.
LEMMA PaidStays ==
  ASSUME NEW r, Paid(r), r \in Seq(Players), EntriesOK, EntriesOK', entries \subseteq entries'
  PROVE  Paid(r)'
<1>1. Cardinality(entries) <= Cardinality(entries') /\ Cardinality(entries) \in Nat
      /\ Cardinality(entries') \in Nat
  BY FS_Subset, FS_CardinalityType DEF EntriesOK
<1>2. Len(r) \in Nat
  OBVIOUS
<1> QED
  BY <1>1, <1>2 DEF Paid

\* The calls at a label are finitely many.
LEMMA CallSets ==
  /\ IsFiniteSet(Threads) /\ Cardinality(Threads) \in Nat
  /\ IsFiniteSet(Entering) /\ Cardinality(Entering) \in Nat
  /\ IsFiniteSet(Registering) /\ Cardinality(Registering) \in Nat
  /\ Cardinality(Entering) <= Cardinality(Threads)
<1>1. IsFiniteSet(Threads) /\ Cardinality(Threads) \in Nat
  BY TournamentAssumption, FS_CardinalityType
<1>2. Entering \in SUBSET Threads /\ Registering \in SUBSET Threads
  BY DEF Entering, Registering
<1> QED
  BY <1>1, <1>2, FS_Subset, FS_CardinalityType

-----------------------------------------------------------------------------
(* The registration.                                                       *)

\* A step that lets in nobody and starts no registration.
LEMMA RegistrationStays ==
  ASSUME CallTypeOK, Registration, UNCHANGED <<entries, inTime>>,
         Entering' \subseteq Entering, Registering' \subseteq Registering,
         inTime # {} => status' # "REGISTRATION"
  PROVE  Registration'
<1>1. Cardinality(Entering') <= Cardinality(Entering) /\ Cardinality(Entering') \in Nat
  BY CallSets, FS_Subset, FS_CardinalityType
<1>2. Cardinality(Registering') <= Cardinality(Registering) /\ Cardinality(Registering') \in Nat
  BY CallSets, FS_Subset, FS_CardinalityType
<1>3. Cardinality(entries) \in Nat /\ Cardinality(entries \ inTime) \in Nat
  BY FS_CardinalityType, FS_Subset DEF Registration, EntriesOK
<1>4. RoomLeft'
  BY <1>1, <1>3, CallSets, TournamentAssumption DEF Registration, RoomLeft
<1>5. LateRoom'
  BY <1>2, <1>3, CallSets DEF Registration, LateRoom
<1> QED
  BY <1>4, <1>5 DEF Registration, EntriesOK

\* The calls that enter or register are as before, but for one that left.
LEMMA LeavesRegistration ==
  ASSUME NEW t \in Threads, \A u \in Threads \ {t} : call'[u] = call[u],
         call'[t].at \notin {"count", "enter"}
  PROVE  Entering' \subseteq Entering /\ Registering' \subseteq Registering
BY DEF Entering, Registering, At

LEMMA RegisterReadStep ==
  ASSUME CallTypeOK, Registration, NEW t \in Threads, NEW p \in Entrants, RegisterRead(t, p)
  PROVE  Registration'
<1>1. inTime = {}
  BY DEF RegisterRead, Registration, LateRoom
<1>2. Entering' = Entering
  BY DEF RegisterRead, Begin, CallTypeOK, Entering, At, Idle
<1> QED
  BY <1>1, <1>2 DEF RegisterRead, Registration, EntriesOK, RoomLeft, LateRoom

\* The count is taken with at least one place left, and after it at most every call
\* is about to pay.
LEMMA RegisterCheckStep ==
  ASSUME CallTypeOK, Registration, NEW t \in Threads, RegisterCheck(t)
  PROVE  Registration' /\ CallTypeOK'
<1>1. CASE End(t)
  BY <1>1, EndShape, LeavesRegistration, RegistrationStays
     DEF RegisterCheck, Registration, LateRoom
<1>2. CASE ~BracketFull /\ Goto(t, "enter")
  <2>1. call[t] \in EntryCall
    BY Shapes DEF RegisterCheck, At
  <2>2. CallTypeOK'
    <3>1. [call[t] EXCEPT !.at = "enter"] \in EntryCall
      BY <2>1 DEF EntryCall
    <3> QED
      BY <1>2, <3>1 DEF Goto, CallTypeOK
  <2>3. Registering' = Registering
    BY <1>2, <2>1 DEF Goto, CallTypeOK, EntryCall, Registering, RegisterCheck, At
  <2>4. Cardinality(Entering') <= Cardinality(Threads) /\ Cardinality(Entering') \in Nat
    <3>1. Entering' \in SUBSET Threads
      BY DEF Entering
    <3> QED
      BY <3>1, CallSets, FS_Subset, FS_CardinalityType
  <2>5. Cardinality(entries) \in Nat /\ Cardinality(entries) < BracketSize
    BY <1>2, FS_CardinalityType, TournamentAssumption DEF BracketFull, Registration, EntriesOK
  <2>6. RoomLeft'
    BY <2>4, <2>5, CallSets, TournamentAssumption DEF RoomLeft, RegisterCheck
  <2> QED
    BY <2>2, <2>3, <2>6 DEF RegisterCheck, Registration, EntriesOK, LateRoom
<1> QED
  BY <1>1, <1>2 DEF RegisterCheck

\* Whoever pays was one of those that were about to.
LEMMA RegisterPostStep ==
  ASSUME CallTypeOK, Registration, NEW t \in Threads, RegisterPost(t)
  PROVE  Registration' /\ CallTypeOK' /\ entries \subseteq entries'
<1> DEFINE p == call[t].who
<1>1. CallTypeOK' /\ call'[t].at = "idle" /\ \A u \in Threads \ {t} : call'[u] = call[u]
  BY EndShape DEF RegisterPost
<1>2. call[t] \in EntryCall /\ call[t].at = "enter" /\ p \in Entrants
  BY Shapes DEF RegisterPost, At, EntryCall
<1>3. Entering' = Entering \ {t} /\ Registering' = Registering \ {t}
      /\ t \in Entering /\ t \in Registering
  BY <1>1, <1>2 DEF Entering, Registering, At
<1>4. /\ Cardinality(Entering') = Cardinality(Entering) - 1
      /\ Cardinality(Registering') = Cardinality(Registering) - 1
  BY <1>3, CallSets, FS_RemoveElement
<1>5. UNCHANGED <<status, inTime>> /\ entries' \in {entries, entries \cup {p}}
  BY DEF RegisterPost
<1>6. /\ IsFiniteSet(entries') /\ Cardinality(entries) \in Nat /\ Cardinality(entries') \in Nat
      /\ Cardinality(entries') <= Cardinality(entries) + 1
  <2>1. IsFiniteSet(entries)
    BY DEF Registration, EntriesOK
  <2>2. /\ IsFiniteSet(entries \cup {p})
        /\ Cardinality(entries \cup {p}) \in {Cardinality(entries), Cardinality(entries) + 1}
    BY <2>1, FS_AddElement
  <2>3. Cardinality(entries) \in Nat
    BY <2>1, FS_CardinalityType
  <2>4. CASE entries' = entries
    BY <2>1, <2>3, <2>4
  <2>5. CASE entries' = entries \cup {p}
    BY <2>2, <2>3, <2>5
  <2> QED
    BY <1>5, <2>4, <2>5
<1>7. /\ Cardinality(entries \ inTime) \in Nat /\ Cardinality(entries' \ inTime) \in Nat
      /\ Cardinality(entries' \ inTime) <= Cardinality(entries \ inTime) + 1
  <2>1. IsFiniteSet(entries \ inTime)
    BY FS_Subset DEF Registration, EntriesOK
  <2>2. entries' \ inTime \in {entries \ inTime, (entries \ inTime) \cup {p}}
    BY <1>5
  <2> QED
    BY <2>1, <2>2, FS_AddElement, FS_CardinalityType
<1>8. EntriesOK' /\ inTime' \subseteq entries' /\ entries \subseteq entries'
  BY <1>2, <1>5, <1>6 DEF Registration, EntriesOK
<1>9. RoomLeft'
  BY <1>4, <1>6, CallSets, TournamentAssumption DEF Registration, RoomLeft
<1>10. LateRoom'
  BY <1>4, <1>5, <1>7, CallSets DEF Registration, LateRoom
<1> QED
  BY <1>1, <1>8, <1>9, <1>10 DEF Registration

\* A settle call that closes the registration is not registering anybody.
LEMMA ClaimCloses ==
  ASSUME CallTypeOK, Registration, RankingsPaid, NEW t \in Threads, ClaimTournament(t)
  PROVE  Registration' /\ CallTypeOK'
<1>1. call[t] \in SettleCall /\ call[t].at = "settle"
  BY Shapes DEF ClaimTournament, At
<1>2. CallTypeOK' /\ call'[t].at \in {"payout", "idle"}
      /\ \A u \in Threads \ {t} : call'[u] = call[u]
  BY <1>1, EndShape, SettleGoes DEF ClaimTournament
<1>3. Entering' \subseteq Entering /\ Registering' \subseteq Registering
  BY <1>2, LeavesRegistration
<1>4. CASE Unsettled /\ inTime = {}
  <2>1. status' = "SETTLED" /\ inTime' = entries /\ entries' = entries
    BY <1>4 DEF ClaimTournament
  <2>2. Cardinality(Registering') <= Cardinality(Threads) - 1 /\ Cardinality(Registering') \in Nat
    <3>1. Registering' \in SUBSET (Threads \ {t})
      BY <1>2 DEF Registering
    <3>2. IsFiniteSet(Threads \ {t}) /\ Cardinality(Threads \ {t}) = Cardinality(Threads) - 1
      BY CallSets, FS_RemoveElement
    <3> QED
      BY <3>1, <3>2, FS_Subset, FS_CardinalityType
  <2>3. Cardinality(entries' \ inTime') = 0
    <3>1. entries' \ inTime' = {}
      BY <2>1
    <3> QED
      BY <3>1, FS_EmptySet
  <2>4. LateRoom'
    BY <2>1, <2>2, <2>3, CallSets DEF LateRoom
  <2>5. RoomLeft'
    <3>1. Cardinality(Entering') <= Cardinality(Entering) /\ Cardinality(Entering') \in Nat
      BY <1>3, CallSets, FS_Subset, FS_CardinalityType
    <3>2. Cardinality(entries) \in Nat
      BY FS_CardinalityType DEF Registration, EntriesOK
    <3> QED
      BY <2>1, <3>1, <3>2, CallSets, TournamentAssumption DEF Registration, RoomLeft
  <2> QED
    BY <1>2, <2>1, <2>4, <2>5 DEF Registration, EntriesOK
<1>5. CASE ~(Unsettled /\ inTime = {})
  <2>1. UNCHANGED <<entries, inTime>> /\ (inTime # {} => status' # "REGISTRATION")
    BY <1>5 DEF ClaimTournament, Registration, LateRoom
  <2> QED
    BY <1>2, <1>3, <2>1, RegistrationStays
<1> QED
  BY <1>4, <1>5

-----------------------------------------------------------------------------
(* The settlement.                                                         *)

\* A step that does not touch the settlement: a call starts, ends or dies, and at
\* most entries are added.
LEMMA SettlementStays ==
  ASSUME CallTypeOK, Registration, Settlement, CallTypeOK', EntriesOK', NEW t \in Threads,
         entries \subseteq entries',
         UNCHANGED <<status, payout, prize, unackedPayout>>,
         \A u \in Threads \ {t} : call'[u] = call[u],
         call'[t].at \in {"idle", "count", "enter", "settle"},
         (call[t].at = "settle" => Paid(call[t].ranking))',
         Settling(t) => settlerDied', settlerDied => settlerDied'
  PROVE  Settlement'
<1> USE DEF Settlement
<1>1. \A u \in Threads : Settling(u)' <=> Settling(u) /\ u # t
  BY DEF Settling
<1>2. \A r \in Rankings : Paid(r) => Paid(r)'
  BY PaidStays, TournamentAssumption DEF Registration
<1>3. RankingsPaid'
  <2>1. \A u \in Threads : call[u].at \in {"settle", "payout", "rollback", "disperse"} =>
          call[u].ranking \in Rankings
    BY Shapes DEF SettleCall, PrizeCall, At
  <2> QED
    BY <1>2, <2>1 DEF RankingsPaid
<1>4. OneSettles'
  BY <1>1 DEF OneSettles
<1>5. Final => Final'
  BY <1>1 DEF Final
<1>6. PaidIsFinal'
  BY <1>5 DEF PaidIsFinal
<1>7. Dispersing'
  <2> SUFFICES ASSUME NEW u \in Threads, call'[u].at = "disperse"
               PROVE  /\ Final'
                      /\ \A v \in Threads : call'[v].at = "disperse" => v = u
                      /\ ~unackedPayout => payout = call'[u].ranking
                      /\ call'[u].next <= Len(call'[u].ranking)
                      /\ \A i \in 1..3 : prize[i] # Nobody =>
                           i < call'[u].next /\ prize[i] = call'[u].ranking[i]
    BY DEF Dispersing, At
  <2>1. \A v \in Threads : call'[v].at = "disperse" => call'[v] = call[v] /\ At(v, "disperse")
    BY DEF At
  <2> QED
    BY <1>5, <2>1 DEF Dispersing, At
<1>8. SettledMeansPaid'
  BY <1>1 DEF SettledMeansPaid
<1>9. PrizesFollowPayout'
  BY DEF PrizesFollowPayout
<1> QED
  BY <1>3, <1>4, <1>6, <1>7, <1>8, <1>9

\* The ranking that settle accepts has one place for each player who has paid.
LEMMA OrdersPaid ==
  ASSUME EntriesOK, entries # {}, NEW r \in Rankings, Orders(r, entries)
  PROVE  Paid(r)
<1> DEFINE ranked == {r[i] : i \in DOMAIN r}
           n == Len(r)
<1>1. r \in Seq(Players) /\ n \in Nat /\ DOMAIN r = 1..n
  BY TournamentAssumption
<1>2. Cardinality(ranked) = n /\ n = Cardinality(entries) /\ entries \subseteq ranked
  BY DEF Orders
<1>3. IsFiniteSet(1..n) /\ Cardinality(1..n) = n
  BY <1>1, FS_Interval
<1>4. r \in Surjection(1..n, ranked)
  BY <1>1 DEF Surjection
<1>5. r \in Injection(1..n, ranked) /\ IsFiniteSet(ranked)
  <2> HIDE DEF ranked, n
  <2> QED
    BY <1>2, <1>3, <1>4, FS_Surjection
<1>6. entries = ranked
  <2> HIDE DEF ranked, n
  <2> QED
    BY <1>2, <1>5, FS_Subset
<1>7. \A i, j \in DOMAIN r : r[i] = r[j] => i = j
  BY <1>1, <1>5 DEF Injection, IsInjective
<1>8. r # <<>>
  <2>1. Cardinality(entries) # 0
    BY FS_EmptySet DEF EntriesOK
  <2> QED
    BY <1>2, <2>1
<1>9. \A i \in DOMAIN r : r[i] \in ranked
  OBVIOUS
<1> HIDE DEF ranked
<1> QED
  BY <1>1, <1>2, <1>6, <1>7, <1>8, <1>9 DEF Paid

LEMMA SettleReadStep ==
  ASSUME CallTypeOK, Registration, Settlement, NEW t \in Threads, NEW r \in Rankings,
         SettleRead(t, r)
  PROVE  CallTypeOK' /\ Registration' /\ Settlement'
<1>1. call' = [call EXCEPT ![t] = [at |-> "settle", ranking |-> r]] /\ call[t] = Idle
      /\ UNCHANGED <<status, entries, payout, prize, unackedPayout, settlerDied, inTime>>
  BY DEF SettleRead, Begin
<1>2. [at |-> "settle", ranking |-> r] \in SettleCall
  BY DEF SettleCall
<1>3. CallTypeOK' /\ call'[t].at = "settle" /\ call'[t].ranking = r
      /\ \A u \in Threads \ {t} : call'[u] = call[u]
  BY <1>1, <1>2 DEF CallTypeOK
<1>4. Registration'
  BY <1>1, <1>3, LeavesRegistration, RegistrationStays DEF Registration, LateRoom
<1>5. Paid(r)
  BY OrdersPaid DEF SettleRead, Registration
<1>6. Settlement'
  <2>1. (call[t].at = "settle" => Paid(call[t].ranking))'
    BY <1>1, <1>3, <1>5 DEF Paid
  <2>2. ~Settling(t)
    BY <1>1 DEF Settling, Idle
  <2> QED
    BY <1>1, <1>3, <1>4, <2>1, <2>2, SettlementStays DEF Registration
<1> QED
  BY <1>3, <1>4, <1>6

\* The claim: whoever wins it settles alone, because nobody settles a tournament
\* that is open, and no prize was sent and no payout answered.
LEMMA ClaimSettles ==
  ASSUME CallTypeOK, Registration, Settlement, NEW t \in Threads, ClaimTournament(t),
         Registration', CallTypeOK'
  PROVE  Settlement'
<1> USE DEF Settlement
<1>1. call[t].at = "settle" /\ UNCHANGED <<entries, payout, prize, unackedPayout, settlerDied>>
  BY DEF ClaimTournament, At
<1>2. CASE ~Unsettled
  <2>1. call'[t].at = "idle" /\ UNCHANGED status /\ \A u \in Threads \ {t} : call'[u] = call[u]
    BY <1>2, EndShape DEF ClaimTournament
  <2>2. ~Settling(t)
    BY <1>1 DEF Settling
  <2> QED
    BY <1>1, <2>1, <2>2, SettlementStays DEF Registration
<1>3. CASE Unsettled
  <2>1. status' = "SETTLED" /\ status # "SETTLED" /\ Goto(t, "payout")
    BY <1>3 DEF ClaimTournament, Unsettled
  <2>2. call'[t].at = "payout" /\ call'[t].ranking = call[t].ranking
        /\ \A u \in Threads \ {t} : call'[u] = call[u]
    BY <1>1, <2>1, SettleGoes
  <2>3. \A u \in Threads : ~Settling(u) /\ (Settling(u)' <=> u = t)
    BY <1>1, <2>1, <2>2 DEF OneSettles, Settling
  <2>4. \A u \in Threads : ~At(u, "disperse")
    BY <2>1 DEF Dispersing, Final
  <2>5. RankingsPaid'
    BY <1>1, <2>2 DEF RankingsPaid, Paid
  <2>6. OneSettles'
    BY <2>1, <2>3 DEF OneSettles
  <2>7. PaidIsFinal'
    BY <1>1, <2>1 DEF PaidIsFinal, Final
  <2>8. Dispersing'
    BY <2>2, <2>4 DEF Dispersing, At
  <2>9. SettledMeansPaid'
    BY <2>3 DEF SettledMeansPaid
  <2>10. PrizesFollowPayout'
    BY <1>1 DEF PrizesFollowPayout
  <2> QED
    BY <1>1, <2>5, <2>6, <2>7, <2>8, <2>9, <2>10
<1> QED
  BY <1>2, <1>3

\* The payout: posted and answered, posted and not answered, or not posted.
LEMMA PostPayoutStep ==
  ASSUME CallTypeOK, Registration, Settlement, NEW t \in Threads, PostPayout(t)
  PROVE  CallTypeOK' /\ Registration' /\ Settlement'
<1> DEFINE r == call[t].ranking
<1> USE DEF Settlement
<1>1. call[t] \in SettleCall /\ call[t].at = "payout" /\ r \in Rankings /\ Settling(t)
  BY Shapes DEF PostPayout, At, SettleCall, Settling
<1>2. UNCHANGED <<status, entries, prize, settlerDied, inTime>>
  BY DEF PostPayout
<1>3. Paid(r) /\ status = "SETTLED" /\ \A u \in Threads \ {t} : ~Settling(u)
  BY <1>1 DEF RankingsPaid, OneSettles
<1>4. (\A i \in 1..3 : prize[i] = Nobody) /\ (\A u \in Threads : ~At(u, "disperse"))
      /\ (payout # <<>> => unackedPayout)
  BY <1>1 DEF PaidIsFinal, Dispersing, Final
<1>5. /\ payout' = payout \/ payout' = IF payout = <<>> THEN r ELSE payout
      /\ payout' \in Rankings \cup {<<>>} /\ (payout' # <<>> => Paid(payout'))
  BY <1>1, <1>3 DEF PostPayout, RankingsPaid
<1>6. \A q : Paid(q)' <=> Paid(q)
  BY <1>2 DEF Paid
<1>7. CASE Goto(t, "rollback") /\ (payout' = payout \/ unackedPayout')
           /\ (unackedPayout => unackedPayout')
  <2>1. CallTypeOK' /\ call'[t].at = "rollback" /\ call'[t].ranking = r
        /\ \A u \in Threads \ {t} : call'[u] = call[u]
    BY <1>1, <1>7, SettleGoes
  <2>2. Registration'
    BY <1>2, <2>1, LeavesRegistration, RegistrationStays DEF Registration, LateRoom
  <2>3. \A u \in Threads : Settling(u)' <=> u = t
    BY <1>3, <2>1 DEF Settling
  <2>4. RankingsPaid'
    BY <1>3, <1>5, <1>6, <2>1 DEF RankingsPaid
  <2>5. OneSettles' /\ SettledMeansPaid'
    BY <1>2, <1>3, <2>3 DEF OneSettles, SettledMeansPaid
  <2>6. PaidIsFinal'
    BY <1>2, <1>4, <1>7 DEF PaidIsFinal
  <2>7. Dispersing'
    BY <1>4, <2>1 DEF Dispersing, At
  <2>8. PrizesFollowPayout'
    BY <1>2, <1>4 DEF PrizesFollowPayout
  <2> QED
    BY <1>2, <1>5, <2>1, <2>2, <2>4, <2>5, <2>6, <2>7, <2>8
<1>8. CASE /\ call' = [call EXCEPT ![t] = [at |-> "disperse", ranking |-> r, next |-> 1]]
           /\ payout' = (IF payout = <<>> THEN r ELSE payout) /\ UNCHANGED unackedPayout
  <2>1. [at |-> "disperse", ranking |-> r, next |-> 1] \in PrizeCall
    BY <1>1 DEF PrizeCall
  <2>2. CallTypeOK' /\ call'[t] = [at |-> "disperse", ranking |-> r, next |-> 1]
        /\ \A u \in Threads \ {t} : call'[u] = call[u]
    BY <1>8, <2>1 DEF CallTypeOK
  <2>3. Registration'
    BY <1>2, <2>2, LeavesRegistration, RegistrationStays DEF Registration, LateRoom
  <2>4. \A u \in Threads : ~Settling(u)'
    BY <1>3, <2>2 DEF Settling
  <2>5. RankingsPaid'
    BY <1>3, <1>5, <1>6, <2>2 DEF RankingsPaid
  <2>6. OneSettles'
    BY <2>4 DEF OneSettles
  <2>7. Final'
    BY <1>2, <1>3, <2>4 DEF Final
  <2>8. payout' # <<>>
    BY <1>3, <1>8 DEF Paid
  <2>9. SettledMeansPaid'
    BY <2>4, <2>8 DEF SettledMeansPaid
  <2>10. PaidIsFinal'
    BY <2>7 DEF PaidIsFinal
  <2>11. Dispersing'
    <3>1. ~unackedPayout => payout' = r
      BY <1>4, <1>8
    <3>2. 1 <= Len(r)
      <4>1. r \in Seq(Players) /\ r # <<>>
        BY <1>1, <1>3, TournamentAssumption DEF Paid
      <4> QED
        BY <4>1
    <3> QED
      BY <1>2, <1>4, <1>8, <2>2, <2>7, <3>1, <3>2 DEF Dispersing, At
  <2>12. PrizesFollowPayout'
    BY <1>2, <1>4 DEF PrizesFollowPayout
  <2> QED
    BY <1>2, <1>5, <2>2, <2>3, <2>5, <2>6, <2>9, <2>10, <2>11, <2>12
<1> QED
  BY <1>7, <1>8 DEF PostPayout

\* After a failure the settler opens the tournament to another settle call.
LEMMA RollBackStep ==
  ASSUME CallTypeOK, Registration, Settlement, NEW t \in Threads, RollBack(t)
  PROVE  CallTypeOK' /\ Registration' /\ Settlement'
         /\ status' \in {"REGISTRATION", "SETTLED", "RUNNING"}
<1> USE DEF Settlement
<1>1. Settling(t) /\ status = "SETTLED" /\ \A u \in Threads \ {t} : ~Settling(u)
  BY DEF RollBack, At, Settling, OneSettles
<1>2. status' = "RUNNING" /\ UNCHANGED <<entries, payout, prize, unackedPayout, settlerDied, inTime>>
  BY <1>1 DEF RollBack, AfterFailure
<1>3. CallTypeOK' /\ call'[t].at = "idle" /\ \A u \in Threads \ {t} : call'[u] = call[u]
  BY EndShape DEF RollBack
<1>4. Registration'
  BY <1>2, <1>3, LeavesRegistration, RegistrationStays
<1>5. \A u \in Threads : ~Settling(u)'
  BY <1>1, <1>3 DEF Settling
<1>6. (\A i \in 1..3 : prize[i] = Nobody) /\ (\A u \in Threads : ~At(u, "disperse"))
      /\ (payout # <<>> => unackedPayout)
  BY <1>1 DEF PaidIsFinal, Dispersing, Final
<1>7. RankingsPaid'
  BY <1>2, <1>3 DEF RankingsPaid, Paid
<1>8. OneSettles' /\ SettledMeansPaid'
  BY <1>2, <1>5 DEF OneSettles, SettledMeansPaid
<1>9. PaidIsFinal' /\ PrizesFollowPayout'
  BY <1>2, <1>6 DEF PaidIsFinal, PrizesFollowPayout
<1>10. Dispersing'
  BY <1>3, <1>6 DEF Dispersing, At
<1> QED
  BY <1>2, <1>3, <1>4, <1>7, <1>8, <1>9, <1>10

\* A prize goes to the next place of the ranking.
LEMMA DisperseStep ==
  ASSUME CallTypeOK, Registration, Settlement, NEW t \in Threads, Disperse(t)
  PROVE  CallTypeOK' /\ Registration' /\ Settlement'
<1> DEFINE r == call[t].ranking
           i == call[t].next
<1> USE DEF Settlement
<1>1. call[t] \in PrizeCall /\ At(t, "disperse") /\ r \in Rankings /\ i \in 1..3
  BY Shapes DEF Disperse, PrizeCall
<1>2. UNCHANGED <<status, entries, payout, unackedPayout, settlerDied, inTime>>
  BY DEF Disperse
<1>3. r \in Seq(Players) /\ Len(r) \in Nat /\ i <= Len(r) /\ i \in DOMAIN r /\ DOMAIN r = 1..Len(r)
  BY <1>1, TournamentAssumption DEF Dispersing
<1>4. /\ CallTypeOK' /\ \A u \in Threads \ {t} : call'[u] = call[u]
      /\ \/ call'[t].at = "idle"
         \/ call'[t] = [call[t] EXCEPT !.next = i + 1] /\ i < 3 /\ i < Len(r)
  <2>1. CASE End(t)
    BY <2>1, EndShape
  <2>2. CASE call' = [call EXCEPT ![t].next = i + 1] /\ i < 3 /\ i < Len(r)
    <3>1. [call[t] EXCEPT !.next = i + 1] \in PrizeCall
      BY <1>1, <2>2 DEF PrizeCall
    <3> QED
      BY <2>2, <3>1 DEF CallTypeOK
  <2> QED
    BY <2>1, <2>2 DEF Disperse
<1>5. Registration'
  <2>1. call'[t].at \notin {"count", "enter"}
    BY <1>1, <1>4 DEF PrizeCall
  <2> QED
    BY <1>2, <1>4, <2>1, LeavesRegistration, RegistrationStays DEF Registration, LateRoom
<1>6. \A u \in Threads : Settling(u)' <=> Settling(u)
  BY <1>1, <1>4 DEF Settling, At, PrizeCall
<1>7. Final /\ Final'
  BY <1>1, <1>2, <1>6 DEF Dispersing, Final
<1>8. OneSettles' /\ PaidIsFinal' /\ SettledMeansPaid'
  BY <1>2, <1>6, <1>7 DEF OneSettles, PaidIsFinal, SettledMeansPaid
<1>9. RankingsPaid'
  BY <1>1, <1>2, <1>4 DEF RankingsPaid, Paid, PrizeCall, At
<1>10. Paid(r)
  BY <1>1 DEF RankingsPaid, At
<1>11. \A j \in 1..3 : prize'[j] # Nobody => j <= i /\ j \in DOMAIN r /\ prize'[j] = r[j]
  <2>1. \A j \in 1..3 : prize[j] # Nobody => j < i /\ prize[j] = r[j]
    BY <1>1 DEF Dispersing
  <2>2. \A j \in 1..3 : prize'[j] = prize[j] \/ (j = i /\ prize'[j] = r[j])
    BY <1>1 DEF Disperse
  <2> QED
    BY <1>1, <1>3, <2>1, <2>2
<1>12. prize' \in [1..3 -> Players \cup {Nobody}]
  BY <1>1, <1>3 DEF Disperse
<1>13. Dispersing'
  <2>1. \A u \in Threads : At(u, "disperse")' => u = t
    BY <1>1, <1>4 DEF Dispersing, At
  <2>2. At(t, "disperse")' =>
          /\ call'[t].ranking = r /\ call'[t].next = i + 1 /\ call'[t].next <= Len(r)
          /\ \A j \in 1..3 : prize'[j] # Nobody => j < i + 1 /\ prize'[j] = r[j]
    BY <1>1, <1>3, <1>4, <1>11 DEF At, PrizeCall
  <2>3. ~unackedPayout => payout = r
    BY <1>1 DEF Dispersing
  <2> QED
    BY <1>2, <1>7, <2>1, <2>2, <2>3 DEF Dispersing
<1>14. PrizesFollowPayout'
  <2>1. ~unackedPayout => payout = r
    BY <1>1 DEF Dispersing
  <2> QED
    BY <1>2, <1>10, <1>11, <2>1 DEF PrizesFollowPayout, Paid
<1> QED
  BY <1>2, <1>4, <1>5, <1>8, <1>9, <1>12, <1>13, <1>14

-----------------------------------------------------------------------------
(* Tournaments: the theorems.                                              *)

\* A registration does not touch the settlement.
LEMMA RegistrationSteps ==
  ASSUME IInv, NEW t \in Threads,
         (\E p \in Entrants : RegisterRead(t, p)) \/ RegisterCheck(t) \/ RegisterPost(t)
  PROVE  IInv'
<1> USE DEF IInv
<1>1. ASSUME NEW p \in Entrants, RegisterRead(t, p) PROVE IInv'
  <2>1. Registration'
    BY <1>1, RegisterReadStep
  <2>2. call'[t].at = "count" /\ call'[t] \in EntryCall /\ call[t] = Idle
        /\ \A u \in Threads \ {t} : call'[u] = call[u]
    BY <1>1 DEF RegisterRead, Begin, CallTypeOK, EntryCall
  <2>3. CallTypeOK'
    BY <1>1, <2>2 DEF RegisterRead, Begin, CallTypeOK
  <2>4. ~Settling(t)
    BY <2>2 DEF Settling, Idle
  <2> QED
    BY <1>1, <2>1, <2>2, <2>3, <2>4, SettlementStays DEF RegisterRead, Registration
<1>2. CASE RegisterCheck(t)
  <2>1. Registration' /\ CallTypeOK'
    BY <1>2, RegisterCheckStep
  <2>2. call[t] \in EntryCall /\ ~Settling(t)
    BY <1>2, Shapes DEF RegisterCheck, At, Settling
  <2>3. call'[t].at \in {"idle", "enter"} /\ \A u \in Threads \ {t} : call'[u] = call[u]
    <3>1. CASE End(t)
      BY <3>1, EndShape
    <3>2. CASE Goto(t, "enter")
      BY <2>2, <3>2 DEF Goto, CallTypeOK, EntryCall
    <3> QED
      BY <1>2, <3>1, <3>2 DEF RegisterCheck
  <2> QED
    BY <1>2, <2>1, <2>2, <2>3, SettlementStays DEF RegisterCheck, Registration
<1>3. CASE RegisterPost(t)
  <2>1. Registration' /\ CallTypeOK' /\ entries \subseteq entries'
    BY <1>3, RegisterPostStep
  <2>2. call'[t].at = "idle" /\ (\A u \in Threads \ {t} : call'[u] = call[u]) /\ ~Settling(t)
    BY <1>3, EndShape DEF RegisterPost, At, Settling
  <2> QED
    BY <1>3, <2>1, <2>2, SettlementStays DEF RegisterPost, Registration
<1> QED
  BY <1>1, <1>2, <1>3

\* A process dies; what it was settling stays settled and unpaid.
LEMMA CrashStep ==
  ASSUME IInv, NEW t \in Threads, CrashTournament(t)
  PROVE  IInv'
<1> USE DEF IInv
<1>1. CallTypeOK' /\ call'[t].at = "idle" /\ \A u \in Threads \ {t} : call'[u] = call[u]
  BY EndShape DEF CrashTournament
<1>2. Registration'
  BY <1>1, LeavesRegistration, RegistrationStays DEF CrashTournament, Registration, LateRoom
<1>3. (Settling(t) => settlerDied') /\ (settlerDied => settlerDied')
  BY DEF CrashTournament, Settling
<1> QED
  BY <1>1, <1>2, <1>3, SettlementStays DEF CrashTournament, Registration

LEMMA InitIInv == InitTournament => IInv
<1> SUFFICES ASSUME InitTournament PROVE IInv
  OBVIOUS
<1> USE DEF InitTournament, InitCalls
<1>1. \A t \in Threads : call[t].at = "idle"
  BY DEF Idle
<1>2. CallTypeOK
  BY DEF CallTypeOK
<1>3. Entering = {} /\ EntriesOK /\ Cardinality(entries) = 0 /\ Cardinality(Entering) = 0
  <2>1. Entering = {}
    BY <1>1 DEF Entering, At
  <2> QED
    BY <2>1, FS_EmptySet DEF EntriesOK
<1>4. Registration
  BY <1>3, CallSets, TournamentAssumption DEF Registration, RoomLeft, LateRoom
<1>5. RankingsPaid /\ OneSettles /\ Dispersing
  BY <1>1 DEF RankingsPaid, OneSettles, Dispersing, Settling, At
<1>6. PaidIsFinal /\ SettledMeansPaid /\ PrizesFollowPayout
  BY <1>1 DEF PaidIsFinal, SettledMeansPaid, PrizesFollowPayout, Settling
<1> QED
  BY <1>2, <1>4, <1>5, <1>6 DEF IInv, Settlement

LEMMA StepIInv == IInv /\ [NextTournament]_tournamentVars => IInv'
<1> SUFFICES ASSUME IInv, [NextTournament]_tournamentVars PROVE IInv'
  OBVIOUS
<1>1. ASSUME NEW t \in Threads,
             (\E p \in Entrants : RegisterRead(t, p)) \/ RegisterCheck(t) \/ RegisterPost(t)
      PROVE  IInv'
  BY <1>1, RegistrationSteps
<1>2. ASSUME NEW t \in Threads, NEW r \in Rankings, SettleRead(t, r) PROVE IInv'
  BY <1>2, SettleReadStep DEF IInv, SettleRead
<1>3. ASSUME NEW t \in Threads, ClaimTournament(t) PROVE IInv'
  <2>1. Registration' /\ CallTypeOK'
    BY <1>3, ClaimCloses DEF IInv, Settlement
  <2>2. Settlement'
    BY <1>3, <2>1, ClaimSettles DEF IInv
  <2> QED
    BY <1>3, <2>1, <2>2 DEF IInv, ClaimTournament
<1>4. ASSUME NEW t \in Threads, PostPayout(t) PROVE IInv'
  BY <1>4, PostPayoutStep DEF IInv, PostPayout
<1>5. ASSUME NEW t \in Threads, RollBack(t) PROVE IInv'
  BY <1>5, RollBackStep DEF IInv
<1>6. ASSUME NEW t \in Threads, Disperse(t) PROVE IInv'
  BY <1>6, DisperseStep DEF IInv, Disperse
<1>7. ASSUME NEW t \in Threads, CrashTournament(t) PROVE IInv'
  BY <1>7, CrashStep
<1>8. CASE UNCHANGED tournamentVars
  <2> USE <1>8 DEF tournamentVars, IInv
  <2>1. CallTypeOK' /\ (\A u \in Threads : Settling(u)' <=> Settling(u))
        /\ (\A r : Paid(r)' <=> Paid(r)) /\ Entering' = Entering /\ Registering' = Registering
    BY DEF CallTypeOK, Settling, Paid, Entering, Registering, At
  <2>2. Registration'
    BY <2>1 DEF Registration, EntriesOK, RoomLeft, LateRoom
  <2>3. RankingsPaid' /\ OneSettles' /\ PaidIsFinal' /\ SettledMeansPaid'
    BY <2>1 DEF Settlement, RankingsPaid, OneSettles, PaidIsFinal, Final, SettledMeansPaid
  <2>4. Dispersing' /\ PrizesFollowPayout'
    BY <2>1 DEF Settlement, Dispersing, At, Final, PrizesFollowPayout
  <2> QED
    BY <2>1, <2>2, <2>3, <2>4 DEF Settlement
<1> QED
  BY <1>1, <1>2, <1>3, <1>4, <1>5, <1>6, <1>7, <1>8 DEF NextTournament

\* The inductive invariant holds in every reachable state.
THEOREM TournamentInvariant == SpecTournament => []IInv
<1> QED
  BY InitIInv, StepIInv, PTL DEF SpecTournament

\* Four prizes, each rounded down, never exceed the pool they are shares of.
LEMMA SplitCovers ==
  ASSUME NEW P \in Nat
  PROVE  /\ (P * 5000) \div 10000 \in Nat /\ (P * 3000) \div 10000 \in Nat
         /\ (P * 1500) \div 10000 \in Nat /\ (P * 500) \div 10000 \in Nat
         /\ (P * 5000) \div 10000 + (P * 3000) \div 10000
              + (P * 1500) \div 10000 + (P * 500) \div 10000 <= P
OBVIOUS

\* The payout is covered by the fees of those who have paid.
LEMMA Covered ==
  ASSUME IInv PROVE PoolCovers
<1> DEFINE n == Len(payout)
           P == EntryFee * n
<1> USE DEF IInv, Settlement, Registration, EntriesOK
<1>1. payout \in Seq(Players) /\ n \in Nat /\ DOMAIN payout = 1..n
  <2>1. payout \in Seq(Players)
    <3>1. CASE payout = <<>>
      BY <3>1
    <3>2. CASE payout \in Rankings
      BY <3>2, TournamentAssumption
    <3> QED
      BY <3>1, <3>2
  <2> QED
    BY <2>1
<1>2. Cardinality(entries) \in Nat
  BY FS_CardinalityType
<1>3. n <= Cardinality(entries) /\ PaidCredits \subseteq entries
  BY <1>1, <1>2 DEF RankingsPaid, Paid, PaidCredits
<1>4. P \in Nat /\ P <= EntryFee * Cardinality(entries)
  BY <1>1, <1>2, <1>3, TournamentAssumption
<1>5. /\ PaidTo(1) \in {0, (P * 5000) \div 10000} /\ PaidTo(2) \in {0, (P * 3000) \div 10000}
      /\ PaidTo(3) \in {0, (P * 1500) \div 10000} /\ PaidTo(4) \in {0, (P * 500) \div 10000}
  BY DEF PaidTo, Prize, PrizeSplitBps
<1>6. /\ PaidTo(1) \in Nat /\ PaidTo(1) <= (P * 5000) \div 10000
      /\ PaidTo(2) \in Nat /\ PaidTo(2) <= (P * 3000) \div 10000
      /\ PaidTo(3) \in Nat /\ PaidTo(3) <= (P * 1500) \div 10000
      /\ PaidTo(4) \in Nat /\ PaidTo(4) <= (P * 500) \div 10000
  <2> HIDE DEF P
  <2> QED
    BY <1>4, <1>5, SplitCovers
<1>7. /\ PaidTo(1) + PaidTo(2) + PaidTo(3) + PaidTo(4) <= P
      /\ PaidTo(1) + PaidTo(2) + PaidTo(3) + PaidTo(4) \in Nat
  <2> HIDE DEF P
  <2> QED
    BY <1>4, <1>6, SplitCovers
<1>8. EntryFee * Cardinality(entries) \in Nat
  BY <1>2, TournamentAssumption
<1> HIDE DEF P
<1> QED
  BY <1>3, <1>4, <1>7, <1>8 DEF PoolCovers

\* The counts that the inductive invariant keeps bound the bracket and the late fees.
LEMMA Bounded ==
  ASSUME IInv PROVE BracketHolds /\ LateEntries
<1> USE DEF IInv, Registration, EntriesOK
<1>1. Cardinality(entries) \in Nat /\ Cardinality(entries \ inTime) \in Nat
  BY FS_Subset, FS_CardinalityType
<1> QED
  BY <1>1, CallSets, TournamentAssumption DEF BracketHolds, LateEntries, RoomLeft, LateRoom

\* What a tournament promises, for any entrants, calls, bracket and fee: the bracket
\* is overfilled and fees come in late only by calls that were under way, the
\* prizes never exceed the fees, settle calls follow each other, and the treasury's
\* prizes follow the ranking that was paid.
THEOREM TournamentIsFair == SpecTournament => []TournamentInv
<1>1. IInv => TournamentTypeOK
  <2>1. ASSUME IInv PROVE \A i, j \in DOMAIN payout : payout[i] = payout[j] => i = j
    BY <2>1 DEF IInv, Settlement, RankingsPaid, Paid
  <2> QED
    BY <2>1, TournamentAssumption
       DEF IInv, Registration, EntriesOK, Settlement, TournamentTypeOK
<1>2. IInv => TournamentInv
  BY <1>1, Covered, Bounded DEF TournamentInv, IInv, Settlement
<1> QED
  BY <1>2, TournamentInvariant, PTL

-----------------------------------------------------------------------------
(* The player's own wallet.                                                *)

Reading == [of : Accounts, seen : SUBSET Sends]
Front == [freighter : {"detecting", "there", "absent"}, restore : BOOLEAN, address : Accounts \cup {None},
          balance : Reading \cup {None}, loading : BOOLEAN, connecting : BOOLEAN, form : Sends \cup {0},
          told : SUBSET Sends]
Asking == [id : Nat, of : Accounts, connect : BOOLEAN, send : Sends \cup {0}, seen : SUBSET Sends, read : BOOLEAN]
Sent == [at : {"build", "sign", "submit", "lost", "load", "over"}, from : Accounts, signer : Accounts \cup {None}]

XlmShapes ==
  /\ active \in Accounts /\ panel \in Front /\ pageAddress \in Accounts \cup {None}
  /\ loads \subseteq Asking /\ payment \in [Sends -> Sent \cup [at : {"idle"}]]
  /\ included \subseteq Sends /\ loadCount \in Nat

\* A payment that waits for its balance has been made; what was told was made.
PaymentsOK ==
  /\ \A i \in Sends : payment[i].at = "load" => i \in included
  /\ \A i \in included : payment[i].at \in {"submit", "lost", "load", "over"}
  /\ panel.told \subseteq included

\* A balance is asked for by one connection, and by one payment, whose sender it is of.
OfSend(l) ==
  payment[l.send].at = "load" /\ payment[l.send].from = l.of /\ (l.read => l.send \in l.seen)
LoadsOK ==
  /\ \A l \in loads : l.connect => l.send = 0
  /\ \A l \in loads : l.send # 0 => OfSend(l)
  /\ \A l, m \in loads : (l.connect /\ m.connect) \/ (l.send = m.send /\ l.send # 0) => l = m

\* Nothing is on show, and nothing sent, before a balance was asked for.
Begun == (panel.address # None \/ \E i \in Sends : payment[i].at # "idle") => loadCount > 0

ToldOf(a) == {i \in panel.told : payment[i].from = a}

\* As long as no balance is overtaken: the one under way is that of the address on show.
Current ==
  /\ \A l, m \in loads : l = m
  /\ panel.loading <=> loads # {}
  /\ \A l \in loads : panel.address \in {l.of, None} /\ (l.read => ToldOf(l.of) \subseteq l.seen)
  /\ loads = {} /\ panel.address # None /\ panel.balance # None =>
       panel.balance.of = panel.address /\ ToldOf(panel.address) \subseteq panel.balance.seen

XlmIInv == XlmShapes /\ PaymentsOK /\ LoadsOK /\ Begun /\ (~overtaken => Current) /\ PageFollows

\* What a step leaves as it is that starts no payment's balance and ends none.
Undone ==
  /\ panel'.told = panel.told
  /\ \A i \in Sends : payment[i].at = "load" => payment'[i] = payment[i]
  /\ \A i \in Sends : payment[i].at # "idle" => payment'[i].from = payment[i].from
  /\ \A i \in Sends : payment'[i].at = "load" => payment[i].at = "load"

LEMMA ToldStays ==
  ASSUME XlmIInv, panel'.told = panel.told,
         \A i \in Sends : payment[i].at # "idle" => payment'[i].from = payment[i].from
  PROVE  \A a \in Accounts : ToldOf(a)' = ToldOf(a)
<1> SUFFICES ASSUME NEW a \in Accounts PROVE {i \in panel'.told : payment'[i].from = a} = ToldOf(a)
  BY DEF ToldOf
<1>1. \A i \in panel.told : i \in Sends /\ payment[i].at # "idle"
  BY DEF XlmIInv, XlmShapes, PaymentsOK
<1> QED
  BY <1>1 DEF ToldOf

\* No balance is asked for, and none comes.
LEMMA NoBalanceStep ==
  ASSUME XlmIInv, XlmShapes', NoLoad, Undone, panel'.loading = panel.loading,
         UNCHANGED <<panel.address, panel.balance>> \/ panel'.address = None
  PROVE  LoadsOK' /\ (~overtaken => Current)'
<1>1. loads' = loads /\ overtaken' = overtaken /\ loads \subseteq Asking
  BY DEF NoLoad, XlmIInv, XlmShapes
<1>2. LoadsOK'
  <2>1. \A l \in loads : l.send # 0 => payment'[l.send] = payment[l.send]
    BY <1>1 DEF Undone, XlmIInv, LoadsOK, OfSend, Asking
  <2> QED
    BY <1>1, <2>1 DEF XlmIInv, LoadsOK, OfSend
<1>3. (~overtaken => Current)'
  <2> SUFFICES ASSUME ~overtaken PROVE Current'
    BY <1>1
  <2>1. Current
    BY DEF XlmIInv
  <2>2. \A a \in Accounts : ToldOf(a)' = ToldOf(a)
    BY ToldStays DEF Undone
  <2>3. \A l \in loads : l.of \in Accounts
    BY <1>1 DEF Asking
  <2>4. panel'.loading <=> loads' # {}
    BY <1>1, <2>1 DEF Current
  <2>5. \A l \in loads : panel'.address \in {l.of, None} /\ (l.read => ToldOf(l.of)' \subseteq l.seen)
    BY <2>1, <2>2, <2>3 DEF Current
  <2>6. ASSUME loads = {}, panel'.address # None, panel'.balance # None
        PROVE  panel'.balance.of = panel'.address /\ ToldOf(panel.address)' \subseteq panel'.balance.seen
               /\ panel'.address = panel.address
    <3>1. panel'.address = panel.address /\ panel'.balance = panel.balance
      BY <2>6
    <3>2. panel.address \in Accounts
      BY <2>6, <3>1 DEF XlmIInv, XlmShapes, Front
    <3> QED
      BY <2>1, <2>2, <2>6, <3>1, <3>2 DEF Current
  <2> QED
    BY <1>1, <2>1, <2>4, <2>5, <2>6 DEF Current, ToldOf
<1> QED
  BY <1>2, <1>3

\* A balance is asked for.
LEMMA AskedStep ==
  ASSUME XlmIInv, NEW a \in Accounts, NEW connect \in BOOLEAN, NEW send \in Sends \cup {0},
         LoadBalance(a, connect, send), panel'.told = panel.told, panel'.loading = TRUE,
         connect => send = 0 /\ \A l \in loads : ~l.connect,
         \A i \in Sends : payment[i].at # "idle" => payment'[i].from = payment[i].from,
         \A i \in Sends : payment[i].at = "load" => payment'[i] = payment[i],
         send # 0 => /\ payment[send].at # "load" /\ payment'[send].at = "load"
                     /\ payment'[send].from = a
  PROVE  LoadsOK' /\ (~overtaken => Current)' /\ loads' \subseteq Asking /\ loadCount' \in Nat \ {0}
<1> DEFINE n == [id |-> loadCount, of |-> a, connect |-> connect, send |-> send, seen |-> {}, read |-> FALSE]
<1>1. loads' = loads \cup {n} /\ loadCount' = loadCount + 1
      /\ overtaken' = (overtaken \/ loads # {} \/ panel'.address \notin {a, None})
  BY DEF LoadBalance
<1>2. loads \subseteq Asking /\ loadCount \in Nat
  BY DEF XlmIInv, XlmShapes
<1>3. PICK l0 : l0 = n
  OBVIOUS
<1>4. l0 \in Asking /\ l0.of = a /\ l0.connect = connect /\ l0.send = send /\ l0.read = FALSE
  BY <1>2, <1>3 DEF Asking
<1> HIDE DEF n
<1>5. LoadsOK'
  <2>1. \A l \in loads : l.send # 0 => payment'[l.send] = payment[l.send] /\ payment[l.send].at = "load"
    BY <1>2 DEF XlmIInv, LoadsOK, OfSend, Asking
  <2>2. \A l \in loads' : l.send # 0 =>
          payment'[l.send].at = "load" /\ payment'[l.send].from = l.of /\ (l.read => l.send \in l.seen)
    <3>1. \A l \in loads : l.send # 0 =>
            payment'[l.send].at = "load" /\ payment'[l.send].from = l.of /\ (l.read => l.send \in l.seen)
      BY <2>1 DEF XlmIInv, LoadsOK, OfSend
    <3> QED
      BY <1>1, <1>3, <1>4, <3>1
  <2>3. \A l \in loads : ~(l.connect /\ connect) /\ ~(l.send = send /\ send # 0)
    BY <2>1
  <2>4. \A l, m \in loads' : (l.connect /\ m.connect) \/ (l.send = m.send /\ l.send # 0) => l = m
    <3>1. \A l, m \in loads : (l.connect /\ m.connect) \/ (l.send = m.send /\ l.send # 0) => l = m
      BY DEF XlmIInv, LoadsOK
    <3> QED
      BY <1>1, <1>3, <1>4, <2>3, <3>1
  <2>5. \A l \in loads' : l.connect => l.send = 0
    BY <1>1, <1>3, <1>4 DEF XlmIInv, LoadsOK
  <2> QED
    BY <2>2, <2>4, <2>5 DEF LoadsOK, OfSend
<1>6. (~overtaken => Current)'
  <2> SUFFICES ASSUME ~overtaken' PROVE Current'
    OBVIOUS
  <2>1. loads' = {l0} /\ panel'.address \in {a, None}
    BY <1>1, <1>3
  <2> QED
    BY <1>4, <2>1 DEF Current
<1> QED
  BY <1>1, <1>2, <1>3, <1>4, <1>5, <1>6

LEMMA ReadStep ==
  ASSUME XlmIInv, NEW l \in loads, ReadBalance(l)
  PROVE  XlmIInv'
<1>1. PICK m : m = [l EXCEPT !.read = TRUE, !.seen = {i \in included : payment[i].from = l.of}]
  OBVIOUS
<1>2. l \in Asking /\ loads \subseteq Asking /\ included \subseteq Sends
  BY DEF XlmIInv, XlmShapes
<1>3. /\ m \in Asking /\ m.of = l.of /\ m.connect = l.connect /\ m.send = l.send
      /\ m.seen = {i \in included : payment[i].from = l.of} /\ m.read = TRUE
  BY <1>1, <1>2 DEF Asking
<1>4. loads' = (loads \ {l}) \cup {m} /\ UNCHANGED <<active, switches, included, panel, pageAddress, mirror, payment, overtaken, loadCount>>
  BY <1>1 DEF ReadBalance, Extension
<1>5. XlmShapes'
  BY <1>2, <1>3, <1>4 DEF XlmIInv, XlmShapes
<1>6. PaymentsOK' /\ Begun' /\ PageFollows'
  BY <1>4 DEF XlmIInv, PaymentsOK, Begun, PageFollows
<1>7. LoadsOK'
  <2>1. l.send # 0 => payment[l.send].at = "load" /\ payment[l.send].from = l.of /\ l.send \in m.seen
    BY <1>2, <1>3 DEF XlmIInv, LoadsOK, OfSend, PaymentsOK, Asking
  <2>2. \A k \in loads' : k.send # 0 => OfSend(k)
    BY <1>3, <1>4, <2>1 DEF XlmIInv, LoadsOK, OfSend
  <2>3. \A k, j \in loads : (k.connect /\ j.connect) \/ (k.send = j.send /\ k.send # 0) => k = j
    BY DEF XlmIInv, LoadsOK
  <2>4. \A k, j \in loads' : (k.connect /\ j.connect) \/ (k.send = j.send /\ k.send # 0) => k = j
    BY <1>3, <1>4, <2>3
  <2>5. \A k \in loads' : k.connect => k.send = 0
    BY <1>3, <1>4 DEF XlmIInv, LoadsOK
  <2>6. \A k \in loads' : OfSend(k)' <=> OfSend(k)
    BY <1>4 DEF OfSend
  <2> QED
    BY <2>2, <2>4, <2>5, <2>6 DEF LoadsOK
<1>8. (~overtaken => Current)'
  <2> SUFFICES ASSUME ~overtaken PROVE Current'
    BY <1>4
  <2>1. Current
    BY DEF XlmIInv
  <2>2. loads' = {m} /\ loads # {}
    BY <1>4, <2>1 DEF Current
  <2>3. ToldOf(l.of) \subseteq m.seen
    BY <1>3 DEF XlmIInv, PaymentsOK, ToldOf
  <2>4. ToldOf(m.of)' = ToldOf(l.of)
    BY <1>3, <1>4 DEF ToldOf
  <2> QED
    BY <1>3, <1>4, <2>1, <2>2, <2>3, <2>4 DEF Current
<1> QED
  BY <1>5, <1>6, <1>7, <1>8 DEF XlmIInv

\* What a balance that comes leaves on show.
LEMMA BalanceApplied ==
  ASSUME XlmIInv, NEW l \in loads, NEW balance \in Reading \cup {None}, Apply(l, balance)
  PROVE  /\ panel' \in Front /\ panel'.address = panel.address /\ panel'.balance = balance
         /\ ~panel'.loading /\ panel'.told \in {panel.told, panel.told \cup {l.send}}
         /\ panel'.told # panel.told => l.send # 0
<1>1. l \in Asking /\ panel \in Front
  BY DEF XlmIInv, XlmShapes
<1>2. PICK p : p = [panel EXCEPT !.balance = balance, !.loading = FALSE]
  OBVIOUS
<1>3. p \in Front /\ p.address = panel.address /\ p.balance = balance /\ p.told = panel.told /\ p.loading = FALSE
  BY <1>1, <1>2 DEF Front
<1>4. CASE l.connect
  <2>0. l.send = 0
    BY <1>4 DEF XlmIInv, LoadsOK
  <2>1. panel' = [p EXCEPT !.connecting = FALSE]
    BY <1>2, <1>4, <2>0 DEF Apply
  <2> QED
    BY <1>3, <2>1 DEF Front
<1>5. CASE ~l.connect /\ l.send # 0
  <2>1. panel' = Told(l.send, p)
    BY <1>2, <1>5 DEF Apply
  <2>2. CASE p.form = l.send
    <3>1. panel' = [p EXCEPT !.form = 0, !.told = @ \cup {l.send}]
      BY <2>1, <2>2 DEF Told
    <3>2. l.send \in Sends
      BY <1>1, <1>5 DEF Asking
    <3>3. p.told \cup {l.send} \in SUBSET Sends
      BY <1>3, <3>2 DEF Front
    <3> QED
      BY <1>3, <1>5, <3>1, <3>3 DEF Front
  <2>3. CASE p.form # l.send
    BY <1>3, <2>1, <2>3 DEF Told
  <2> QED
    BY <2>2, <2>3
<1>6. CASE ~l.connect /\ l.send = 0
  <2>1. panel' = p
    BY <1>2, <1>6 DEF Apply
  <2> QED
    BY <1>3, <2>1
<1> QED
  BY <1>4, <1>5, <1>6

LEMMA ApplyStep ==
  ASSUME XlmIInv, NEW l \in loads, NEW balance \in Reading \cup {None}, Apply(l, balance),
         balance = None \/ (l.read /\ balance = [of |-> l.of, seen |-> l.seen])
  PROVE  XlmIInv'
<1>1. /\ l \in Asking /\ loads \subseteq Asking /\ payment \in [Sends -> Sent \cup [at : {"idle"}]]
      /\ included \subseteq Sends /\ 0 \notin Sends
  BY XlmAssumption DEF XlmIInv, XlmShapes
<1>2. /\ loads' = loads \ {l} /\ UNCHANGED <<active, switches, included, pageAddress, mirror, overtaken, loadCount>>
      /\ payment' = IF l.send # 0 THEN [payment EXCEPT ![l.send].at = "over"] ELSE payment
  BY DEF Apply, Extension
<1>3. /\ panel' \in Front /\ panel'.address = panel.address /\ panel'.balance = balance
      /\ ~panel'.loading /\ panel'.told \in {panel.told, panel.told \cup {l.send}}
      /\ panel'.told # panel.told => l.send # 0
  BY BalanceApplied
<1>4. l.send # 0 => l.send \in Sends /\ payment[l.send].at = "load" /\ payment[l.send].from = l.of /\ l.send \in included
                    /\ (l.read => l.send \in l.seen)
  BY <1>1 DEF XlmIInv, LoadsOK, OfSend, PaymentsOK, Asking
<1>5. /\ payment' \in [Sends -> Sent \cup [at : {"idle"}]]
      /\ \A i \in Sends : i # l.send => payment'[i] = payment[i]
      /\ \A i \in Sends : payment[i].at # "idle" => payment'[i].from = payment[i].from
      /\ l.send # 0 => payment'[l.send].at = "over"
  <2>1. CASE l.send = 0
    BY <1>1, <1>2, <2>1
  <2>2. CASE l.send # 0
    <3>1. PICK i \in Sends : i = l.send
      BY <1>4, <2>2
    <3>2. payment[i] \in Sent
      BY <1>1, <1>4, <2>2, <3>1 DEF Sent
    <3>3. PICK x : x = [payment[i] EXCEPT !.at = "over"]
      OBVIOUS
    <3>4. x \in Sent /\ x.from = payment[i].from /\ x.at = "over"
      BY <3>2, <3>3 DEF Sent
    <3>5. payment' = [payment EXCEPT ![i] = x]
      BY <1>2, <2>2, <3>1, <3>3
    <3> QED
      BY <1>1, <3>1, <3>4, <3>5
  <2> QED
    BY <2>1, <2>2
<1>6. XlmShapes'
  BY <1>1, <1>2, <1>3, <1>5 DEF XlmIInv, XlmShapes
<1>7. PaymentsOK'
  <2>1. panel'.told \subseteq included
    BY <1>3, <1>4 DEF XlmIInv, PaymentsOK
  <2>2. \A i \in Sends : payment'[i].at = "load" => i \in included
    BY <1>1, <1>4, <1>5 DEF XlmIInv, PaymentsOK
  <2>3. \A i \in included : payment'[i].at \in {"submit", "lost", "load", "over"}
    BY <1>1, <1>4, <1>5 DEF XlmIInv, PaymentsOK
  <2> QED
    BY <1>2, <2>1, <2>2, <2>3 DEF PaymentsOK
<1>8. LoadsOK'
  <2>1. \A k \in loads' : k.send # 0 => k.send \in Sends /\ payment'[k.send] = payment[k.send]
    BY <1>1, <1>2, <1>5 DEF XlmIInv, LoadsOK, OfSend, Asking
  <2> QED
    BY <1>2, <2>1 DEF XlmIInv, LoadsOK, OfSend
<1>9. Begun'
  <2>1. \A i \in Sends : payment'[i].at # "idle" => payment[i].at # "idle"
    BY <1>1, <1>4, <1>5
  <2> QED
    BY <1>2, <1>3, <2>1 DEF XlmIInv, Begun
<1>10. PageFollows'
  BY <1>2, <1>3 DEF XlmIInv, PageFollows
<1>11. (~overtaken => Current)'
  <2> SUFFICES ASSUME ~overtaken PROVE Current'
    BY <1>2
  <2>1. Current
    BY DEF XlmIInv
  <2>2. loads' = {}
    BY <1>2, <2>1 DEF Current
  <2>3. ASSUME panel'.address # None, balance # None
        PROVE  balance.of = panel'.address /\ {i \in panel'.told : payment'[i].from = panel'.address} \subseteq balance.seen
    <3>1. balance.of = l.of /\ balance.seen = l.seen /\ l.read
      BY <2>3
    <3>2. panel.address = l.of /\ ToldOf(l.of) \subseteq l.seen
      BY <1>3, <2>1, <2>3, <3>1 DEF Current
    <3>3. \A i \in panel.told : payment'[i].from = payment[i].from
      BY <1>1, <1>5 DEF XlmIInv, PaymentsOK
    <3>4. \A i \in panel'.told : payment'[i].from = l.of => i \in l.seen
      BY <1>3, <1>4, <3>1, <3>2, <3>3 DEF ToldOf
    <3> QED
      BY <1>3, <3>1, <3>2, <3>4
  <2> QED
    BY <1>3, <2>2, <2>3 DEF Current, ToldOf
<1> QED
  BY <1>6, <1>7, <1>8, <1>9, <1>10, <1>11 DEF XlmIInv

\* A step of the panel or of the page.
LEMMA FrontStep ==
  ASSUME XlmIInv, NoLoad, UNCHANGED <<payment, included>>, active' \in Accounts, panel' \in Front,
         panel'.told = panel.told, panel'.loading = panel.loading,
         UNCHANGED <<panel.address, panel.balance>> \/ panel'.address = None,
         pageAddress' \in Accounts \cup {None}, PageFollows'
  PROVE  XlmIInv'
<1>1. loads' = loads /\ loadCount' = loadCount
  BY DEF NoLoad
<1>2. XlmShapes'
  BY <1>1 DEF XlmIInv, XlmShapes
<1>3. Undone
  BY DEF Undone
<1>4. PaymentsOK' /\ Begun'
  BY <1>1 DEF XlmIInv, PaymentsOK, Begun
<1> QED
  BY <1>2, <1>3, <1>4, NoBalanceStep DEF XlmIInv

\* A step of a payment that is not waiting for its balance.
LEMMA PaymentStep ==
  ASSUME XlmIInv, NoLoad, NEW i \in Sends, NEW x \in Sent, payment' = [payment EXCEPT ![i] = x],
         UNCHANGED <<active, pageAddress, mirror, included>>, panel' \in Front,
         panel'.told = panel.told, panel'.loading = panel.loading, UNCHANGED <<panel.address, panel.balance>>,
         payment[i].at # "load", x.at # "load",
         payment[i].at = "idle" => panel.address # None,
         payment[i].at # "idle" => x.from = payment[i].from,
         i \in included => x.at \in {"submit", "lost", "over"}
  PROVE  XlmIInv'
<1>1. /\ loads' = loads /\ loadCount' = loadCount /\ payment \in [Sends -> Sent \cup [at : {"idle"}]]
      /\ included \subseteq Sends
  BY DEF NoLoad, XlmIInv, XlmShapes
<1>2. payment'[i] = x /\ \A k \in Sends \ {i} : payment'[k] = payment[k]
  BY <1>1
<1>3. XlmShapes'
  BY <1>1 DEF XlmIInv, XlmShapes
<1>4. Undone
  BY <1>2 DEF Undone
<1>5. PaymentsOK'
  BY <1>1, <1>2 DEF XlmIInv, PaymentsOK
<1>6. Begun'
  BY <1>1, <1>2 DEF XlmIInv, Begun
<1>7. PageFollows'
  BY <1>1 DEF XlmIInv, PageFollows
<1> QED
  BY <1>3, <1>4, <1>5, <1>6, <1>7, NoBalanceStep DEF XlmIInv

\* Who has not sent has no payment under way; what is under way has its sender.
LEMMA SentFields ==
  ASSUME XlmIInv, NEW i \in Sends, payment[i].at # "idle"
  PROVE  payment[i] \in Sent
BY DEF XlmIInv, XlmShapes

LEMMA SendsStep ==
  ASSUME XlmIInv, NEW i \in Sends, HandleSend(i) \/ BuildPayment(i) \/ SignTx(i) \/ SendFails(i)
  PROVE  XlmIInv'
<1>0. /\ panel \in Front /\ active \in Accounts /\ payment \in [Sends -> Sent \cup [at : {"idle"}]]
      /\ \A k \in included : payment[k].at \in {"submit", "lost", "load", "over"}
  BY DEF XlmIInv, XlmShapes, PaymentsOK
<1>1. CASE HandleSend(i)
  <2>1. PICK x : x = [at |-> "build", from |-> panel.address, signer |-> None]
    OBVIOUS
  <2>2. panel.address # None /\ panel.address \in Accounts /\ payment[i].at = "idle"
    BY <1>0, <1>1 DEF HandleSend, CanSend, Shown, Front
  <2>3. x \in Sent /\ x.at = "build"
    BY <2>1, <2>2 DEF Sent
  <2>4. payment' = [payment EXCEPT ![i] = x] /\ NoLoad /\ UNCHANGED <<active, pageAddress, mirror, included>>
    BY <1>1, <2>1 DEF HandleSend, Extension
  <2>5. panel' = [panel EXCEPT !.form = i]
    BY <1>1 DEF HandleSend
  <2>6. panel' \in Front /\ panel'.told = panel.told /\ panel'.loading = panel.loading
        /\ UNCHANGED <<panel.address, panel.balance>>
    BY <1>0, <2>5 DEF Front
  <2>7. i \notin included
    BY <1>0, <2>2
  <2> QED
    BY <2>2, <2>3, <2>4, <2>6, <2>7, PaymentStep
<1>2. CASE BuildPayment(i)
  <2>1. /\ payment[i].at = "build" /\ payment' = [payment EXCEPT ![i].at = "sign"] /\ NoLoad
        /\ UNCHANGED <<active, pageAddress, mirror, included, panel>>
    BY <1>2 DEF BuildPayment, Advance, SendOnly, Extension
  <2>2. PICK x : x = [payment[i] EXCEPT !.at = "sign"]
    OBVIOUS
  <2>3. x \in Sent /\ x.at = "sign" /\ x.from = payment[i].from
    BY <2>1, <2>2, SentFields DEF Sent
  <2>4. payment' = [payment EXCEPT ![i] = x]
    BY <2>1, <2>2
  <2>5. i \notin included
    BY <1>0, <2>1
  <2> QED
    BY <1>0, <2>1, <2>3, <2>4, <2>5, PaymentStep
<1>3. CASE SignTx(i)
  <2>1. /\ payment[i].at = "sign" /\ payment' = [payment EXCEPT ![i].at = "submit", ![i].signer = active] /\ NoLoad
        /\ UNCHANGED <<active, pageAddress, mirror, included, panel>>
    BY <1>3 DEF SignTx, SendOnly, Extension
  <2>2. PICK x : x = [payment[i] EXCEPT !.at = "submit", !.signer = active]
    OBVIOUS
  <2>3. x \in Sent /\ x.at = "submit" /\ x.from = payment[i].from
    BY <1>0, <2>1, <2>2, SentFields DEF Sent
  <2>4. payment' = [payment EXCEPT ![i] = x]
    BY <1>0, <2>1, <2>2
  <2> QED
    BY <1>0, <2>1, <2>3, <2>4, PaymentStep
<1>4. CASE SendFails(i)
  <2>1. /\ payment[i].at \in {"build", "sign", "submit"} /\ NoLoad
        /\ payment' = [payment EXCEPT ![i].at = IF @ = "submit" THEN "lost" ELSE "over"]
        /\ panel' = IF panel.form = i THEN [panel EXCEPT !.form = 0] ELSE panel
        /\ UNCHANGED <<active, pageAddress, mirror, included>>
    BY <1>4 DEF SendFails, SendOnly, Extension
  <2>2. PICK x : x = [payment[i] EXCEPT !.at = IF @ = "submit" THEN "lost" ELSE "over"]
    OBVIOUS
  <2>3. x \in Sent /\ x.at \in {"lost", "over"} /\ x.from = payment[i].from
    BY <2>1, <2>2, SentFields DEF Sent
  <2>4. payment' = [payment EXCEPT ![i] = x]
    BY <2>1, <2>2
  <2>5. panel' \in Front /\ panel'.told = panel.told /\ panel'.loading = panel.loading
        /\ UNCHANGED <<panel.address, panel.balance>>
    BY <1>0, <2>1 DEF Front
  <2> QED
    BY <2>1, <2>3, <2>4, <2>5, PaymentStep
<1> QED
  BY <1>1, <1>2, <1>3, <1>4

LEMMA IncludeStep ==
  ASSUME XlmIInv, NEW i \in Sends, Include(i)
  PROVE  XlmIInv'
<1>1. /\ payment[i].at \in {"submit", "lost"} /\ included' = included \cup {i} /\ NoLoad
      /\ UNCHANGED <<active, panel, pageAddress, mirror, payment>>
  BY DEF Include
<1>2. loads' = loads /\ loadCount' = loadCount
  BY <1>1 DEF NoLoad
<1>3. XlmShapes' /\ PaymentsOK' /\ Begun' /\ PageFollows'
  BY <1>1, <1>2 DEF XlmIInv, XlmShapes, PaymentsOK, Begun, PageFollows
<1>4. Undone
  BY <1>1 DEF Undone
<1> QED
  BY <1>1, <1>3, <1>4, NoBalanceStep DEF XlmIInv

\* A balance is asked for and the address it is of may be new.
LEMMA AskStep ==
  ASSUME XlmIInv, NEW a \in Accounts, NEW connect \in BOOLEAN, LoadBalance(a, connect, 0),
         connect => \A l \in loads : ~l.connect,
         UNCHANGED <<active, payment, included, mirror>>, panel' \in Front,
         panel'.told = panel.told, panel'.loading = TRUE,
         (panel'.address = panel.address /\ panel.address # None /\ pageAddress' = pageAddress)
           \/ (panel'.address = a /\ pageAddress' = a)
  PROVE  XlmIInv'
<1>1. LoadsOK' /\ (~overtaken => Current)' /\ loads' \subseteq Asking /\ loadCount' \in Nat \ {0}
  BY AskedStep
<1>2. XlmShapes'
  BY <1>1 DEF XlmIInv, XlmShapes
<1>3. PaymentsOK'
  BY DEF XlmIInv, PaymentsOK
<1>4. Begun'
  BY <1>1 DEF Begun, XlmIInv, XlmShapes
<1>5. PageFollows'
  <2>1. panel.address # None => loadCount > 0
    BY DEF XlmIInv, Begun
  <2> QED
    BY <2>1 DEF PageFollows, XlmIInv
<1> QED
  BY <1>1, <1>2, <1>3, <1>4, <1>5 DEF XlmIInv

LEMMA ConnectStep ==
  ASSUME XlmIInv, Detect \/ Restore \/ HandleConnect \/ Connected \/ HandleDisconnect
  PROVE  XlmIInv'
<1>0. /\ panel \in Front /\ active \in Accounts /\ pageAddress \in Accounts \cup {None} /\ PageFollows
      /\ UNCHANGED <<mirror, payment>> /\ UNCHANGED <<active, included>>
  BY DEF XlmIInv, XlmShapes, Detect, Restore, HandleConnect, Connected, HandleDisconnect, Extension
<1>a. ASSUME NoLoad, UNCHANGED pageAddress, panel'.address = panel.address
      PROVE  PageFollows'
  BY <1>0, <1>a DEF PageFollows, NoLoad
<1>1. CASE Detect
  <2>1. PICK f \in {"there", "absent"}, r \in BOOLEAN :
          panel' = [panel EXCEPT !.freighter = f, !.restore = r] \/ panel' = [panel EXCEPT !.freighter = f]
    BY <1>1 DEF Detect
  <2>2. /\ panel' \in Front /\ panel'.told = panel.told /\ panel'.loading = panel.loading
        /\ UNCHANGED <<panel.address, panel.balance>>
    BY <1>0, <2>1 DEF Front
  <2>3. NoLoad /\ UNCHANGED pageAddress
    BY <1>1 DEF Detect
  <2> QED
    BY <1>0, <1>a, <2>2, <2>3, FrontStep
<1>2. CASE Restore
  <2>1. CASE /\ UpdateAddress(active, [panel EXCEPT !.restore = FALSE, !.loading = TRUE])
             /\ LoadBalance(active, FALSE, 0)
    <3>1. panel' = [panel EXCEPT !.restore = FALSE, !.loading = TRUE, !.address = active] /\ pageAddress' = active
      BY <2>1 DEF UpdateAddress
    <3>2. panel' \in Front /\ panel'.told = panel.told /\ panel'.loading = TRUE /\ panel'.address = active
      BY <1>0, <3>1 DEF Front
    <3> QED
      BY <1>0, <2>1, <3>1, <3>2, AskStep
  <2>2. CASE /\ NoLoad /\ UNCHANGED pageAddress
             /\ \/ panel' = [panel EXCEPT !.restore = FALSE]
                \/ panel' = [panel EXCEPT !.restore = FALSE, !.freighter = "absent"]
    <3>1. /\ panel' \in Front /\ panel'.told = panel.told /\ panel'.loading = panel.loading
          /\ UNCHANGED <<panel.address, panel.balance>>
      BY <1>0, <2>2 DEF Front
    <3> QED
      BY <1>0, <1>a, <2>2, <3>1, FrontStep
  <2> QED
    BY <1>2, <2>1, <2>2 DEF Restore
<1>3. CASE HandleConnect
  <2>1. panel' = [panel EXCEPT !.connecting = TRUE] /\ NoLoad /\ UNCHANGED pageAddress
    BY <1>3 DEF HandleConnect
  <2>2. /\ panel' \in Front /\ panel'.told = panel.told /\ panel'.loading = panel.loading
        /\ UNCHANGED <<panel.address, panel.balance>>
    BY <1>0, <2>1 DEF Front
  <2> QED
    BY <1>0, <1>a, <2>1, <2>2, FrontStep
<1>4. CASE Connected
  <2>1. CASE UpdateAddress(active, [panel EXCEPT !.loading = TRUE]) /\ LoadBalance(active, TRUE, 0)
    <3>1. panel' = [panel EXCEPT !.loading = TRUE, !.address = active] /\ pageAddress' = active
      BY <2>1 DEF UpdateAddress
    <3>2. panel' \in Front /\ panel'.told = panel.told /\ panel'.loading = TRUE /\ panel'.address = active
      BY <1>0, <3>1 DEF Front
    <3>3. \A l \in loads : ~l.connect
      BY <1>4 DEF Connected
    <3> QED
      BY <1>0, <2>1, <3>1, <3>2, <3>3, AskStep
  <2>2. CASE panel' = [panel EXCEPT !.connecting = FALSE] /\ NoLoad /\ UNCHANGED pageAddress
    <3>1. /\ panel' \in Front /\ panel'.told = panel.told /\ panel'.loading = panel.loading
          /\ UNCHANGED <<panel.address, panel.balance>>
      BY <1>0, <2>2 DEF Front
    <3> QED
      BY <1>0, <1>a, <2>2, <3>1, FrontStep
  <2> QED
    BY <1>4, <2>1, <2>2 DEF Connected
<1>5. CASE HandleDisconnect
  <2>1. /\ panel' = [panel EXCEPT !.balance = None, !.form = 0, !.address = None] /\ pageAddress' = None /\ NoLoad
    BY <1>5 DEF HandleDisconnect, UpdateAddress
  <2>2. /\ panel' \in Front /\ panel'.told = panel.told /\ panel'.loading = panel.loading
        /\ panel'.address = None
    BY <1>0, <2>1 DEF Front
  <2>3. PageFollows'
    BY <2>1, <2>2 DEF PageFollows
  <2> QED
    BY <1>0, <2>1, <2>2, <2>3, FrontStep
<1> QED
  BY <1>1, <1>2, <1>3, <1>4, <1>5

LEMMA MirrorStep ==
  ASSUME XlmIInv, Mirror \/ SwitchAccount
  PROVE  XlmIInv'
<1>0. /\ panel \in Front /\ active \in Accounts /\ pageAddress \in Accounts \cup {None} /\ PageFollows
      /\ loadCount \in Nat /\ NoLoad /\ UNCHANGED <<panel, payment, included>>
  BY DEF XlmIInv, XlmShapes, Mirror, SwitchAccount, Extension
<1>1. CASE Mirror
  <2>1. /\ pageAddress' \in {active, None} /\ mirror' = IF loadCount = 0 THEN "in time" ELSE "late"
        /\ active' = active
    BY <1>1 DEF Mirror, Extension
  <2>2. PageFollows'
    <3>0. loadCount' = loadCount
      BY <1>0 DEF NoLoad
    <3>1. CASE loadCount = 0
      <4>1. ~(loadCount' > 0)
        BY <1>0, <3>0, <3>1
      <4> QED
        BY <4>1 DEF PageFollows
    <3>2. CASE loadCount # 0
      BY <2>1, <3>2 DEF PageFollows
    <3> QED
      BY <3>1, <3>2
  <2> QED
    BY <1>0, <2>1, <2>2, FrontStep
<1>2. CASE SwitchAccount
  <2>1. active' \in Accounts /\ UNCHANGED <<pageAddress, mirror>>
    BY <1>2 DEF SwitchAccount
  <2>2. PageFollows'
    BY <1>0, <2>1 DEF PageFollows, NoLoad
  <2> QED
    BY <1>0, <2>1, <2>2, FrontStep
<1> QED
  BY <1>1, <1>2

LEMMA RefreshBalanceStep ==
  ASSUME XlmIInv, HandleRefreshBalance
  PROVE  XlmIInv'
<1>1. /\ panel.address # None /\ panel' = [panel EXCEPT !.loading = TRUE]
      /\ LoadBalance(panel.address, FALSE, 0) /\ UNCHANGED <<active, included, pageAddress, mirror, payment>>
  BY DEF HandleRefreshBalance, Shown, Extension
<1>2. panel \in Front
  BY DEF XlmIInv, XlmShapes
<1>3. panel.address \in Accounts /\ panel' \in Front /\ panel'.told = panel.told /\ panel'.loading = TRUE
      /\ panel'.address = panel.address
  BY <1>1, <1>2 DEF Front
<1> QED
  BY <1>1, <1>3, AskStep

LEMMA SubmittedStep ==
  ASSUME XlmIInv, NEW i \in Sends, Submitted(i)
  PROVE  XlmIInv'
<1>1. /\ payment[i].at = "submit" /\ i \in included /\ payment' = [payment EXCEPT ![i].at = "load"]
      /\ panel' = [panel EXCEPT !.loading = TRUE] /\ LoadBalance(payment[i].from, FALSE, i)
      /\ UNCHANGED <<active, included, pageAddress, mirror>>
  BY DEF Submitted, Extension
<1>2. /\ panel \in Front /\ payment \in [Sends -> Sent \cup [at : {"idle"}]] /\ included \subseteq Sends
      /\ i # 0 /\ active \in Accounts /\ pageAddress \in Accounts \cup {None}
  BY XlmAssumption DEF XlmIInv, XlmShapes
<1>3. PICK x : x = [payment[i] EXCEPT !.at = "load"]
  OBVIOUS
<1>4. x \in Sent /\ x.at = "load" /\ x.from = payment[i].from /\ payment[i].from \in Accounts
  BY <1>1, <1>3, SentFields DEF Sent
<1>5. payment' = [payment EXCEPT ![i] = x]
  BY <1>1, <1>3
<1>6. payment'[i] = x /\ \A k \in Sends \ {i} : payment'[k] = payment[k]
  BY <1>2, <1>5
<1>7. panel' \in Front /\ panel'.told = panel.told /\ panel'.loading = TRUE /\ panel'.address = panel.address
  BY <1>1, <1>2 DEF Front
<1>8. LoadsOK' /\ (~overtaken => Current)' /\ loads' \subseteq Asking /\ loadCount' \in Nat \ {0}
  <2>1. /\ \A k \in Sends : payment[k].at # "idle" => payment'[k].from = payment[k].from
        /\ \A k \in Sends : payment[k].at = "load" => payment'[k] = payment[k]
    BY <1>1, <1>4, <1>6
  <2>2. i # 0 => payment[i].at # "load" /\ payment'[i].at = "load" /\ payment'[i].from = payment[i].from
    BY <1>1, <1>4, <1>6
  <2> QED
    BY <1>1, <1>4, <1>7, <2>1, <2>2, AskedStep
<1>9. XlmShapes'
  BY <1>1, <1>2, <1>4, <1>5, <1>7, <1>8 DEF XlmShapes
<1>10. PaymentsOK'
  BY <1>1, <1>2, <1>4, <1>6, <1>7 DEF XlmIInv, PaymentsOK
<1>11. Begun'
  BY <1>8 DEF Begun
<1>12. PageFollows'
  <2>1. loadCount > 0
    BY <1>1 DEF XlmIInv, Begun
  <2> QED
    BY <1>1, <1>7, <2>1 DEF XlmIInv, PageFollows
<1> QED
  BY <1>8, <1>9, <1>10, <1>11, <1>12 DEF XlmIInv

LEMMA BalanceStep ==
  ASSUME XlmIInv, NEW l \in loads, BalanceLoaded(l) \/ BalanceFails(l)
  PROVE  XlmIInv'
<1>1. CASE BalanceLoaded(l)
  <2>1. PICK b : b = [of |-> l.of, seen |-> l.seen]
    OBVIOUS
  <2>2. l \in Asking
    BY DEF XlmIInv, XlmShapes
  <2>3. b \in Reading \cup {None}
    BY <2>1, <2>2 DEF Asking, Reading
  <2>4. l.read /\ Apply(l, b)
    BY <1>1, <2>1 DEF BalanceLoaded
  <2> QED
    BY <2>1, <2>3, <2>4, ApplyStep
<1>2. CASE BalanceFails(l)
  BY <1>2, ApplyStep DEF BalanceFails
<1> QED
  BY <1>1, <1>2

LEMMA InitXlmStep == InitXlm => XlmIInv
<1> SUFFICES ASSUME InitXlm PROVE XlmIInv
  OBVIOUS
<1>1. /\ panel = [freighter |-> "detecting", restore |-> FALSE, address |-> None, balance |-> None,
                  loading |-> FALSE, connecting |-> FALSE, form |-> 0, told |-> {}]
      /\ active \in Accounts /\ pageAddress = None /\ mirror = "asked" /\ loads = {}
      /\ payment = [i \in Sends |-> [at |-> "idle"]] /\ included = {} /\ loadCount = 0
  BY DEF InitXlm
<1>2. XlmShapes
  <2>1. panel \in Front
    BY <1>1 DEF Front
  <2> QED
    BY <1>1, <2>1 DEF XlmShapes
<1>3. PaymentsOK /\ LoadsOK /\ Begun /\ Current /\ PageFollows
  BY <1>1 DEF PaymentsOK, LoadsOK, Begun, Current, PageFollows
<1> QED
  BY <1>2, <1>3 DEF XlmIInv

LEMMA NextXlmStep == XlmIInv /\ [NextXlm]_xlmVars => XlmIInv'
<1> SUFFICES ASSUME XlmIInv, [NextXlm]_xlmVars PROVE XlmIInv'
  OBVIOUS
<1>1. CASE UNCHANGED xlmVars
  BY <1>1 DEF xlmVars, XlmIInv, XlmShapes, PaymentsOK, LoadsOK, OfSend, Begun, Current, ToldOf, PageFollows
<1>2. CASE Detect \/ Restore \/ HandleConnect \/ Connected \/ HandleDisconnect
  BY <1>2, ConnectStep
<1>3. CASE Mirror \/ SwitchAccount
  BY <1>3, MirrorStep
<1>4. CASE HandleRefreshBalance
  BY <1>4, RefreshBalanceStep
<1>5. ASSUME NEW l \in loads, ReadBalance(l) \/ BalanceLoaded(l) \/ BalanceFails(l)
      PROVE  XlmIInv'
  BY <1>5, ReadStep, BalanceStep
<1>6. ASSUME NEW i \in Sends,
             \/ HandleSend(i) \/ BuildPayment(i) \/ SignTx(i) \/ Include(i) \/ Submitted(i) \/ SendFails(i)
      PROVE  XlmIInv'
  BY <1>6, SendsStep, IncludeStep, SubmittedStep
<1> QED
  BY <1>1, <1>2, <1>3, <1>4, <1>5, <1>6 DEF NextXlm

\* However the wallet, the network and the page answer, in which order and under which
\* account: the balance on show is that of the address on show and counts what was told to
\* be sent, unless one balance overtook another, and what the form tells is paid.
THEOREM WalletTellsTheTruth == InitXlm /\ [][NextXlm]_xlmVars => []XlmPanelInv
<1>1. XlmIInv => XlmPanelInv
  <2> SUFFICES ASSUME XlmIInv PROVE XlmPanelInv
    OBVIOUS
  <2>1. BalanceIsTrue
    BY DEF XlmIInv, Current, ToldOf, BalanceIsTrue, Shown
  <2>2. ToldIsPaid /\ PageFollows
    BY DEF XlmIInv, PaymentsOK, ToldIsPaid
  <2>4. Cardinality({l \in loads : l.connect}) <= 1
    <3>1. \A l, m \in {k \in loads : k.connect} : l = m
      BY DEF XlmIInv, LoadsOK
    <3> QED
      BY <3>1, AtMostOne
  <2>5. ~overtaken => Cardinality(loads) <= 1 /\ (panel.loading <=> loads # {})
    <3> SUFFICES ASSUME ~overtaken PROVE Cardinality(loads) <= 1 /\ (panel.loading <=> loads # {})
      OBVIOUS
    <3>1. (\A l, m \in loads : l = m) /\ (panel.loading <=> loads # {})
      BY DEF XlmIInv, Current
    <3> QED
      BY <3>1, AtMostOne
  <2>6. \A l \in loads : l.send # 0 => payment[l.send].at = "load"
    BY DEF XlmIInv, LoadsOK, OfSend
  <2>7. panel.address \in Accounts \cup {None} /\ pageAddress \in Accounts \cup {None}
    BY DEF XlmIInv, XlmShapes, Front
  <2> QED
    BY <2>1, <2>2, <2>4, <2>5, <2>6, <2>7 DEF XlmPanelInv, XlmTypeOK
<1> QED
  BY <1>1, InitXlmStep, NextXlmStep, PTL

-----------------------------------------------------------------------------
(* Market.  The inductive invariant.                                        *)

Selling == {"check", "pay", "reopen", "move"}

ListCall == [at : {"list", "create"}, who : Traders, car : Cars]
SaleCall == [at : Selling \cup {"claim"}, who : Traders, listing : Listings]
StarterCall == [at : {"starter"}, who : Traders]
UpgradeCall == [at : {"payup", "fit"}, car : Cars, target : 1..MaxTier]

\* A handler has read what its next steps use.
MarketCallsOK ==
  call \in [Threads -> {Idle} \cup ListCall \cup SaleCall \cup StarterCall \cup UpgradeCall]

\* What was posted and answered: its listing is closed, and only its buyer may
\* still be inside, on the way to the transfer.
AckedClosed == \A l \in Listings, b \in Traders : <<l, b>> \in bought \ unackedSale =>
  /\ listing[l].status = "FILLED"
  /\ \A t \in Threads : InSale(t, l) => call[t].at = "move" /\ call[t].who = b

\* Only one buyer's payment for a listing is posted and answered.
AckedOnce == \A l \in Listings, b, c \in Traders :
  <<l, b>> \in bought \ unackedSale /\ <<l, c>> \in bought \ unackedSale => b = c

\* Once the car is delivered nobody is inside the listing any more.
DeliveredClosed == \A l \in Listings, b \in Traders : <<l, b>> \in delivered =>
  /\ listing[l].status = "FILLED"
  /\ \A t \in Threads : ~InSale(t, l)

\* Who is about to get the car has paid.
MoverPaid == \A t \in Threads : At(t, "move") => <<call[t].listing, call[t].who>> \in bought

\* A listing that was paid for is there.
BoughtListed == \A l \in Listings, b \in Traders :
  <<l, b>> \in bought => listing[l].status # "none"

\* After the check the seller still has the car, or it went by another listing.
SellerStill == \A t \in Threads : call[t].at \in {"pay", "move"} =>
  LET l == call[t].listing IN SellerHas(l) \/ SoldTwice(l)

\* A listing that is there has a seller.
Sellers == \A l \in Listings : listing[l].status # "none" => listing[l].seller \in Traders

\* The tiers below the one that is bought are paid, and that one once it is fitted.
TiersOnWay == \A t \in Threads :
  /\ At(t, "payup") => \A n \in 1..call[t].target - 1 : <<call[t].car, n>> \in fitted
  /\ At(t, "fit") => \A n \in 1..call[t].target : <<call[t].car, n>> \in fitted

MarketHolds ==
  /\ MarketTypeOK /\ MarketCallsOK /\ OneBuyerInside /\ TierIsPaid /\ PaidMeansCar
  /\ AckedClosed /\ AckedOnce /\ DeliveredClosed /\ MoverPaid /\ BoughtListed /\ SellerStill
  /\ Sellers /\ TiersOnWay

-----------------------------------------------------------------------------
(* What the shapes of the calls give.                                      *)

\* Each label belongs to one shape.
LEMMA MarketShapes ==
  ASSUME MarketCallsOK, NEW t \in Threads
  PROVE  /\ call[t].at \in {"list", "create"} => call[t] \in ListCall
         /\ call[t].at \in Selling \cup {"claim"} => call[t] \in SaleCall
         /\ At(t, "starter") => call[t] \in StarterCall
         /\ call[t].at \in {"payup", "fit"} => call[t] \in UpgradeCall
         /\ call[t] = Idle => call[t].at = "idle"
BY DEF MarketCallsOK, ListCall, SaleCall, StarterCall, UpgradeCall, Idle, At, Selling

\* A call that ends leaves the others as they are.
LEMMA MarketCallEnds ==
  ASSUME MarketCallsOK, NEW t \in Threads, End(t)
  PROVE  /\ MarketCallsOK'
         /\ call'[t].at = "idle"
         /\ \A u \in Threads \ {t} : call'[u] = call[u]
BY DEF MarketCallsOK, End, Idle

\* A sale that goes on keeps its buyer and its listing.
LEMMA SaleGoes ==
  ASSUME MarketCallsOK, NEW t \in Threads, NEW x \in Selling,
         call[t].at \in Selling \cup {"claim"}, Goto(t, x)
  PROVE  /\ MarketCallsOK'
         /\ call'[t].at = x /\ call'[t].who = call[t].who
         /\ call'[t].listing = call[t].listing
         /\ \A u \in Threads \ {t} : call'[u] = call[u]
<1>1. call[t] \in SaleCall
  BY MarketShapes
<1>2. call' = [call EXCEPT ![t] = [call[t] EXCEPT !.at = x]]
  BY DEF Goto, MarketCallsOK
<1>3. [call[t] EXCEPT !.at = x] \in SaleCall
  BY <1>1 DEF SaleCall
<1> QED
  BY <1>1, <1>2, <1>3 DEF MarketCallsOK, SaleCall

-----------------------------------------------------------------------------
(* What stays when a step leaves its variables alone.                      *)

\* A step of a call that is not inside a listing afterwards, and by which neither
\* a listing nor a car changes: whoever was inside one has abandoned it.
LEMMA OutsideSale ==
  ASSUME MarketHolds, MarketTypeOK', MarketCallsOK', TierIsPaid', TiersOnWay', NEW t \in Threads,
         \A u \in Threads \ {t} : call'[u] = call[u],
         call'[t].at \notin Selling,
         UNCHANGED <<owner, listing, bought, delivered, unackedSale>>,
         abandoned \subseteq abandoned',
         \A l \in Listings : InSale(t, l) => l \in abandoned'
  PROVE  MarketHolds'
<1> USE DEF MarketHolds
<1>1. \A u \in Threads, l \in Listings : InSale(u, l)' => InSale(u, l) /\ u # t
  BY DEF InSale, Selling
<1>2. \A u \in Threads \ {t}, l \in Listings : InSale(u, l)' = InSale(u, l)
  BY DEF InSale
<1>3. OneBuyerInside'
  BY <1>1 DEF OneBuyerInside
<1>4. AckedClosed' /\ DeliveredClosed' /\ AckedOnce'
  BY <1>1 DEF AckedClosed, DeliveredClosed, AckedOnce
<1>5. MoverPaid'
  BY DEF MoverPaid, At, Selling
<1>6. BoughtListed' /\ Sellers'
  BY DEF BoughtListed, Sellers
<1>7. \A l : SoldTwice(l)' = SoldTwice(l) /\ SellerHas(l)' = SellerHas(l)
  BY DEF SoldTwice, SellerHas
<1>8. SellerStill'
  BY <1>7 DEF SellerStill, Selling
<1>9. PaidMeansCar'
  <2> SUFFICES ASSUME NEW l \in Listings, NEW b \in Traders,
                      <<l, b>> \in bought \ (delivered \cup unackedSale)
               PROVE  (\E u \in Threads : InSale(u, l)') \/ l \in abandoned' \/ SoldTwice(l)'
    BY DEF PaidMeansCar
  <2> QED
    BY <1>2, <1>7 DEF PaidMeansCar
<1> QED
  BY <1>3, <1>4, <1>5, <1>6, <1>8, <1>9

\* Tiers and purchases of tiers stay as they are, and so do the calls about them.
LEMMA TiersStay ==
  ASSUME MarketHolds, UNCHANGED <<tier, fitted>>,
         \A u \in Threads : call'[u].at \in {"payup", "fit"} => call'[u] = call[u]
  PROVE  TierIsPaid' /\ TiersOnWay'
BY DEF MarketHolds, TierIsPaid, TiersOnWay, At

-----------------------------------------------------------------------------
(* The steps outside a sale.                                               *)

LEMMA ListingSteps ==
  ASSUME MarketHolds, NEW t \in Threads,
         \/ \E p \in Traders, c \in Cars : ListCheckOwner(t, p, c)
         \/ ListCheckListed(t)
         \/ \E p \in Traders : Carless(t, p)
         \/ \E b \in Traders, l \in Listings : BuyRead(t, b, l)
  PROVE  MarketHolds'
<1> USE DEF MarketHolds, table, ghosts
<1>1. ASSUME NEW p \in Traders, NEW c \in Cars, ListCheckOwner(t, p, c) PROVE MarketHolds'
  <2>1. call'[t] \in ListCall /\ call'[t].at = "list" /\ call[t] = Idle
        /\ \A u \in Threads \ {t} : call'[u] = call[u]
    BY <1>1 DEF ListCheckOwner, Begin, MarketCallsOK, ListCall
  <2>2. MarketCallsOK'
    BY <1>1, <2>1 DEF ListCheckOwner, Begin, MarketCallsOK
  <2> QED
    BY <1>1, <2>1, <2>2, OutsideSale, TiersStay
       DEF ListCheckOwner, MarketTypeOK, Selling, InSale, Idle
<1>2. ASSUME ListCheckListed(t) PROVE MarketHolds'
  <2>1. MarketCallsOK' /\ call'[t].at \in {"idle", "create"}
        /\ \A u \in Threads \ {t} : call'[u] = call[u]
    <3>1. CASE End(t)
      BY <3>1, MarketCallEnds
    <3>2. CASE Goto(t, "create")
      <4>1. call[t] \in ListCall
        BY <1>2, MarketShapes DEF ListCheckListed, At
      <4>2. [call[t] EXCEPT !.at = "create"] \in ListCall
        BY <4>1 DEF ListCall
      <4> QED
        BY <3>2, <4>1, <4>2 DEF Goto, MarketCallsOK, ListCall
    <3> QED
      BY <1>2, <3>1, <3>2 DEF ListCheckListed
  <2> QED
    BY <1>2, <2>1, OutsideSale, TiersStay
       DEF ListCheckListed, MarketTypeOK, Selling, InSale, At
<1>3. ASSUME NEW p \in Traders, Carless(t, p) PROVE MarketHolds'
  <2>1. call'[t] \in StarterCall /\ call'[t].at = "starter" /\ call[t] = Idle
        /\ \A u \in Threads \ {t} : call'[u] = call[u]
    BY <1>3 DEF Carless, Begin, MarketCallsOK, StarterCall
  <2>2. MarketCallsOK'
    BY <1>3, <2>1 DEF Carless, Begin, MarketCallsOK
  <2> QED
    BY <1>3, <2>1, <2>2, OutsideSale, TiersStay
       DEF Carless, MarketTypeOK, Selling, InSale, Idle
<1>4. ASSUME NEW b \in Traders, NEW l \in Listings, BuyRead(t, b, l) PROVE MarketHolds'
  <2>1. call'[t] \in SaleCall /\ call'[t].at = "claim" /\ call[t] = Idle
        /\ \A u \in Threads \ {t} : call'[u] = call[u]
    BY <1>4 DEF BuyRead, Begin, MarketCallsOK, SaleCall
  <2>2. MarketCallsOK'
    BY <1>4, <2>1 DEF BuyRead, Begin, MarketCallsOK
  <2> QED
    BY <1>4, <2>1, <2>2, OutsideSale, TiersStay
       DEF BuyRead, MarketTypeOK, Selling, InSale, Idle
<1> QED
  BY <1>1, <1>2, <1>3, <1>4

\* The garage: a tier is paid before it is fitted.
LEMMA GarageSteps ==
  ASSUME MarketHolds, NEW t \in Threads,
         \/ \E p \in Traders, c \in Cars : UpgradeRead(t, p, c)
         \/ PayUpgrade(t) \/ FitUpgrade(t)
  PROVE  MarketHolds'
<1> USE DEF MarketHolds, table, ghosts
<1>1. ASSUME NEW p \in Traders, NEW c \in Cars, UpgradeRead(t, p, c) PROVE MarketHolds'
  <2>1. tier[c] + 1 \in 1..MaxTier
    BY <1>1, MarketAssumption DEF UpgradeRead, Maxed, MarketTypeOK
  <2>2. call'[t] = [at |-> "payup", car |-> c, target |-> tier[c] + 1] /\ call[t] = Idle
        /\ \A u \in Threads \ {t} : call'[u] = call[u]
    BY <1>1 DEF UpgradeRead, Begin, MarketCallsOK
  <2>3. call'[t] \in UpgradeCall
    BY <2>1, <2>2 DEF UpgradeCall
  <2>4. MarketCallsOK'
    BY <1>1, <2>2, <2>3 DEF UpgradeRead, Begin, MarketCallsOK
  <2>5. TierIsPaid'
    BY <1>1 DEF UpgradeRead, TierIsPaid
  <2>6. TiersOnWay'
    <3>1. \A n \in 1..(tier[c] + 1) - 1 : <<c, n>> \in fitted
      BY <2>1 DEF TierIsPaid, MarketTypeOK
    <3> QED
      BY <1>1, <2>2, <3>1 DEF UpgradeRead, TiersOnWay, At
  <2> QED
    BY <1>1, <2>2, <2>4, <2>5, <2>6, OutsideSale
       DEF UpgradeRead, MarketTypeOK, Selling, InSale, Idle
<1>2. ASSUME PayUpgrade(t) PROVE MarketHolds'
  <2> DEFINE key == <<call[t].car, call[t].target>>
  <2>1. call[t] \in UpgradeCall
    BY <1>2, MarketShapes DEF PayUpgrade, At
  <2>2. key \in Cars \X (1..MaxTier)
    BY <2>1, MarketAssumption DEF UpgradeCall
  <2>3. MarketCallsOK' /\ \A u \in Threads \ {t} : call'[u] = call[u]
    <3>1. CASE End(t)
      BY <3>1, MarketCallEnds
    <3>2. CASE Goto(t, "fit")
      <4>1. [call[t] EXCEPT !.at = "fit"] \in UpgradeCall
        BY <2>1 DEF UpgradeCall
      <4> QED
        BY <3>2, <4>1 DEF Goto, MarketCallsOK
    <3> QED
      BY <1>2, <3>1, <3>2 DEF PayUpgrade
  <2>4. \/ call'[t].at = "idle"
        \/ /\ call'[t].at = "fit" /\ call'[t].car = call[t].car
           /\ call'[t].target = call[t].target /\ fitted' = fitted \cup {key}
    <3>1. CASE End(t)
      BY <3>1, MarketCallEnds
    <3>2. CASE Goto(t, "fit") /\ fitted' = fitted \cup {key}
      BY <2>1, <3>2 DEF Goto, MarketCallsOK, UpgradeCall
    <3> QED
      BY <1>2, <3>1, <3>2 DEF PayUpgrade
  <2>5. fitted \subseteq fitted' /\ fitted' \subseteq fitted \cup {key}
    BY <1>2 DEF PayUpgrade
  <2>6. TierIsPaid'
    BY <1>2, <2>5 DEF PayUpgrade, TierIsPaid
  <2>7. TiersOnWay'
    <3>1. \A n \in 1..call[t].target - 1 : <<call[t].car, n>> \in fitted
      BY <1>2 DEF PayUpgrade, TiersOnWay
    <3>2. \A n \in 1..call[t].target : n \in 1..call[t].target - 1 \/ n = call[t].target
      BY <2>1 DEF UpgradeCall
    <3>3. At(t, "fit")' => \A n \in 1..call'[t].target : <<call'[t].car, n>> \in fitted'
      BY <2>4, <2>5, <3>1, <3>2 DEF At
    <3> QED
      BY <2>3, <2>4, <2>5, <3>3 DEF TiersOnWay, At
  <2>8. MarketTypeOK'
    BY <1>2, <2>2, <2>5 DEF PayUpgrade, MarketTypeOK
  <2> QED
    BY <1>2, <2>3, <2>4, <2>6, <2>7, <2>8, OutsideSale DEF PayUpgrade, Selling, InSale, At
<1>3. ASSUME FitUpgrade(t) PROVE MarketHolds'
  <2>1. call[t] \in UpgradeCall
    BY <1>3, MarketShapes DEF FitUpgrade, At
  <2>2. MarketCallsOK' /\ call'[t].at = "idle" /\ \A u \in Threads \ {t} : call'[u] = call[u]
    BY <1>3, MarketCallEnds DEF FitUpgrade
  <2>3. \A c \in Cars : tier'[c] = IF c = call[t].car THEN call[t].target ELSE tier[c]
    BY <1>3, <2>1 DEF FitUpgrade, Fitted, MarketTypeOK
  <2>4. MarketTypeOK'
    BY <1>3, <2>1, MarketAssumption DEF FitUpgrade, Fitted, MarketTypeOK, UpgradeCall
  <2>5. TierIsPaid'
    BY <1>3, <2>1, <2>3 DEF FitUpgrade, TierIsPaid, TiersOnWay, UpgradeCall
  <2>6. TiersOnWay'
    BY <1>3, <2>2 DEF FitUpgrade, TiersOnWay, At
  <2> QED
    BY <1>3, <2>2, <2>4, <2>5, <2>6, OutsideSale DEF FitUpgrade, Selling, InSale, At
<1> QED
  BY <1>1, <1>2, <1>3

\* A process dies: the listing it was inside of is abandoned.
LEMMA MarketCrash ==
  ASSUME MarketHolds, NEW t \in Threads, CrashMarket(t)
  PROVE  MarketHolds'
<1> USE DEF MarketHolds, table, ghosts
<1>1. MarketCallsOK' /\ call'[t].at = "idle" /\ \A u \in Threads \ {t} : call'[u] = call[u]
  BY MarketCallEnds DEF CrashMarket
<1>2. \A l \in Listings : InSale(t, l) => l \in abandoned'
  BY DEF CrashMarket, InSale
<1>3. MarketTypeOK'
  BY DEF CrashMarket, MarketTypeOK
<1> QED
  BY <1>1, <1>2, <1>3, OutsideSale, TiersStay DEF CrashMarket, Selling

-----------------------------------------------------------------------------
(* The steps of a sale.                                                    *)

\* A listing that was neither paid for nor delivered changes, and with it at most
\* one call, the only one inside: it leaves, or it has just claimed the listing.
LEMMA ListingChanges ==
  ASSUME MarketHolds, MarketTypeOK', MarketCallsOK', NEW l \in Listings,
         NEW T \in SUBSET Threads, \A u, v \in T : u = v,
         UNCHANGED <<owner, tier, bought, fitted, ghosts>>,
         \A k \in Listings \ {l} : listing'[k] = listing[k],
         listing[l].status # "none" =>
           listing'[l].car = listing[l].car /\ listing'[l].seller = listing[l].seller,
         listing'[l].status # "none" /\ listing'[l].seller \in Traders,
         \A b \in Traders : <<l, b>> \notin bought \ unackedSale /\ <<l, b>> \notin delivered,
         \A u \in Threads \ T : call'[u] = call[u] /\ ~InSale(u, l),
         \A u \in T : \/ /\ call'[u].at \notin Selling \cup {"payup", "fit"}
                        /\ \A k \in Listings \ {l} : ~InSale(u, k)
                     \/ /\ call'[u].at = "check" /\ call'[u].listing = l
                        /\ \A k \in Listings : ~InSale(u, k)
                        /\ listing'[l].status = "FILLED"
  PROVE  MarketHolds'
<1> USE DEF MarketHolds, ghosts
<1>1. \A u \in Threads, k \in Listings \ {l} : InSale(u, k)' <=> InSale(u, k)
  BY DEF InSale, Selling
<1>2. \A u \in Threads : InSale(u, l)' => u \in T /\ listing'[l].status = "FILLED"
  BY DEF InSale, Selling
<1>3. OneBuyerInside'
  BY <1>1, <1>2 DEF OneBuyerInside
<1>4. AckedClosed' /\ DeliveredClosed' /\ AckedOnce'
  <2>1. \A u \in Threads, k \in Listings \ {l} : InSale(u, k)' => call'[u] = call[u]
    BY DEF InSale, Selling
  <2> QED
    BY <1>1, <2>1 DEF AckedClosed, DeliveredClosed, AckedOnce
<1>5. MoverPaid'
  BY DEF MoverPaid, At, Selling
<1>6. BoughtListed' /\ Sellers'
  BY DEF BoughtListed, Sellers
<1>7. \A k \in Listings : listing[k].status # "none" =>
        listing'[k].car = listing[k].car /\ listing'[k].seller = listing[k].seller
  OBVIOUS
<1>8. \A k \in Listings : listing[k].status # "none" => (SellerHas(k)' <=> SellerHas(k))
  BY <1>7 DEF SellerHas
<1>9. \A k \in Listings : listing[k].status # "none" /\ SoldTwice(k) => SoldTwice(k)'
  <2>1. \A k \in Listings, b \in Traders : <<k, b>> \in delivered => listing[k].status # "none"
    BY DEF DeliveredClosed
  <2> QED
    BY <1>7, <2>1 DEF SoldTwice
<1>10. SellerStill'
  <2> SUFFICES ASSUME NEW u \in Threads, call'[u].at \in {"pay", "move"}
               PROVE  (LET k == call[u].listing IN SellerHas(k) \/ SoldTwice(k))'
    BY DEF SellerStill
  <2>1. call'[u] = call[u]
    BY DEF Selling
  <2>2. call[u].listing \in Listings /\ listing[call[u].listing].status # "none"
    BY <2>1, MarketShapes DEF SaleCall, Selling, OneBuyerInside, InSale
  <2> QED
    BY <1>8, <1>9, <2>1, <2>2 DEF SellerStill
<1>11. PaidMeansCar'
  <2> SUFFICES ASSUME NEW k \in Listings, NEW b \in Traders,
                      <<k, b>> \in bought \ (delivered \cup unackedSale)
               PROVE  (\E u \in Threads : InSale(u, k)') \/ k \in abandoned \/ SoldTwice(k)'
    BY DEF PaidMeansCar
  <2>1. k # l /\ listing[k].status # "none"
    BY DEF AckedClosed
  <2> QED
    BY <1>1, <1>9, <2>1 DEF PaidMeansCar
<1>12. TierIsPaid' /\ TiersOnWay'
  BY TiersStay, Selling # {} DEF Selling
<1> QED
  BY <1>3, <1>4, <1>5, <1>6, <1>10, <1>11, <1>12

\* A listing that is not FILLED has nobody inside, no answered payment and no delivery.
LEMMA NotFilled ==
  ASSUME MarketHolds, NEW l \in Listings, listing[l].status # "FILLED"
  PROVE  /\ \A u \in Threads : ~InSale(u, l)
         /\ \A b \in Traders : <<l, b>> \notin bought \ unackedSale /\ <<l, b>> \notin delivered
BY DEF MarketHolds, OneBuyerInside, AckedClosed, DeliveredClosed

\* Setting a status leaves the rest of the table as it is.
LEMMA SetStatusOf ==
  ASSUME MarketTypeOK, NEW l \in Listings, NEW s \in {"ACTIVE", "FILLED", "CANCELLED"},
         SetStatus(l, s)
  PROVE  /\ \A k \in Listings \ {l} : listing'[k] = listing[k]
         /\ listing'[l].status = s /\ listing'[l].car = listing[l].car
         /\ listing'[l].seller = listing[l].seller
         /\ listing' \in [Listings -> [status : {"none", "ACTIVE", "FILLED", "CANCELLED"},
                                       seller : Traders \cup {Nobody}, car : Cars]]
BY DEF SetStatus, MarketTypeOK

\* A listing is created, or cancelled by its seller.
LEMMA CreateAndCancel ==
  ASSUME MarketHolds, NEW l \in Listings, Cancel(l) \/ \E t \in Threads : ListCreate(t, l)
  PROVE  MarketHolds'
<1> USE DEF MarketHolds, ghosts
<1>1. CASE Cancel(l)
  <2>1. SetStatus(l, "CANCELLED") /\ call' = call
    BY <1>1 DEF Cancel
  <2>2. listing[l].status = "ACTIVE"
    BY <1>1 DEF Cancel, Cancellable
  <2>3. MarketTypeOK' /\ MarketCallsOK'
    BY <1>1, <2>1, SetStatusOf DEF Cancel, MarketTypeOK, MarketCallsOK
  <2>4. UNCHANGED <<owner, tier, bought, fitted, ghosts>>
    BY <1>1 DEF Cancel
  <2>5. /\ \A k \in Listings \ {l} : listing'[k] = listing[k]
        /\ listing'[l].car = listing[l].car /\ listing'[l].seller = listing[l].seller
        /\ listing'[l].status # "none" /\ listing'[l].seller \in Traders
    BY <2>1, <2>2, SetStatusOf DEF Sellers
  <2>6. \A b \in Traders : <<l, b>> \notin bought \ unackedSale /\ <<l, b>> \notin delivered
    BY <2>2, NotFilled
  <2>7. \A u \in Threads \ {} : call'[u] = call[u] /\ ~InSale(u, l)
    BY <2>1, <2>2, NotFilled
  <2> HIDE DEF MarketHolds, ghosts
  <2> QED
    BY <2>3, <2>4, <2>5, <2>6, <2>7, ListingChanges, {} \in SUBSET Threads
<1>2. ASSUME NEW t \in Threads, ListCreate(t, l) PROVE MarketHolds'
  <2>1. call[t] \in ListCall /\ call[t].who \in Traders /\ call[t].car \in Cars
    BY <1>2, MarketShapes DEF ListCreate, At, ListCall
  <2>2. /\ \A k \in Listings \ {l} : listing'[k] = listing[k]
        /\ listing'[l] = [status |-> "ACTIVE", seller |-> call[t].who, car |-> call[t].car]
    BY <1>2 DEF ListCreate, MarketTypeOK
  <2>3. listing[l].status = "none"
    BY <1>2 DEF ListCreate, NoListing
  <2>4. MarketTypeOK'
    BY <1>2, <2>1, <2>2 DEF ListCreate, MarketTypeOK
  <2>5. MarketCallsOK' /\ call'[t].at = "idle" /\ \A u \in Threads \ {t} : call'[u] = call[u]
    BY <1>2, MarketCallEnds DEF ListCreate
  <2>6. \A k \in Listings : ~InSale(t, k)
    BY <1>2 DEF ListCreate, At, InSale
  <2>7. UNCHANGED <<owner, tier, bought, fitted, ghosts>>
    BY <1>2 DEF ListCreate
  <2>8. \A b \in Traders : <<l, b>> \notin bought \ unackedSale /\ <<l, b>> \notin delivered
    BY <2>3, NotFilled
  <2>9. \A u \in Threads \ {t} : call'[u] = call[u] /\ ~InSale(u, l)
    BY <2>3, <2>5, NotFilled
  <2>10. call'[t].at \notin Selling \cup {"payup", "fit"}
    BY <2>5 DEF Selling
  <2>11. listing'[l].status # "none" /\ listing'[l].seller \in Traders
    BY <2>1, <2>2
  <2> HIDE DEF MarketHolds, ghosts
  <2> QED
    BY <2>2, <2>3, <2>4, <2>5, <2>6, <2>7, <2>8, <2>9, <2>10, <2>11, ListingChanges,
       {t} \in SUBSET Threads
<1> QED
  BY <1>1, <1>2

\* A claim wins the listing or finds it taken; a second look at the owner lets the
\* sale go on or ends it; and a refused payment opens the listing again.
LEMMA ClaimSteps ==
  ASSUME MarketHolds, NEW t \in Threads, ClaimListing(t) \/ CheckOwner(t) \/ ReopenListing(t)
  PROVE  MarketHolds'
<1> DEFINE l == call[t].listing
<1> USE DEF MarketHolds, ghosts
<1>1. call[t] \in SaleCall /\ l \in Listings
  BY MarketShapes DEF ClaimListing, CheckOwner, ReopenListing, At, Selling, SaleCall
<1>2. \A k \in Listings \ {l} : ~InSale(t, k)
  BY DEF InSale
<1>3. UNCHANGED <<owner, tier, bought, fitted, ghosts>>
  BY DEF ClaimListing, CheckOwner, ReopenListing
<1>4. ASSUME End(t), ~InSale(t, l), UNCHANGED listing PROVE MarketHolds'
  <2>1. MarketCallsOK' /\ call'[t].at = "idle" /\ \A u \in Threads \ {t} : call'[u] = call[u]
    BY <1>4, MarketCallEnds
  <2> QED
    BY <1>2, <1>3, <1>4, <2>1, OutsideSale, TiersStay DEF MarketTypeOK, Selling
<1>5. ASSUME NEW s \in {"ACTIVE", "CANCELLED"}, SetStatus(l, s), End(t), InSale(t, l),
             call[t].at # "move"
      PROVE  MarketHolds'
  <2>1. MarketCallsOK' /\ call'[t].at = "idle" /\ \A u \in Threads \ {t} : call'[u] = call[u]
    BY <1>5, MarketCallEnds
  <2>2. \A u \in Threads \ {t} : call'[u] = call[u] /\ ~InSale(u, l)
    BY <1>1, <1>5, <2>1 DEF OneBuyerInside
  <2>3. \A b \in Traders : <<l, b>> \notin bought \ unackedSale /\ <<l, b>> \notin delivered
    BY <1>1, <1>5 DEF AckedClosed, DeliveredClosed
  <2>4. /\ \A k \in Listings \ {l} : listing'[k] = listing[k]
        /\ listing'[l].car = listing[l].car /\ listing'[l].seller = listing[l].seller
        /\ listing'[l].status # "none"
    BY <1>1, <1>5, SetStatusOf
  <2>5. listing'[l].seller \in Traders
    BY <1>1, <1>5, <2>4 DEF Sellers, OneBuyerInside
  <2>6. MarketTypeOK'
    BY <1>1, <1>3, <1>5, SetStatusOf DEF MarketTypeOK
  <2>7. call'[t].at \notin Selling \cup {"payup", "fit"}
    BY <2>1 DEF Selling
  <2> HIDE DEF MarketHolds, ghosts, l
  <2> QED
    BY <1>1, <1>2, <1>3, <2>1, <2>2, <2>3, <2>4, <2>5, <2>6, <2>7, ListingChanges,
       {t} \in SUBSET Threads
<1>6. CASE ClaimListing(t)
  <2>1. ~InSale(t, l)
    BY <1>6 DEF ClaimListing, At, InSale
  <2>2. CASE Claimable(l)
    <3>1. SetStatus(l, "FILLED") /\ Goto(t, "check") /\ listing[l].status = "ACTIVE"
      BY <1>6, <2>2 DEF ClaimListing, Claimable
    <3>2. MarketCallsOK' /\ call'[t].at = "check" /\ call'[t].listing = l
          /\ \A u \in Threads \ {t} : call'[u] = call[u]
      BY <1>6, <3>1, SaleGoes DEF ClaimListing, At, Selling
    <3>3. \A u \in Threads \ {t} : call'[u] = call[u] /\ ~InSale(u, l)
      BY <1>1, <3>1, <3>2, NotFilled
    <3>4. \A b \in Traders : <<l, b>> \notin bought \ unackedSale /\ <<l, b>> \notin delivered
      BY <1>1, <3>1, NotFilled
    <3>5. /\ \A k \in Listings \ {l} : listing'[k] = listing[k]
          /\ listing'[l].car = listing[l].car /\ listing'[l].seller = listing[l].seller
          /\ listing'[l].status = "FILLED" /\ listing'[l].seller \in Traders
      BY <1>1, <3>1, SetStatusOf DEF Sellers
    <3>6. MarketTypeOK'
      BY <1>1, <1>3, <3>1, SetStatusOf DEF MarketTypeOK
    <3>7. \A k \in Listings : ~InSale(t, k)
      BY <1>2, <2>1
    <3>8. listing'[l].status # "none"
      BY <3>5
    <3>9. \A u \in {t} : /\ call'[u].at = "check" /\ call'[u].listing = l
                         /\ \A k \in Listings : ~InSale(u, k)
                         /\ listing'[l].status = "FILLED"
      BY <3>2, <3>5, <3>7
    <3>10. MarketCallsOK' /\ {t} \in SUBSET Threads /\ \A u, v \in {t} : u = v
      BY <3>2
    <3> HIDE DEF MarketHolds, ghosts, l
    <3> QED
      BY <1>1, <1>3, <3>3, <3>4, <3>5, <3>6, <3>8, <3>9, <3>10, ListingChanges
  <2>3. CASE ~Claimable(l)
    BY <1>4, <1>6, <2>1, <2>3 DEF ClaimListing
  <2> QED
    BY <2>2, <2>3
<1>7. CASE ReopenListing(t)
  BY <1>1, <1>5, <1>7 DEF ReopenListing, At, InSale
<1>8. CASE CheckOwner(t) /\ ~SellerHas(l)
  BY <1>1, <1>5, <1>8 DEF CheckOwner, At, InSale
<1>9. CASE CheckOwner(t) /\ SellerHas(l)
  <2>1. Goto(t, "pay") /\ UNCHANGED listing /\ call[t].at = "check"
    BY <1>9 DEF CheckOwner, At
  <2>2. MarketCallsOK' /\ call'[t].at = "pay" /\ call'[t].listing = l
        /\ \A u \in Threads \ {t} : call'[u] = call[u]
    BY <2>1, SaleGoes DEF Selling
  <2>3. \A u \in Threads, k \in Listings : InSale(u, k)' <=> InSale(u, k)
    BY <2>1, <2>2 DEF InSale
  <2>4. MarketTypeOK'
    BY <1>3, <2>1 DEF MarketTypeOK
  <2>5. OneBuyerInside' /\ Sellers' /\ BoughtListed' /\ AckedOnce' /\ DeliveredClosed'
    BY <1>3, <2>1, <2>3 DEF OneBuyerInside, Sellers, BoughtListed, AckedOnce, DeliveredClosed
  <2>6. AckedClosed'
    <3>1. ~InSale(t, l) \/ \A b \in Traders : <<l, b>> \notin bought \ unackedSale
      BY <1>1, <2>1 DEF AckedClosed
    <3>2. InSale(t, l)
      BY <2>1 DEF InSale
    <3>3. \A u \in Threads, k \in Listings \ {l} : InSale(u, k)' => call'[u] = call[u]
      BY <2>2 DEF InSale
    <3> QED
      BY <1>3, <2>1, <2>3, <3>1, <3>2, <3>3 DEF AckedClosed
  <2>7. MoverPaid'
    BY <1>3, <2>2 DEF MoverPaid, At
  <2>8. \A k : SoldTwice(k)' = SoldTwice(k) /\ SellerHas(k)' = SellerHas(k)
    BY <1>3, <2>1 DEF SoldTwice, SellerHas
  <2>9. SellerStill'
    BY <1>9, <2>2, <2>8 DEF SellerStill
  <2>10. PaidMeansCar'
    BY <1>3, <2>3, <2>8 DEF PaidMeansCar
  <2>11. TierIsPaid' /\ TiersOnWay'
    BY <1>3, <2>2, TiersStay
  <2> QED
    BY <2>2, <2>4, <2>5, <2>6, <2>7, <2>9, <2>10, <2>11
<1> QED
  BY <1>6, <1>7, <1>8, <1>9

\* A payment posts the buyer's key for the listing, or the listing is to be
\* opened again.
LEMMA PayStep ==
  ASSUME MarketHolds, NEW t \in Threads, PayListing(t)
  PROVE  MarketHolds'
<1> DEFINE l == call[t].listing
           b == call[t].who
<1> USE DEF MarketHolds, table
<1>1. call[t] \in SaleCall /\ l \in Listings /\ b \in Traders /\ call[t].at = "pay"
  BY MarketShapes DEF PayListing, At, Selling, SaleCall
<1>2. UNCHANGED <<owner, tier, listing, fitted, delivered, abandoned>>
  BY DEF PayListing
<1>3. /\ MarketCallsOK' /\ call'[t].at \in {"move", "reopen"}
      /\ call'[t].who = b /\ call'[t].listing = l
      /\ \A u \in Threads \ {t} : call'[u] = call[u]
  BY <1>1, SaleGoes DEF PayListing, Selling
<1>4. \/ bought' = bought \cup {<<l, b>>} /\ unackedSale' = unackedSale /\ call'[t].at = "move"
      \/ bought' \ unackedSale' = bought \ unackedSale /\ bought \subseteq bought'
         /\ bought' \subseteq bought \cup {<<l, b>>}
         /\ unackedSale \subseteq unackedSale' /\ unackedSale' \subseteq bought'
         /\ call'[t].at = "reopen"
  <2>1. <<l, b>> \notin bought \ unackedSale
    BY <1>1 DEF AckedClosed, InSale
  <2>2. Goto(t, "move") => call'[t].at = "move"
    BY <1>1, SaleGoes DEF Selling
  <2>3. Goto(t, "reopen") => call'[t].at = "reopen"
    BY <1>1, SaleGoes DEF Selling
  <2> QED
    BY <2>1, <2>2, <2>3 DEF PayListing, MarketTypeOK
<1>5. \A u \in Threads, k \in Listings : InSale(u, k)' <=> InSale(u, k)
  BY <1>1, <1>3 DEF InSale
<1>6. bought \subseteq bought' /\ bought' \subseteq bought \cup {<<l, b>>}
      /\ unackedSale' \subseteq bought'
  BY <1>4 DEF MarketTypeOK
<1>7. MarketTypeOK'
  BY <1>1, <1>2, <1>6 DEF MarketTypeOK
<1>8. OneBuyerInside' /\ Sellers' /\ DeliveredClosed'
  BY <1>2, <1>5 DEF OneBuyerInside, Sellers, DeliveredClosed
<1>9. BoughtListed'
  BY <1>1, <1>2, <1>6 DEF BoughtListed, OneBuyerInside, InSale
<1>10. \A c \in Traders : <<l, c>> \notin bought \ unackedSale
  BY <1>1 DEF AckedClosed, InSale
<1>11. \A k \in Listings, c \in Traders : <<k, c>> \in bought' \ unackedSale' =>
         \/ k # l /\ <<k, c>> \in bought \ unackedSale
         \/ k = l /\ c = b /\ call'[t].at = "move"
  BY <1>4, <1>10
<1>12. AckedOnce'
  BY <1>11 DEF AckedOnce
<1>13. AckedClosed'
  <2> SUFFICES ASSUME NEW k \in Listings, NEW c \in Traders,
                      <<k, c>> \in bought' \ unackedSale'
               PROVE  /\ listing[k].status = "FILLED"
                      /\ \A u \in Threads : InSale(u, k)' => call'[u].at = "move" /\ call'[u].who = c
    BY <1>2 DEF AckedClosed
  <2>1. CASE k # l
    <3>1. \A u \in Threads : InSale(u, k)' => call'[u] = call[u] /\ InSale(u, k)
      BY <1>3, <1>5, <2>1 DEF InSale
    <3> QED
      BY <1>11, <2>1, <3>1 DEF AckedClosed
  <2>2. CASE k = l
    <3>1. InSale(t, l)
      BY <1>1 DEF InSale
    <3> QED
      BY <1>1, <1>3, <1>5, <1>11, <2>2, <3>1 DEF OneBuyerInside
  <2> QED
    BY <2>1, <2>2
<1>14. MoverPaid'
  BY <1>3, <1>4, <1>6 DEF MoverPaid, At
<1>15. \A k : SoldTwice(k)' = SoldTwice(k) /\ SellerHas(k)' = SellerHas(k)
  BY <1>2 DEF SoldTwice, SellerHas
<1>16. SellerStill'
  BY <1>1, <1>3, <1>15 DEF SellerStill
<1>17. PaidMeansCar'
  <2>1. \A k \in Listings : k = l => InSale(t, k)'
    BY <1>1, <1>3 DEF InSale
  <2> SUFFICES ASSUME NEW k \in Listings, NEW c \in Traders,
                      <<k, c>> \in bought' \ (delivered \cup unackedSale')
               PROVE  (\E u \in Threads : InSale(u, k)') \/ k \in abandoned \/ SoldTwice(k)'
    BY <1>2 DEF PaidMeansCar
  <2>2. CASE k = l
    BY <1>1, <2>1, <2>2
  <2>3. CASE <<k, c>> \in bought \ unackedSale
    <3>1. (\E u \in Threads : InSale(u, k)) \/ k \in abandoned \/ SoldTwice(k)
      BY <2>3 DEF PaidMeansCar
    <3> QED
      BY <1>5, <1>15, <3>1
  <2> QED
    BY <1>11, <2>2, <2>3
<1>18. TierIsPaid' /\ TiersOnWay'
  BY <1>2, <1>3, TiersStay
<1> QED
  BY <1>3, <1>7, <1>8, <1>9, <1>12, <1>13, <1>14, <1>16, <1>17, <1>18

-----------------------------------------------------------------------------
(* The steps by which a car changes hands.                                 *)

\* What the transfer after a payment does: the car goes to the buyer who has paid
\* and has not been given a car, or it has left the seller by another sale.
LEMMA Transfer ==
  ASSUME MarketHolds, NEW t \in Threads, MoveCar(t),
         NEW l \in Listings, l = call[t].listing, NEW b \in Traders, b = call[t].who
  PROVE  /\ <<l, b>> \in bought \ delivered
         /\ \/ /\ SellerHas(l)
               /\ owner' = [owner EXCEPT ![listing[l].car] = b]
               /\ delivered' = delivered \cup {<<l, b>>}
            \/ ~SellerHas(l) /\ SoldTwice(l) /\ UNCHANGED <<owner, delivered>>
BY DEF MarketHolds, MoveCar, MoverPaid, DeliveredClosed, InSale, At, SellerStill

LEMMA MoveStep ==
  ASSUME MarketHolds, NEW t \in Threads, MoveCar(t)
  PROVE  MarketHolds'
<1> USE DEF MarketHolds
<1>0. PICK l \in Listings, b \in Traders : l = call[t].listing /\ b = call[t].who
  BY MarketShapes DEF MoveCar, At, Selling, SaleCall
<1>1. InSale(t, l) /\ call[t].at = "move"
  BY <1>0 DEF MoveCar, At, InSale
<1>2. UNCHANGED <<tier, listing, bought, fitted, unackedSale, abandoned>>
  BY DEF MoveCar
<1>3. MarketCallsOK' /\ call'[t].at = "idle" /\ \A u \in Threads \ {t} : call'[u] = call[u]
  BY MarketCallEnds DEF MoveCar
<1>4. /\ <<l, b>> \in bought \ delivered
      /\ \/ /\ SellerHas(l)
            /\ owner' = [owner EXCEPT ![listing[l].car] = b]
            /\ delivered' = delivered \cup {<<l, b>>}
         \/ ~SellerHas(l) /\ SoldTwice(l) /\ UNCHANGED <<owner, delivered>>
  BY <1>0, Transfer
<1>5. delivered \subseteq delivered' /\ delivered' \subseteq delivered \cup {<<l, b>>}
  BY <1>4
<1>6. \A u \in Threads, k \in Listings : InSale(u, k)' <=> InSale(u, k) /\ u # t
  BY <1>3 DEF InSale
<1>7. \A u \in Threads : ~InSale(u, l)'
  BY <1>1, <1>6 DEF OneBuyerInside
<1>8. MarketTypeOK'
  BY <1>2, <1>4 DEF MarketTypeOK
<1>9. OneBuyerInside' /\ Sellers' /\ BoughtListed' /\ AckedOnce'
  BY <1>2, <1>6 DEF OneBuyerInside, Sellers, BoughtListed, AckedOnce
<1>10. AckedClosed'
  BY <1>2, <1>3, <1>6 DEF AckedClosed
<1>11. DeliveredClosed'
  BY <1>1, <1>2, <1>5, <1>6, <1>7 DEF DeliveredClosed, OneBuyerInside
<1>12. MoverPaid'
  BY <1>2, <1>3 DEF MoverPaid, At
<1>13. \A k \in Listings : SoldTwice(k) => SoldTwice(k)'
  BY <1>2, <1>5 DEF SoldTwice
<1>14. SellerStill'
  <2> SUFFICES ASSUME NEW u \in Threads, call'[u].at \in {"pay", "move"}
               PROVE  (LET k == call[u].listing IN SellerHas(k) \/ SoldTwice(k))'
    BY DEF SellerStill
  <2>1. u # t /\ call'[u] = call[u]
    BY <1>3
  <2>2. PICK k \in Listings : k = call[u].listing
    BY <2>1, MarketShapes DEF SaleCall, Selling
  <2>3. k # l
    BY <1>1, <2>1, <2>2 DEF OneBuyerInside, InSale
  <2>4. SellerHas(k) \/ SoldTwice(k)
    BY <2>1, <2>2 DEF SellerStill
  <2>5. SellerHas(k)' \/ SoldTwice(k)'
    <3>1. CASE SoldTwice(k)
      BY <1>13, <3>1
    <3>2. CASE SellerHas(k) /\ listing[k].car # listing[l].car
      BY <1>2, <1>4, <3>2 DEF SellerHas, MarketTypeOK
    <3>3. CASE SellerHas(k) /\ listing[k].car = listing[l].car /\ SellerHas(l)
      BY <1>2, <1>4, <2>3, <3>3 DEF SoldTwice
    <3>4. CASE SellerHas(k) /\ ~SellerHas(l)
      BY <1>2, <1>4, <3>4 DEF SellerHas
    <3> QED
      BY <2>4, <3>1, <3>2, <3>3, <3>4
  <2> QED
    BY <2>1, <2>2, <2>5
<1>15. PaidMeansCar'
  <2> SUFFICES ASSUME NEW k \in Listings, NEW c \in Traders,
                      <<k, c>> \in bought \ (delivered' \cup unackedSale)
               PROVE  (\E u \in Threads : InSale(u, k)') \/ k \in abandoned \/ SoldTwice(k)'
    BY <1>2 DEF PaidMeansCar
  <2>1. (\E u \in Threads : InSale(u, k)) \/ k \in abandoned \/ SoldTwice(k)
    BY <1>5 DEF PaidMeansCar
  <2>2. ASSUME k = l PROVE SoldTwice(k)
    <3>1. c = b
      BY <1>0, <1>1, <2>2 DEF AckedClosed
    <3> QED
      BY <1>4, <2>2, <3>1
  <2>3. InSale(t, k) => k = l
    BY <1>0 DEF InSale
  <2> QED
    BY <1>6, <1>13, <2>1, <2>2, <2>3
<1>16. TierIsPaid' /\ TiersOnWay'
  BY <1>2, <1>3, TiersStay
<1> QED
  BY <1>3, <1>8, <1>9, <1>10, <1>11, <1>12, <1>14, <1>15, <1>16

\* A new car has nobody's listing.
LEMMA StarterStep ==
  ASSUME MarketHolds, NEW t \in Threads, NEW c \in Cars, CreateStarter(t, c)
  PROVE  MarketHolds'
<1> USE DEF MarketHolds, ghosts
<1>1. call[t] \in StarterCall /\ owner[c] = Nobody
  BY MarketShapes DEF CreateStarter
<1>2. UNCHANGED <<tier, listing, bought, fitted, ghosts>>
      /\ owner' = [owner EXCEPT ![c] = call[t].who]
  BY DEF CreateStarter
<1>3. MarketCallsOK' /\ call'[t].at = "idle" /\ \A u \in Threads \ {t} : call'[u] = call[u]
  BY MarketCallEnds DEF CreateStarter
<1>4. MarketTypeOK'
  BY <1>1, <1>2 DEF MarketTypeOK, StarterCall
<1>5. \A u \in Threads, k \in Listings : InSale(u, k)' <=> InSale(u, k)
  BY <1>3 DEF InSale, CreateStarter, At
<1>6. OneBuyerInside' /\ Sellers' /\ BoughtListed' /\ AckedOnce' /\ DeliveredClosed'
  BY <1>2, <1>5 DEF OneBuyerInside, Sellers, BoughtListed, AckedOnce, DeliveredClosed
<1>7. AckedClosed'
  BY <1>2, <1>3 DEF AckedClosed, InSale
<1>8. MoverPaid'
  BY <1>2, <1>3 DEF MoverPaid, At
<1>9. \A k \in Listings : SoldTwice(k)' <=> SoldTwice(k)
  BY <1>2 DEF SoldTwice
<1>10. \A k \in Listings : listing[k].status # "none" /\ SellerHas(k) => SellerHas(k)'
  <2> SUFFICES ASSUME NEW k \in Listings, listing[k].status # "none", SellerHas(k)
               PROVE  SellerHas(k)'
    OBVIOUS
  <2>1. listing[k].seller # Nobody
    BY CallsAssumption, MarketAssumption DEF Sellers
  <2>2. listing[k].car # c
    BY <1>1, <2>1 DEF SellerHas
  <2> QED
    BY <1>2, <2>2 DEF SellerHas, MarketTypeOK
<1>11. SellerStill'
  <2> SUFFICES ASSUME NEW u \in Threads, call'[u].at \in {"pay", "move"}
               PROVE  (LET k == call[u].listing IN SellerHas(k) \/ SoldTwice(k))'
    BY DEF SellerStill
  <2>1. call'[u] = call[u]
    BY <1>3
  <2>2. PICK k \in Listings : k = call[u].listing
    BY <2>1, MarketShapes DEF SaleCall, Selling
  <2>3. listing[k].status # "none"
    BY <2>1, <2>2 DEF OneBuyerInside, InSale
  <2>4. SellerHas(k) \/ SoldTwice(k)
    BY <2>1, <2>2 DEF SellerStill
  <2>5. SellerHas(k)' \/ SoldTwice(k)'
    BY <1>9, <1>10, <2>3, <2>4
  <2> QED
    BY <2>1, <2>2, <2>5
<1>12. PaidMeansCar'
  BY <1>2, <1>5, <1>9 DEF PaidMeansCar
<1>13. TierIsPaid' /\ TiersOnWay'
  BY <1>2, <1>3, TiersStay
<1> QED
  BY <1>3, <1>4, <1>6, <1>7, <1>8, <1>11, <1>12, <1>13

-----------------------------------------------------------------------------
(* The theorems.                                                           *)

LEMMA InitMarketHolds == InitMarket => MarketHolds
<1> SUFFICES ASSUME InitMarket PROVE MarketHolds
  OBVIOUS
<1> USE DEF InitMarket, InitCalls
<1>1. NoListing.car \in Cars
  BY MarketAssumption DEF NoListing
<1>2. MarketTypeOK
  BY <1>1, MarketAssumption DEF MarketTypeOK, NoListing
<1>3. \A t \in Threads : call[t].at = "idle"
  BY DEF Idle
<1>4. MarketCallsOK
  BY DEF MarketCallsOK
<1>5. \A t \in Threads, l \in Listings : ~InSale(t, l)
  BY <1>3 DEF InSale
<1>6. OneBuyerInside /\ PaidMeansCar /\ AckedClosed /\ AckedOnce /\ DeliveredClosed /\ BoughtListed
  BY <1>5 DEF OneBuyerInside, PaidMeansCar, AckedClosed, AckedOnce, DeliveredClosed, BoughtListed
<1>7. MoverPaid /\ SellerStill /\ TiersOnWay
  BY <1>3 DEF MoverPaid, SellerStill, TiersOnWay, At
<1>8. Sellers
  BY DEF Sellers, NoListing
<1>9. TierIsPaid
  BY DEF TierIsPaid
<1> QED
  BY <1>2, <1>4, <1>6, <1>7, <1>8, <1>9 DEF MarketHolds

LEMMA MarketStepHolds == MarketHolds /\ [NextMarket]_marketVars => MarketHolds'
<1> SUFFICES ASSUME MarketHolds, [NextMarket]_marketVars PROVE MarketHolds'
  OBVIOUS
<1>1. ASSUME NEW t \in Threads, MarketStep(t) \/ CrashMarket(t) PROVE MarketHolds'
  BY <1>1, ClaimSteps, PayStep, MoveStep, ListingSteps, CreateAndCancel, StarterStep,
     GarageSteps, MarketCrash DEF MarketStep
<1>2. ASSUME NEW t \in Threads, NEW p \in Traders,
             \/ Carless(t, p)
             \/ \E c \in Cars : ListCheckOwner(t, p, c) \/ UpgradeRead(t, p, c)
             \/ \E l \in Listings : BuyRead(t, p, l)
      PROVE  MarketHolds'
  BY <1>2, ListingSteps, GarageSteps
<1>3. ASSUME NEW l \in Listings, Cancel(l) PROVE MarketHolds'
  BY <1>3, CreateAndCancel
<1>4. CASE UNCHANGED marketVars
  <2> USE <1>4 DEF marketVars, table, ghosts, MarketHolds
  <2>1. MarketTypeOK' /\ MarketCallsOK' /\ TierIsPaid' /\ TiersOnWay' /\ Sellers' /\ BoughtListed'
        /\ AckedOnce'
    BY DEF MarketTypeOK, MarketCallsOK, TierIsPaid, TiersOnWay, At, Sellers, BoughtListed, AckedOnce
  <2>2. OneBuyerInside' /\ AckedClosed' /\ DeliveredClosed' /\ MoverPaid'
    BY DEF OneBuyerInside, AckedClosed, DeliveredClosed, MoverPaid, InSale, At
  <2>3. SellerStill' /\ PaidMeansCar'
    BY DEF SellerStill, PaidMeansCar, SoldTwice, SellerHas, InSale
  <2> QED
    BY <2>1, <2>2, <2>3
<1> QED
  BY <1>1, <1>2, <1>3, <1>4 DEF NextMarket

\* The inductive invariant holds in every reachable state.
THEOREM MarketInvariant == SpecMarket => []MarketHolds
<1> QED
  BY InitMarketHolds, MarketStepHolds, PTL DEF SpecMarket

\* The payments of a listing that were answered are one buyer's.
LEMMA PaidOnce ==
  ASSUME MarketHolds PROVE ListingPaidOnce
<1> SUFFICES ASSUME NEW l \in Listings
             PROVE  Cardinality({b \in Traders : <<l, b>> \in bought \ unackedSale}) <= 1
  BY DEF ListingPaidOnce
<1> DEFINE S == {b \in Traders : <<l, b>> \in bought \ unackedSale}
<1>1. CASE S = {}
  <2>1. Cardinality(S) = 0
    <3> HIDE DEF S
    <3> QED
      BY <1>1, FS_EmptySet
  <2> QED
    BY <2>1
<1>2. CASE S # {}
  <2>1. PICK b \in S : TRUE
    BY <1>2
  <2>2. S = {b}
    BY <2>1 DEF MarketHolds, AckedOnce
  <2>3. Cardinality(S) = 1
    BY <2>2, FS_Singleton
  <2> QED
    BY <2>3
<1> QED
  BY <1>1, <1>2

\* What the market promises, for any number of traders, cars, listings and calls:
\* a listing has one buyer inside at a time and is paid for once, no tier is fitted
\* that was not paid, and a buyer who has paid gets the car unless the answer was
\* lost, the process died or the car was sold by a second listing.
THEOREM MarketIsFair == SpecMarket => []MarketInv
<1>1. MarketHolds => MarketInv
  BY PaidOnce DEF MarketHolds, MarketInv
<1> QED
  BY <1>1, MarketInvariant, PTL

\* A car that has an owner changes hands only by a transfer.
LEMMA HandsChange ==
  ASSUME MarketHolds, NextMarket, NEW c \in Cars, owner'[c] # owner[c], owner[c] # Nobody
  PROVE  \E t \in Threads : MoveCar(t)
<1>1. ~(owner' = owner)
  OBVIOUS
<1>2. ~\E t \in Threads, d \in Cars : CreateStarter(t, d)
  <2> SUFFICES ASSUME NEW t \in Threads, NEW d \in Cars, CreateStarter(t, d) PROVE FALSE
    OBVIOUS
  <2>1. owner' = [owner EXCEPT ![d] = call[t].who] /\ owner[d] = Nobody
    BY DEF CreateStarter
  <2>2. c # d
    BY <2>1
  <2> QED
    BY <2>1, <2>2 DEF MarketHolds, MarketTypeOK
<1> QED
  BY <1>1, <1>2 DEF NextMarket, MarketStep, ClaimListing, CheckOwner, PayListing, ReopenListing,
     ListCheckListed, ListCreate, PayUpgrade, FitUpgrade, CrashMarket, Carless, ListCheckOwner,
     UpgradeRead, BuyRead, Cancel, table

\* A car changes hands only to somebody who has paid its owner's listing of it and
\* has not been given a car for that payment yet, in every step.
THEOREM CarsArePaidFor == SpecMarket => CarIsPaidFor
<1> DEFINE PaidFor == \A c \in Cars : owner'[c] # owner[c] /\ owner[c] # Nobody =>
      \E l \in Listings : /\ listing[l].car = c /\ listing[l].seller = owner[c]
                          /\ <<l, owner'[c]>> \in bought \ delivered
<1>1. ASSUME MarketHolds, NextMarket PROVE PaidFor
  <2> SUFFICES ASSUME NEW c \in Cars, owner'[c] # owner[c], owner[c] # Nobody
               PROVE  \E l \in Listings : /\ listing[l].car = c /\ listing[l].seller = owner[c]
                                          /\ <<l, owner'[c]>> \in bought \ delivered
    OBVIOUS
  <2>1. PICK t \in Threads : MoveCar(t)
    BY <1>1, HandsChange
  <2>2. PICK l \in Listings, b \in Traders : l = call[t].listing /\ b = call[t].who
    BY <1>1, <2>1, MarketShapes DEF MarketHolds, MoveCar, At, Selling, SaleCall
  <2>3. <<l, b>> \in bought \ delivered /\ SellerHas(l)
        /\ owner' = [owner EXCEPT ![listing[l].car] = b]
    BY <1>1, <2>1, <2>2, Transfer
  <2>4. listing[l].car = c /\ owner'[c] = b
    BY <1>1, <2>3 DEF MarketHolds, MarketTypeOK
  <2> QED
    BY <2>3, <2>4 DEF SellerHas
<1>2. MarketHolds /\ [NextMarket]_marketVars => [PaidFor]_marketVars
  BY <1>1
<1> QED
  BY <1>2, MarketInvariant, PTL DEF SpecMarket, CarIsPaidFor
=============================================================================
