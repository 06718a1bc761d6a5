------------------------------- MODULE Linking -------------------------------
(***************************************************************************)
(* WalletService's linked wallets: a challenge per user in Redis, taken    *)
(* once, and a row per key.  Every await of linkWallet ends a step, and    *)
(* calls run in several processes.  External: who holds which key and      *)
(* signs with it; one person may have two users and one wallet.            *)
(***************************************************************************)
EXTENDS Naturals, FiniteSets

CONSTANTS
  Users, WalletKeys, NoUser,
  Links,           \* calls of linkWallet
  MaxChallenges    \* bound

ASSUME LinkingAssumption == NoUser \notin Users /\ MaxChallenges \in Nat

VARIABLES
  pending,      \* Redis: the challenge that waits for each user, 0 for none
  issuedTo,     \* every challenge in the order of their issue
  linkedBy,     \* WalletLink rows: the user of each key
  link,         \* the calls
  takenBy,      \* ghost: the calls that got past their challenge
  unlinked      \* ghost: rows that have been removed

linkingVars == <<pending, issuedTo, linkedBy, link, takenBy, unlinked>>

Challenges == DOMAIN issuedTo

InitLinking ==
  /\ pending = [u \in Users |-> 0]
  /\ issuedTo = <<>>
  /\ linkedBy = [k \in WalletKeys |-> NoUser]
  /\ link = [c \in Links |-> [at |-> "idle"]]
  /\ takenBy = [n \in 1..MaxChallenges |-> {}]
  /\ unlinked = {}

\* A second challenge replaces the first.
GetChallenge(u) ==
  /\ Cardinality(Challenges) < MaxChallenges
  /\ LET n == Cardinality(Challenges) + 1
     IN issuedTo' = [m \in 1..n |-> IF m = n THEN u ELSE issuedTo[m]] /\ pending' = [pending EXCEPT ![u] = n]
  /\ UNCHANGED <<linkedBy, link, takenBy, unlinked>>

ChallengeExpires(u) ==
  /\ pending[u] # 0
  /\ pending' = [pending EXCEPT ![u] = 0]
  /\ UNCHANGED <<issuedTo, linkedBy, link, takenBy, unlinked>>

\* A challenge of any user, signed with the key or with another one.
LinkWallet(c, u, k, n, signed) ==
  /\ link[c].at = "idle"
  /\ link' = [link EXCEPT ![c] = [at |-> "take", user |-> u, key |-> k, challenge |-> n, signed |-> signed]]
  /\ UNCHANGED <<pending, issuedTo, linkedBy, takenBy, unlinked>>

Is(c, from) == link[c].at = from
To(c, to) == link' = [link EXCEPT ![c].at = to]

\* Mutant of TakeOnce: read, and deleted by nobody.
TakeAndLeave(u) == UNCHANGED pending

TakeOnce(u) == pending' = [pending EXCEPT ![u] = 0]

\* The challenge is gone whether or not it is the right one, and signed.
Take(c) ==
  /\ Is(c, "take")
  /\ LET u == link[c].user n == link[c].challenge IN
       /\ TakeOnce(u)
       /\ IF pending[u] = n /\ link[c].signed
            THEN To(c, "look") /\ takenBy' = [takenBy EXCEPT ![n] = @ \cup {c}]
            ELSE To(c, "refused") /\ UNCHANGED takenBy
  /\ UNCHANGED <<issuedTo, linkedBy, unlinked>>

Look(c) ==
  /\ Is(c, "look")
  /\ To(c, IF linkedBy[link[c].key] \in {NoUser, link[c].user} THEN "write" ELSE "refused")
  /\ UNCHANGED <<pending, issuedTo, linkedBy, takenBy, unlinked>>

\* The upsert creates the row, or sets its date: the user stays.
WriteLink(c) ==
  /\ Is(c, "write")
  /\ To(c, "linked")
  /\ linkedBy' = [linkedBy EXCEPT ![link[c].key] = IF @ = NoUser THEN link[c].user ELSE @]
  /\ UNCHANGED <<pending, issuedTo, takenBy, unlinked>>

UnlinkWallet(u, k) ==
  /\ linkedBy[k] = u
  /\ linkedBy' = [linkedBy EXCEPT ![k] = NoUser]
  /\ unlinked' = unlinked \cup {k}
  /\ UNCHANGED <<pending, issuedTo, link, takenBy>>

NextLinking ==
  \/ \E u \in Users : GetChallenge(u) \/ ChallengeExpires(u) \/ \E k \in WalletKeys : UnlinkWallet(u, k)
  \/ \E c \in Links :
       \/ \E u \in Users, k \in WalletKeys, n \in Challenges, signed \in BOOLEAN : LinkWallet(c, u, k, n, signed)
       \/ Take(c) \/ Look(c) \/ WriteLink(c)

SpecLinking == InitLinking /\ [][NextLinking]_linkingVars

-----------------------------------------------------------------------------
\* One signature links once, and only for the user whom its challenge was issued to.
OneLinkEach ==
  \A n \in Challenges : Cardinality(takenBy[n]) <= 1 /\ \A c \in takenBy[n] : link[c].user = issuedTo[n]

\* A row belongs to somebody who signed for it with that key.
RowsAreSigned ==
  \A k \in WalletKeys : linkedBy[k] # NoUser =>
    \E c \in UNION {takenBy[n] : n \in Challenges} : link[c].user = linkedBy[k] /\ link[c].key = k

\* Whoever is told that a key is linked has its row, unless it was removed since or two
\* users were linking the same key at the same time.
LinkedHasRow ==
  \A c \in Links : Is(c, "linked") /\ linkedBy[link[c].key] # link[c].user =>
    \/ link[c].key \in unlinked
    \/ \E d \in Links \ {c} : Is(d, "linked") /\ link[d].key = link[c].key /\ link[d].user # link[c].user

\* A row of WalletLink is the user's who signed for it, with a challenge of his own that
\* served once, and whoever is told so has it, calls in several processes or not.
LinkingInv == OneLinkEach /\ RowsAreSigned /\ LinkedHasRow
=============================================================================
