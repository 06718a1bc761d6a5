------------------------------- MODULE Custody -------------------------------
(***************************************************************************)
(* Custodial accounts: what WalletService.getWallet and airdrop do on the  *)
(* chain through StellarService (apps/api/src), on the test network.  An   *)
(* account is made and given its USDC trustline by the first call that     *)
(* needs it, in any process of the API; a process remembers the trustlines *)
(* it knows of.  The chain itself is external: it includes a transaction   *)
(* that has its source's next sequence number, once, at any time until the *)
(* transaction expires.                                                    *)
(***************************************************************************)
EXTENDS Naturals, FiniteSets

CONSTANTS
  Wallets,      \* custodial accounts, one per player
  Issuer,       \* the account that mints test USDC
  Servers,      \* processes of the API
  Jobs,         \* calls, numbered in the order they come in
  MaxCustodyFaults

ASSUME CustodyAssumption == Issuer \notin Wallets /\ Jobs \subseteq Nat

VARIABLES
  account,      \* on the chain: made or not, the sequence number, the trustline
  minted,       \* calls whose mint the chain has included, with the trustline there or not
  sent,         \* transactions the network may still include
  cache,        \* trustlineCache of each process
  job, custodyFaults

custodyVars == <<account, minted, sent, cache, job, custodyFaults>>

InitCustody ==
  /\ account = [a \in Wallets \cup {Issuer} |-> [made |-> a = Issuer, seq |-> 0, trust |-> FALSE]]
  /\ minted = {} /\ sent = {}
  /\ cache = [s \in Servers |-> {}]
  /\ job = [j \in Jobs |-> [at |-> "idle"]]
  /\ custodyFaults = 0

Ended == {"idle", "told", "failed"}
Go(j, at) == job' = [job EXCEPT ![j].at = at]
Remember(j) == cache' = [cache EXCEPT ![job[j].on] = @ \cup {job[j].of}]
CustodyFault == custodyFaults < MaxCustodyFaults /\ custodyFaults' = custodyFaults + 1

\* What comes after the trustline: the answer to getWallet, the mint of an airdrop.
Onwards(j) == Go(j, IF job[j].kind = "airdrop" THEN "mint" ELSE "told")

Call(j, kind, w, s) ==
  /\ job[j].at = "idle" /\ \A i \in Jobs : i < j => job[i].at # "idle"
  /\ job' = [job EXCEPT ![j] = [at |-> "ensure", kind |-> kind, of |-> w, on |-> s, seq |-> 0]]
  /\ UNCHANGED <<account, minted, sent, cache, custodyFaults>>

-----------------------------------------------------------------------------
(* ensureUsdcTrustline, and ensureAccount in it.                           *)
Cached(j) ==
  /\ job[j].at = "ensure" /\ job[j].of \in cache[job[j].on]
  /\ Onwards(j)
  /\ UNCHANGED <<account, minted, sent, cache, custodyFaults>>

\* The account was read: its trustline is there, or a transaction will set it.
Found(j) ==
  LET a == account[job[j].of]
  IN IF a.trust
     THEN Remember(j) /\ Onwards(j)
     ELSE job' = [job EXCEPT ![j].at = "set trust", ![j].seq = a.seq] /\ UNCHANGED cache

\* Any error of loadAccount counts as an account that is not there.
LoadAccount(j) ==
  /\ job[j].at = "ensure" /\ job[j].of \notin cache[job[j].on]
  /\ \/ account[job[j].of].made /\ Found(j) /\ UNCHANGED custodyFaults
     \/ ~account[job[j].of].made /\ Go(j, "fund") /\ UNCHANGED <<cache, custodyFaults>>
     \/ CustodyFault /\ Go(j, "fund") /\ UNCHANGED cache
  /\ UNCHANGED <<account, minted, sent>>

\* Friendbot, that funds an account once and refuses it the second time.
FriendbotFund(j) ==
  /\ job[j].at = "fund"
  /\ IF account[job[j].of].made
     THEN Go(j, "failed") /\ UNCHANGED <<account, custodyFaults>>
     ELSE /\ account' = [account EXCEPT ![job[j].of].made = TRUE]
          /\ \/ Go(j, "reload") /\ UNCHANGED custodyFaults
             \/ Go(j, "failed") /\ CustodyFault
  /\ UNCHANGED <<minted, sent, cache>>

Reload(j) ==
  /\ job[j].at = "reload" /\ Found(j)
  /\ UNCHANGED <<account, minted, sent, custodyFaults>>

\* Mutant of SendTrust: the trustline is remembered before the network has answered.
SendTrustEarly(j) ==
  /\ job[j].at = "set trust"
  /\ sent' = sent \cup {[by |-> j, from |-> job[j].of, seq |-> job[j].seq]}
  /\ Go(j, "sent trust") /\ Remember(j)
  /\ UNCHANGED <<account, minted, custodyFaults>>

SendTrust(j) ==
  /\ job[j].at = "set trust"
  /\ sent' = sent \cup {[by |-> j, from |-> job[j].of, seq |-> job[j].seq]}
  /\ Go(j, "sent trust")
  /\ UNCHANGED <<account, minted, cache, custodyFaults>>

TrustSet(j) ==
  /\ job[j].at = "included trust"
  /\ Remember(j) /\ Onwards(j)
  /\ UNCHANGED <<account, minted, sent, custodyFaults>>

-----------------------------------------------------------------------------
(* mintTestUsdc.  All airdrops share the issuer's sequence numbers.        *)
LoadIssuer(j) ==
  /\ job[j].at = "mint"
  /\ job' = [job EXCEPT ![j].at = "set mint", ![j].seq = account[Issuer].seq]
  /\ UNCHANGED <<account, minted, sent, cache, custodyFaults>>

SendMint(j) ==
  /\ job[j].at = "set mint"
  /\ sent' = sent \cup {[by |-> j, from |-> Issuer, seq |-> job[j].seq]}
  /\ Go(j, "sent mint")
  /\ UNCHANGED <<account, minted, cache, custodyFaults>>

Minted(j) ==
  /\ job[j].at = "included mint" /\ Go(j, "told")
  /\ UNCHANGED <<account, minted, sent, cache, custodyFaults>>

\* An awaited call that is never answered: the handler throws, the transaction stays out.
Lost(j) ==
  /\ job[j].at \notin Ended /\ CustodyFault
  /\ Go(j, "failed")
  /\ UNCHANGED <<account, minted, sent, cache>>

\* The process starts anew.
RestartServer(s) ==
  /\ CustodyFault
  /\ cache' = [cache EXCEPT ![s] = {}]
  /\ job' = [j \in Jobs |-> IF job[j].at \notin Ended /\ job[j].on = s THEN [job[j] EXCEPT !.at = "failed"] ELSE job[j]]
  /\ UNCHANGED <<account, minted, sent>>

-----------------------------------------------------------------------------
(* The network.                                                            *)
Applied(e) ==
  /\ account[e.from].seq = e.seq
  /\ account' = [account EXCEPT ![e.from].seq = @ + 1, ![e.from].trust = @ \/ e.from # Issuer]
  /\ minted' = IF e.from = Issuer THEN minted \cup {[by |-> e.by, landed |-> account[job[e.by].of].trust]} ELSE minted
  /\ sent' = sent \ {e}
  /\ job' = [job EXCEPT ![e.by].at = CASE @ = "sent trust" -> "included trust" [] @ = "sent mint" -> "included mint" [] OTHER -> @]
  /\ UNCHANGED <<cache, custodyFaults>>

\* A bad sequence number, or out of its time bounds.
Reject(e) ==
  /\ sent' = sent \ {e}
  /\ job' = [job EXCEPT ![e.by].at = IF @ \in {"sent trust", "sent mint"} THEN "failed" ELSE @]
  /\ IF account[e.from].seq # e.seq THEN UNCHANGED custodyFaults ELSE CustodyFault
  /\ UNCHANGED <<account, minted, cache>>

NextCustody ==
  \/ \E j \in Jobs :
       \/ \E kind \in {"wallet", "airdrop"}, w \in Wallets, s \in Servers : Call(j, kind, w, s)
       \/ Cached(j) \/ LoadAccount(j) \/ FriendbotFund(j) \/ Reload(j) \/ SendTrust(j) \/ TrustSet(j)
       \/ LoadIssuer(j) \/ SendMint(j) \/ Minted(j) \/ Lost(j)
  \/ \E s \in Servers : RestartServer(s)
  \/ \E e \in sent : Applied(e) \/ Reject(e)

SpecCustody == InitCustody /\ [][NextCustody]_custodyVars

-----------------------------------------------------------------------------
\* What a process remembers is true of the chain, whoever set the trustline and whatever
\* was lost (the cache is never read again from the chain).
CacheIsTrue == \A s \in Servers : \A w \in cache[s] : account[w].trust

\* Ready: a wallet that was shown, and one that a mint was sent to, has its trustline: no
\* mint fails for want of it.
WalletsReady ==
  /\ \A j \in Jobs : job[j].at \in {"told", "mint", "set mint", "sent mint", "included mint"} => account[job[j].of].trust
  /\ \A m \in minted : m.landed

\* An airdrop that was answered has a mint of its own, not one of a call beside it.
AirdropIsOwn ==
  \A j \in Jobs : job[j].at = "told" /\ job[j].kind = "airdrop" => \E m \in minted : m.by = j

CustodyTypeOK ==
  /\ account \in [Wallets \cup {Issuer} -> [made : BOOLEAN, seq : Nat, trust : BOOLEAN]]
  /\ cache \in [Servers -> SUBSET Wallets]
  /\ \A e \in sent : e.by \in Jobs /\ account[e.from].made
  /\ \A w \in Wallets : account[w].trust => account[w].made

\* An account that a call says is ready is ready, and an airdrop that it says was made
\* was made, whatever ran beside it, was lost or was restarted.
CustodyInv == CustodyTypeOK /\ CacheIsTrue /\ WalletsReady /\ AirdropIsOwn
=============================================================================
