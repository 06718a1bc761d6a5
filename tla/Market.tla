------------------------------- MODULE Market -------------------------------
(***************************************************************************)
(* Cars and the credits paid for them: MarketplaceService (apps/api/src/   *)
(* marketplace) and GarageService (apps/api/src/garage).  Every awaited    *)
(* call is a step of its own; calls of different processes interleave, and *)
(* may lose their answer, or die.  A payment is what module Ledger         *)
(* promises: posted once per key, whole, or else not at all (the payer is  *)
(* short, or the call fails), which is always possible here.               *)
(***************************************************************************)
EXTENDS Calls, FiniteSets

CONSTANTS
  Traders,      \* the players who own or may own cars
  Cars,
  Owners,       \* who owns which car at first; Nobody: it does not exist yet
  Listings,     \* ids the marketListing table may give out
  MaxTier,      \* 5 in the code
  Upgradable    \* cars whose upgrades are followed

ASSUME MarketAssumption ==
  /\ Traders \subseteq Players /\ Cars # {} /\ MaxTier \in Nat
  /\ Upgradable \subseteq Cars /\ Owners \subseteq [Cars -> Traders \cup {Nobody}]

VARIABLES
  owner,        \* car.playerId
  tier,         \* carUpgrade.tier of the car's slot
  listing,      \* the marketListing rows
  bought,       \* <<listing, buyer>>: the journals market-buy:<listing>:<buyer>
  fitted,       \* <<car, tier>>: the journals upgrade:<car>:<slot>:<tier>
  delivered,    \* ghost: purchases whose car was transferred
  unackedSale,   \* ghost: purchases posted without their caller learning of it
  abandoned     \* ghost: listings whose buyer's process died

table == <<owner, tier, listing>>
ghosts == <<delivered, unackedSale, abandoned>>
marketVars == <<table, bought, fitted, call, ghosts>>

NoListing == [status |-> "none", seller |-> Nobody, car |-> CHOOSE c \in Cars : TRUE]

InitMarket ==
  /\ owner \in Owners
  /\ tier = [c \in Cars |-> 0]
  /\ listing = [l \in Listings |-> NoListing]
  /\ bought = {} /\ fitted = {}
  /\ InitCalls
  /\ delivered = {} /\ unackedSale = {} /\ abandoned = {}

SetStatus(l, s) == listing' = [listing EXCEPT ![l].status = s]

-----------------------------------------------------------------------------
(* Listing and cancelling.                                                 *)
ListCheckOwner(t, p, c) ==
  /\ owner[c] = p
  /\ Begin(t, [at |-> "list", who |-> p, car |-> c])
  /\ UNCHANGED <<table, bought, fitted, ghosts>>

Listed(c) == \E l \in Listings : listing[l].status = "ACTIVE" /\ listing[l].car = c

ListCheckListed(t) ==
  /\ At(t, "list")
  /\ IF Listed(call[t].car) THEN End(t) ELSE Goto(t, "create")
  /\ UNCHANGED <<table, bought, fitted, ghosts>>

\* No constraint of the table keeps a car from being listed twice.
ListCreate(t, l) ==
  /\ At(t, "create")
  /\ listing[l] = NoListing
  /\ listing' = [listing EXCEPT ![l] =
       [status |-> "ACTIVE", seller |-> call[t].who, car |-> call[t].car]]
  /\ End(t)
  /\ UNCHANGED <<owner, tier, bought, fitted, ghosts>>

Cancellable(l) == listing[l].status = "ACTIVE"

\* The seller and the id never change: the read before the update adds nothing.
Cancel(l) ==
  /\ Cancellable(l)
  /\ SetStatus(l, "CANCELLED")
  /\ UNCHANGED <<owner, tier, bought, fitted, call, ghosts>>

-----------------------------------------------------------------------------
(* Buying.                                                                 *)
BuyRead(t, b, l) ==
  /\ listing[l].status = "ACTIVE"
  /\ listing[l].seller # b
  /\ Begin(t, [at |-> "claim", who |-> b, listing |-> l])
  /\ UNCHANGED <<table, bought, fitted, ghosts>>

Claimable(l) == listing[l].status = "ACTIVE"

ClaimListing(t) == LET l == call[t].listing IN
  /\ At(t, "claim")
  /\ IF Claimable(l) THEN SetStatus(l, "FILLED") /\ Goto(t, "check")
                     ELSE End(t) /\ UNCHANGED listing
  /\ UNCHANGED <<owner, tier, bought, fitted, ghosts>>

\* Mutant of SellerHas: the car is not looked at again.
SellerHasUnchecked(l) == TRUE

SellerHas(l) == owner[listing[l].car] = listing[l].seller

CheckOwner(t) == LET l == call[t].listing IN
  /\ At(t, "check")
  /\ IF SellerHas(l) THEN Goto(t, "pay") /\ UNCHANGED listing
                     ELSE SetStatus(l, "CANCELLED") /\ End(t)
  /\ UNCHANGED <<owner, tier, bought, fitted, ghosts>>

\* A payment is posted (or was before: the same key), or not; the answer that it
\* is may be lost, which the caller cannot tell from a refusal.
PayListing(t) == LET key == <<call[t].listing, call[t].who>> IN
  /\ At(t, "pay")
  /\ \/ bought' = bought \cup {key} /\ Goto(t, "move") /\ UNCHANGED unackedSale
     \/ /\ "lost" \in Faults
        /\ bought' = bought \cup {key}
        /\ unackedSale' = unackedSale \cup {key}
        /\ Goto(t, "reopen")
     \/ Goto(t, "reopen") /\ UNCHANGED <<bought, unackedSale>>
  /\ UNCHANGED <<table, fitted, delivered, abandoned>>

ReopenListing(t) == LET l == call[t].listing IN
  /\ At(t, "reopen")
  /\ listing[l].status = "FILLED"
  /\ SetStatus(l, "ACTIVE")
  /\ End(t)
  /\ UNCHANGED <<owner, tier, bought, fitted, ghosts>>

\* The transfer is guarded: when the car has left the seller the buyer is told
\* to contact support.
MoveCar(t) == LET l == call[t].listing IN
  /\ At(t, "move")
  /\ IF SellerHas(l)
     THEN /\ owner' = [owner EXCEPT ![listing[l].car] = call[t].who]
          /\ delivered' = delivered \cup {<<l, call[t].who>>}
     ELSE UNCHANGED <<owner, delivered>>
  /\ End(t)
  /\ UNCHANGED <<tier, listing, bought, fitted, unackedSale, abandoned>>

-----------------------------------------------------------------------------
(* The garage.                                                             *)

\* ensureStarterCar looks for a car and creates one awaits later.
Carless(t, p) ==
  /\ \A c \in Cars : owner[c] # p
  /\ Begin(t, [at |-> "starter", who |-> p])
  /\ UNCHANGED <<table, bought, fitted, ghosts>>

CreateStarter(t, c) ==
  /\ At(t, "starter")
  /\ owner[c] = Nobody
  /\ owner' = [owner EXCEPT ![c] = call[t].who]
  /\ End(t)
  /\ UNCHANGED <<tier, listing, bought, fitted, ghosts>>

Maxed(c) == tier[c] >= MaxTier

UpgradeRead(t, p, c) ==
  /\ owner[c] = p
  /\ c \in Upgradable
  /\ ~Maxed(c)
  /\ Begin(t, [at |-> "payup", car |-> c, target |-> tier[c] + 1])
  /\ UNCHANGED <<table, bought, fitted, ghosts>>

PayUpgrade(t) == LET key == <<call[t].car, call[t].target>> IN
  /\ At(t, "payup")
  /\ \/ fitted' = fitted \cup {key} /\ Goto(t, "fit")
     \/ "lost" \in Faults /\ fitted' = fitted \cup {key} /\ End(t)
     \/ End(t) /\ UNCHANGED fitted
  /\ UNCHANGED <<table, bought, ghosts>>

\* Mutant of Fitted: the upsert increments the tier.
FittedIncrement(t) == tier[call[t].car] + 1

\* The tier the upsert writes: the one that was read, plus one, whatever the row
\* holds by now.
Fitted(t) == call[t].target

FitUpgrade(t) ==
  /\ At(t, "fit")
  /\ tier' = [tier EXCEPT ![call[t].car] = Fitted(t)]
  /\ End(t)
  /\ UNCHANGED <<owner, listing, bought, fitted, ghosts>>

-----------------------------------------------------------------------------
\* The process of a call dies between two steps.
CrashMarket(t) ==
  /\ "crash" \in Faults
  /\ call[t] # Idle
  /\ End(t)
  /\ abandoned' = abandoned \cup
       {l \in Listings : call[t].at \in {"check", "pay", "reopen", "move"} /\ call[t].listing = l}
  /\ UNCHANGED <<table, bought, fitted, delivered, unackedSale>>

MarketStep(t) ==
  \/ ClaimListing(t) \/ CheckOwner(t) \/ PayListing(t) \/ ReopenListing(t) \/ MoveCar(t)
  \/ ListCheckListed(t) \/ \E l \in Listings : ListCreate(t, l)
  \/ \E c \in Cars : CreateStarter(t, c)
  \/ PayUpgrade(t) \/ FitUpgrade(t)

NextMarket ==
  \/ \E t \in Threads : MarketStep(t) \/ CrashMarket(t)
  \/ \E t \in Threads, p \in Traders :
       \/ Carless(t, p)
       \/ \E c \in Cars : ListCheckOwner(t, p, c) \/ UpgradeRead(t, p, c)
       \/ \E l \in Listings : BuyRead(t, p, l)
  \/ \E l \in Listings : Cancel(l)

SpecMarket == InitMarket /\ [][NextMarket]_marketVars

-----------------------------------------------------------------------------
(* Properties.                                                             *)
InSale(t, l) == call[t].at \in {"check", "pay", "reopen", "move"} /\ call[t].listing = l
SoldTwice(l) == \E k \in Listings \ {l}, b \in Traders :
              listing[k].car = listing[l].car /\ <<k, b>> \in delivered

\* Every variable has its type.
MarketTypeOK ==
  /\ owner \in [Cars -> Traders \cup {Nobody}]
  /\ tier \in [Cars -> 0..MaxTier]
  /\ listing \in [Listings ->
       [status : {"none", "ACTIVE", "FILLED", "CANCELLED"}, seller : Traders \cup {Nobody},
        car : Cars]]
  /\ bought \subseteq Listings \X Traders
  /\ fitted \subseteq Cars \X (1..MaxTier)
  /\ delivered \subseteq bought /\ unackedSale \subseteq bought /\ abandoned \subseteq Listings

\* "Of N concurrent buyers (or a racing cancel), exactly one transition wins": at
\* most one call is between a listing's claim and its end, and meanwhile nobody
\* changes the listing under it.
OneBuyerInside == \A l \in Listings :
  /\ \A t, u \in Threads : InSale(t, l) /\ InSale(u, l) => t = u
  /\ \A t \in Threads : InSale(t, l) => listing[l].status = "FILLED"

\* A listing is paid for twice only if the first payment's answer was lost.
ListingPaidOnce == \A l \in Listings :
  Cardinality({b \in Traders : <<l, b>> \in bought \ unackedSale}) <= 1

\* No tier is fitted that was not paid, tier by tier, whatever purchases overlap
\* and whoever owns the car by now.
TierIsPaid == \A c \in Cars : \A n \in 1..tier[c] : <<c, n>> \in fitted

\* A buyer who has paid, whose answer was not lost and whose process lives, gets the
\* car, except when a second listing of the same car was sold as well: the
\* transfer "after payment" fails in no other case.
PaidMeansCar == \A l \in Listings, b \in Traders :
  <<l, b>> \in bought \ (delivered \cup unackedSale) =>
    (\E t \in Threads : InSale(t, l)) \/ l \in abandoned \/ SoldTwice(l)

\* A listing sells one car to one buyer who paid, whoever buys, cancels, relists,
\* upgrades or dies meanwhile, and no tier of a car goes unpaid.
MarketInv == MarketTypeOK /\ OneBuyerInside /\ ListingPaidOnce /\ TierIsPaid /\ PaidMeansCar

\* A car changes hands only to somebody who has paid its owner's listing of it and
\* has not been given a car for that payment yet.
CarIsPaidFor == [][\A c \in Cars : owner'[c] # owner[c] /\ owner[c] # Nobody =>
  \E l \in Listings :
    /\ listing[l].car = c /\ listing[l].seller = owner[c]
    /\ <<l, owner'[c]>> \in bought \ delivered]_marketVars
=============================================================================
