------------------------------- MODULE Escrow -------------------------------
(***************************************************************************)
(* The escrow contract on the chain (packages/contracts/marketplace-escrow)*)
(* and the panel by which the web client uses it (contract.ts and          *)
(* escrow-panel.tsx).  A transaction of the contract is atomic: it         *)
(* panics and changes nothing, or does all of it.  The panel reads,        *)
(* simulates, has the wallet sign, sends and polls, and what it shows may  *)
(* be older than the chain.                                                *)
(***************************************************************************)
EXTENDS Integers, Sequences, Collections

CONSTANTS
  Wallets, Treasury, Contract,   \* accounts: the traders', the fees', the contract's
  Panels,        \* the wallets that trade by the panel
  Purse,         \* [Wallets -> Nat]: USDC at the start
  Holding,       \* [Wallets -> Nat]: units of the asset at the start
  Fees,          \* basis points that init may be called with
  Offers,        \* the [amount, price, ttl] that a wallet calls list with
  MaxListings, MaxSequence, MaxClicks   \* bounds: listings, ledgers, transactions of each panel

NotEscrowed == [seller |-> Treasury, amount |-> 0, price |-> 0, expiry |-> 0, active |-> FALSE]
MaxFeeBps == 500
NotInitialised == -1

ASSUME EscrowAssumption ==
  /\ Panels \subseteq Wallets /\ Treasury \notin Wallets /\ Contract \notin Wallets \cup {Treasury}
  /\ Purse \in [Wallets -> Nat] /\ Holding \in [Wallets -> Nat]
  /\ Offers \in [Wallets -> SUBSET [amount : Int, price : Int, ttl : Nat]]
  /\ Fees \subseteq Nat
  /\ MaxListings \in Nat

VARIABLES
  feeBps,     \* the contract's FeeConfig, or NotInitialised
  escrowed,   \* its listings, in the order of their ids
  usdc,       \* balances in the USDC token
  units,      \* balances in the asset's token
  sequence,   \* the ledger's number
  nonce,      \* each account's sequence number
  wire,       \* transactions that were sent and neither included nor expired
  panel,      \* each wallet's panel
  ended,      \* ghost: the transaction that ended each listing
  timedOut,   \* ghost: transactions whose panel stopped polling before an answer
  retyped     \* ghost: panels whose id was typed over while something was loading

contractVars == <<feeBps, escrowed, usdc, units, sequence>>
chainVars == <<nonce, wire, ended>>
escrowVars == <<contractVars, chainVars, panel, timedOut, retyped>>

Ids == DOMAIN escrowed
None == [op |-> "none"]
BlankPanel == [typed |-> 0, shown |-> NotEscrowed, fetch |-> <<>>, at |-> "rest",
               tx |-> None, result |-> None, clicks |-> 0]

InitEscrow ==
  /\ feeBps = NotInitialised
  /\ escrowed = <<>>
  /\ usdc = [w \in Wallets \cup {Treasury} |-> IF w = Treasury THEN 0 ELSE Purse[w]]
  /\ units = [w \in Wallets \cup {Contract} |-> IF w = Contract THEN 0 ELSE Holding[w]]
  /\ sequence = 0
  /\ nonce = [w \in Panels |-> 0]
  /\ wire = {}
  /\ panel = [w \in Panels |-> BlankPanel]
  /\ ended = <<>>
  /\ timedOut = {}
  /\ retyped = {}

-----------------------------------------------------------------------------
(* The contract.                                                           *)
Move(bal, from, to, n) == [bal EXCEPT ![from] = @ - n, ![to] = @ + n]
Fee(price) == (price * feeBps) \div 10000
Close(l) == [escrowed EXCEPT ![l].active = FALSE]

InitContract ==
  /\ feeBps = NotInitialised
  /\ \E bps \in Fees : bps <= MaxFeeBps /\ feeBps' = bps
  /\ UNCHANGED <<escrowed, usdc, units, sequence, chainVars, panel, timedOut, retyped>>

\* list, called by the seller; no part of the web client does.
List(w, offer) ==
  /\ feeBps # NotInitialised
  /\ Len(escrowed) < MaxListings
  /\ offer.amount > 0 /\ offer.price > 0
  /\ units[w] >= offer.amount
  /\ units' = Move(units, w, Contract, offer.amount)
  /\ escrowed' = Append(escrowed, [seller |-> w, amount |-> offer.amount, price |-> offer.price,
                                 expiry |-> sequence + offer.ttl, active |-> TRUE])
  /\ ended' = Append(ended, None)
  /\ UNCHANGED <<feeBps, usdc, sequence, nonce, wire, panel, timedOut, retyped>>

\* buy and cancel panic unless ...
CanBuy(w, l) == l \in Ids /\ escrowed[l].active /\ usdc[w] >= escrowed[l].price

CanCancel(w, l) ==
  /\ l \in Ids /\ escrowed[l].active
  /\ sequence < escrowed[l].expiry => w = escrowed[l].seller

CanRun(w, op, l) == IF op = "buy" THEN CanBuy(w, l) ELSE CanCancel(w, l)

\* Mutant of Bought: the listing stays active.
BoughtOnly(w, l) ==
  LET it == escrowed[l]  fee == Fee(it.price) IN
  /\ usdc' = Move(Move(usdc, w, it.seller, it.price - fee), w, Treasury, fee)
  /\ units' = Move(units, Contract, w, it.amount)
  /\ UNCHANGED escrowed

\* Price less fee to the seller, the fee to its recipient, the asset to the buyer.
Bought(w, l) ==
  LET it == escrowed[l]  fee == Fee(it.price) IN
  /\ usdc' = Move(Move(usdc, w, it.seller, it.price - fee), w, Treasury, fee)
  /\ units' = Move(units, Contract, w, it.amount)
  /\ escrowed' = Close(l)

Cancelled(l) ==
  /\ units' = Move(units, Contract, escrowed[l].seller, escrowed[l].amount)
  /\ escrowed' = Close(l)
  /\ UNCHANGED usdc

\* A client of somebody's own; "anyone may trigger refund after expiry".
Direct(w, op, l) ==
  /\ w \notin Panels /\ CanRun(w, op, l)
  /\ IF op = "buy" THEN Bought(w, l) ELSE Cancelled(l)
  /\ ended' = [ended EXCEPT ![l] = [who |-> w, op |-> op]]
  /\ UNCHANGED <<feeBps, sequence, nonce, wire, panel, timedOut, retyped>>

LedgerCloses ==
  /\ sequence < MaxSequence /\ sequence' = sequence + 1
  /\ UNCHANGED <<feeBps, escrowed, usdc, units, chainVars, panel, timedOut, retyped>>

-----------------------------------------------------------------------------
(* The panel.  An id that was typed is 0 when the field is empty.          *)
Busy(w) == panel[w].at # "rest"
Transaction(w, op, l) ==
  [who |-> w, op |-> op, id |-> l, n |-> nonce[w], click |-> panel[w].clicks]
Told(kind, tx) == [kind |-> kind, tx |-> tx]

\* onChange clears what is shown, and not what is still loading.
Typed(w, l) == [panel[w] EXCEPT !.typed = l, !.shown = NotEscrowed, !.result = None]

Type(w, l) ==
  /\ panel[w].typed # l
  /\ panel' = [panel EXCEPT ![w] = Typed(w, l)]
  /\ retyped' = IF panel[w].fetch # <<>> \/ Busy(w) THEN retyped \cup {w} ELSE retyped
  /\ UNCHANGED <<contractVars, chainVars, timedOut>>

\* fetchListing: GET LISTING is disabled while it runs; the answer is shown later,
\* if there is one.
Fetch(w) == LET p == panel[w] IN
  /\ p.typed # 0 /\ p.fetch = <<>>
  /\ panel' = [panel EXCEPT ![w].shown = NotEscrowed,
                            ![w].fetch = IF p.typed \in Ids THEN <<escrowed[p.typed]>> ELSE <<>>]
  /\ UNCHANGED <<contractVars, chainVars, timedOut, retyped>>

Show(w) ==
  /\ panel[w].fetch # <<>>
  /\ \E got \in {panel[w].fetch[1], panel[w].shown} :
       panel' = [panel EXCEPT ![w].shown = got, ![w].fetch = <<>>]
  /\ UNCHANGED <<contractVars, chainVars, timedOut, retyped>>

\* The button that is offered, for the listing shown, acts on the id typed: the call
\* is built and simulated, with the account's next sequence number.
Click(w) ==
  LET p == panel[w]
      tx == Transaction(w, IF w # p.shown.seller THEN "buy" ELSE "cancel", p.typed)
      q == [p EXCEPT !.clicks = @ + 1]
  IN
  /\ p.typed # 0 /\ p.shown.active /\ ~Busy(w)
  /\ p.clicks < MaxClicks
  /\ panel' = [panel EXCEPT ![w] =
       IF CanRun(w, tx.op, tx.id)
       THEN [q EXCEPT !.at = "sign", !.tx = tx, !.result = None]
       ELSE [q EXCEPT !.result = Told("error", tx)]]
  /\ UNCHANGED <<contractVars, chainVars, timedOut, retyped>>

Give(w, result) == panel' = [panel EXCEPT ![w].at = "rest", ![w].tx = None, ![w].result = result]

\* signTx and sendTransaction: the user may refuse, the network may answer ERROR.
Send(w) == LET tx == panel[w].tx IN
  /\ panel[w].at = "sign"
  /\ \/ Give(w, Told("error", tx)) /\ UNCHANGED wire
     \/ /\ tx.n = nonce[w]
        /\ wire' = wire \cup {tx}
        /\ panel' = [panel EXCEPT ![w].at = "poll"]
  /\ UNCHANGED <<contractVars, nonce, ended, timedOut, retyped>>

\* A ledger includes a transaction: its number is used up, whether it panics or not.
Include(tx) == LET runs == CanRun(tx.who, tx.op, tx.id) IN
  /\ tx \in wire /\ tx.n = nonce[tx.who]
  /\ wire' = wire \ {tx}
  /\ nonce' = [nonce EXCEPT ![tx.who] = @ + 1]
  /\ IF ~runs THEN UNCHANGED <<usdc, units, escrowed>>
     ELSE IF tx.op = "buy" THEN Bought(tx.who, tx.id) ELSE Cancelled(tx.id)
  /\ ended' = IF runs THEN [ended EXCEPT ![tx.id] = tx] ELSE ended
  /\ panel' = IF panel[tx.who].tx = tx
              THEN [panel EXCEPT ![tx.who].at = IF runs THEN "SUCCESS" ELSE "FAILED"] ELSE panel
  /\ UNCHANGED <<feeBps, sequence, timedOut, retyped>>

\* The 30 seconds it is valid for are over, or its number was used by another.
Expire(tx) ==
  /\ tx \in wire
  /\ wire' = wire \ {tx}
  /\ UNCHANGED <<contractVars, nonce, ended, panel, timedOut, retyped>>

\* Mutant of Succeeded: a transaction that was not found after ten attempts passes.
NotFailed(w) == panel[w].at \in {"SUCCESS", "poll"}

Succeeded(w) == panel[w].at = "SUCCESS"

\* pollTransaction: ten attempts; then "did not succeed", whatever becomes of it.
Poll(w) == LET tx == panel[w].tx IN
  /\ panel[w].at \in {"poll", "SUCCESS", "FAILED"}
  /\ IF Succeeded(w)
     THEN panel' = [panel EXCEPT ![w].result = Told("success", tx), ![w].at = "refresh"]
     ELSE Give(w, Told("error", tx))
  /\ timedOut' = IF panel[w].at = "poll" THEN timedOut \cup {tx} ELSE timedOut
  /\ UNCHANGED <<contractVars, chainVars, retyped>>

\* After success the listing that was acted on is read again and shown, if it can be.
Refresh(w) ==
  /\ panel[w].at = "refresh"
  /\ \E got \in {escrowed[panel[w].tx.id], panel[w].shown} :
       panel' = [panel EXCEPT ![w].at = "rest", ![w].tx = None, ![w].shown = got]
  /\ UNCHANGED <<contractVars, chainVars, timedOut, retyped>>

NextEscrow ==
  \/ InitContract \/ LedgerCloses
  \/ \E w \in Wallets : \E offer \in Offers[w] : List(w, offer)
  \/ \E w \in Wallets, op \in {"buy", "cancel"}, l \in 1..MaxListings : Direct(w, op, l)
  \/ \E w \in Panels, l \in 1..MaxListings : Type(w, l)
  \/ \E w \in Panels : Fetch(w) \/ Show(w) \/ Click(w) \/ Send(w) \/ Poll(w) \/ Refresh(w)
  \/ \E tx \in wire : Include(tx) \/ Expire(tx)

SpecEscrow == InitEscrow /\ [][NextEscrow]_escrowVars

-----------------------------------------------------------------------------
(* Properties.                                                             *)
Sales == {l \in Ids : ended[l].op = "buy"}
BoughtBy(w) == {l \in Sales : ended[l].who = w}
SoldBy(w) == {l \in Sales : escrowed[l].seller = w}
HeldBy(w) == {l \in Ids : escrowed[l].seller = w /\ ended[l].op # "cancel"}
Price == [l \in Ids |-> escrowed[l].price]
FeeOf == [l \in Ids |-> Fee(escrowed[l].price)]
Earned == [l \in Ids |-> Price[l] - FeeOf[l]]
Amount == [l \in Ids |-> escrowed[l].amount]

\* "Funds can only flow to the buyer, the seller, or back to the seller on
\* cancel/expiry": the contract holds the assets of the active listings and nothing
\* else, every account has what its finished trades say, and each listing is sold
\* once or goes back once.
FundsFlow ==
  /\ units[Contract] = SumOf(Amount, {l \in Ids : escrowed[l].active})
  /\ usdc[Treasury] = SumOf(FeeOf, Sales)
  /\ \A w \in Wallets :
       /\ usdc[w] = Purse[w] + SumOf(Earned, SoldBy(w)) - SumOf(Price, BoughtBy(w))
       /\ units[w] = Holding[w] + SumOf(Amount, BoughtBy(w)) - SumOf(Amount, HeldBy(w))
       /\ usdc[w] >= 0 /\ units[w] >= 0

\* The panel tells the truth: "confirmed" is said of a trade that was made, and an
\* error of one that was not, unless an earlier poll had given up on it.
PanelIsTrue == \A w \in Panels : LET r == panel[w].result IN r # None =>
  LET made == r.tx.id \in Ids /\ ended[r.tx.id] = r.tx IN
  IF r.kind = "success" THEN made ELSE made => r.tx \in timedOut

\* The button acts on the listing that is shown, at its price, unless another id was
\* typed while the panel was loading.
ShownIsTraded == \A w \in Panels \ retyped :
  panel[w].shown # NotEscrowed =>
    /\ panel[w].typed \in Ids
    /\ panel[w].shown \in {escrowed[panel[w].typed],
                           [escrowed[panel[w].typed] EXCEPT !.active = TRUE]}

\* The panel shows what it trades and says what became of it.
PanelInv == PanelIsTrue /\ ShownIsTraded
=============================================================================
