---------------------------- MODULE ClientProof -----------------------------
(* The theorems about the web client and the scripts beside it: Escrow's    *)
(* panel, the controls, the race on screen, the smoke, the pages that list  *)
(* and act, and the setup of a testnet, for any wallets, keys, races,       *)
(* frames, things and runs.                                                 *)
EXTENDS Escrow, RaceInput, RaceView, Effects, Setup, Pages, SumsProof, TLAPS

-----------------------------------------------------------------------------
(* Escrow's panel: the inductive invariant.                                *)

Listing == [seller : Wallets, amount : Int, price : Int, expiry : Int, active : BOOLEAN]
Tx == [who : Panels, op : {"buy", "cancel"}, id : Nat, n : Nat, click : Nat]
ByHand == [who : Wallets \ Panels, op : {"buy", "cancel"}]
Answer == [kind : {"success", "error"}, tx : Tx]
Panel == [typed : Nat, shown : Listing \cup {NotEscrowed}, fetch : {<<>>} \cup {<<x>> : x \in Listing},
          at : {"rest", "sign", "poll", "SUCCESS", "FAILED", "refresh"},
          tx : Tx \cup {None}, result : Answer \cup {None}, clicks : Nat]

EscrowShapes ==
  /\ escrowed \in Seq(Listing)
  /\ ended \in Seq(Tx \cup ByHand \cup {None}) /\ Len(ended) = Len(escrowed)
  /\ sequence \in Nat /\ nonce \in [Panels -> Nat]
  /\ wire \subseteq Tx /\ timedOut \subseteq Tx
  /\ panel \in [Panels -> Panel]

\* A listing is active until a call ends it.
ActiveOK == \A l \in Ids : escrowed[l].active <=> ended[l] = None

Made(tx) == tx.id \in Ids /\ ended[tx.id] = tx

\* Transactions are told apart by their panel and its clicks.
Clicked(tx) == tx.click < panel[tx.who].clicks
ClicksOK ==
  /\ \A tx \in wire : Clicked(tx)
  /\ \A l \in Ids : ended[l] \in Tx => Clicked(ended[l])

\* Who has sent a transaction that may still be included waits for it, or gave up.
Waits(tx) == panel[tx.who].tx = tx /\ panel[tx.who].at = "poll"
WireOK == \A tx \in wire : ~Made(tx) /\ (Waits(tx) \/ tx \in timedOut)

\* How far a panel has got with its transaction, and whether that was made; what it has
\* told is so, and an error stays one, unless the panel gave up.
Own(w, p) ==
  /\ p.at = "rest" <=> p.tx = None
  /\ p.tx # None => p.tx.who = w /\ p.tx.click < p.clicks
  /\ p.at \in {"SUCCESS", "refresh"} => Made(p.tx)
  /\ p.at \in {"sign", "poll", "FAILED"} => ~Made(p.tx)
  /\ p.at \in {"sign", "FAILED"} => p.tx \notin wire
  /\ p.at \in {"sign", "poll", "SUCCESS", "FAILED"} => p.result = None
  /\ p.result # None =>
       /\ p.result.tx.who = w
       /\ p.result.kind = "success" => Made(p.result.tx)
       /\ p.result.kind = "error" =>
            p.result.tx \in timedOut \/ (p.result.tx \notin wire /\ ~Made(p.result.tx))

\* What is shown, or about to be, is the listing typed, as it is or was before it ended.
Older(x, l) == l \in Ids /\ x \in {escrowed[l], [escrowed[l] EXCEPT !.active = TRUE]}
Shows(p) ==
  /\ p.shown # NotEscrowed => Older(p.shown, p.typed)
  /\ p.fetch # <<>> => Older(p.fetch[1], p.typed)
  /\ p.at # "rest" => p.tx.id = p.typed

EIInv ==
  /\ EscrowShapes /\ ActiveOK /\ ClicksOK /\ WireOK
  /\ \A w \in Panels : Own(w, panel[w])
  /\ \A w \in Panels \ retyped : Shows(panel[w])

-----------------------------------------------------------------------------
(* Records.                                                                *)

LEMMA Apart ==
  /\ None \notin Tx /\ None \notin ByHand /\ None \notin Answer
  /\ \A x \in Tx : x \notin ByHand
  /\ NotEscrowed \notin Listing
  /\ \A x \in Listing : <<x>> # <<>> /\ <<x>>[1] = x
<1>1. None \notin Tx /\ None \notin ByHand
  BY DEF None, Tx, ByHand
<1>2. None \notin Answer
  BY DEF None, Answer
<1>3. \A x \in Tx : x \notin ByHand
  BY DEF Tx, ByHand
<1>4. NotEscrowed \notin Listing
  BY EscrowAssumption DEF NotEscrowed, Listing
<1>5. \A x \in Listing : <<x>> # <<>> /\ <<x>>[1] = x
  OBVIOUS
<1> QED
  BY <1>1, <1>2, <1>3, <1>4, <1>5

\* A listing that ends was active before.
LEMMA Deactivated ==
  ASSUME NEW x \in Listing, x.active
  PROVE  /\ [x EXCEPT !.active = FALSE] \in Listing
         /\ [x EXCEPT !.active = FALSE].active = FALSE
         /\ [[x EXCEPT !.active = FALSE] EXCEPT !.active = TRUE] = x
         /\ [x EXCEPT !.active = TRUE] = x
BY DEF Listing

\* What holds of the listings after each step: no listing goes back, and a call that
\* was made stays made.
Later ==
  /\ escrowed' \in Seq(Listing)
  /\ ended' \in Seq(Tx \cup ByHand \cup {None}) /\ Len(ended') = Len(escrowed')
  /\ ActiveOK'
  /\ \A x : \A l \in Ids : Older(x, l) => Older(x, l)'

LEMMA Appended ==
  ASSUME EscrowShapes, ActiveOK, NEW x \in Listing, x.active,
         escrowed' = Append(escrowed, x), ended' = Append(ended, None)
  PROVE  /\ Later
         /\ \A t \in Tx : Made(t)' <=> Made(t)
         /\ \A l \in Ids' : ended'[l] \in Tx => l \in Ids /\ ended[l] = ended'[l]
<1>1. escrowed' \in Seq(Listing) /\ Len(escrowed') = Len(escrowed) + 1 /\ Len(escrowed) \in Nat
  BY DEF EscrowShapes
<1>2. ended' \in Seq(Tx \cup ByHand \cup {None}) /\ Len(ended') = Len(escrowed')
  BY <1>1 DEF EscrowShapes
<1>3. Ids = 1..Len(escrowed) /\ Ids' = 1..Len(escrowed) + 1
  BY <1>1 DEF Ids, EscrowShapes
<1>4. \A l \in Ids : l \in Ids' /\ escrowed'[l] = escrowed[l] /\ ended'[l] = ended[l]
  BY <1>1, <1>3 DEF EscrowShapes
<1>5. \A l \in Ids' \ Ids : escrowed'[l] = x /\ ended'[l] = None
  <2>1. \A l \in Ids' \ Ids : l = Len(escrowed) + 1
    BY <1>1, <1>3
  <2> QED
    BY <2>1, <1>1 DEF EscrowShapes
<1>6. ActiveOK'
  BY <1>4, <1>5 DEF ActiveOK
<1>7. \A y : \A l \in Ids : Older(y, l) => Older(y, l)'
  BY <1>4 DEF Older
<1>8. \A t \in Tx : Made(t)' <=> Made(t)
  BY <1>4, <1>5, Apart DEF Made
<1> QED
  BY <1>1, <1>2, <1>4, <1>5, <1>6, <1>7, <1>8, Apart DEF Later

LEMMA Ended ==
  ASSUME EscrowShapes, ActiveOK, NEW l \in Ids, escrowed[l].active, NEW e \in Tx \cup ByHand,
         escrowed' = Close(l), ended' = [ended EXCEPT ![l] = e]
  PROVE  /\ Later
         /\ \A t \in Tx : Made(t) => Made(t)'
         /\ \A t \in Tx : Made(t)' => Made(t) \/ t = e
         /\ e \in Tx /\ e.id = l => Made(e)'
         /\ \A k \in Ids' : k \in Ids /\ ended'[k] \in {ended[k], e}
<1> DEFINE y == [escrowed[l] EXCEPT !.active = FALSE]
<1>1. Ids = 1..Len(escrowed) /\ Len(escrowed) \in Nat /\ DOMAIN ended = Ids
  BY DEF EscrowShapes, Ids
<1>2. escrowed[l] \in Listing
  BY <1>1 DEF EscrowShapes
<1>3. /\ y \in Listing /\ y.active = FALSE /\ [y EXCEPT !.active = TRUE] = escrowed[l]
      /\ [escrowed[l] EXCEPT !.active = TRUE] = escrowed[l]
  BY <1>2, Deactivated
<1>4. escrowed' = [escrowed EXCEPT ![l] = y]
  BY DEF Close
<1> HIDE DEF y
<1>5. /\ escrowed' \in Seq(Listing) /\ Len(escrowed') = Len(escrowed) /\ Ids' = Ids
      /\ escrowed'[l] = y /\ \A k \in Ids \ {l} : escrowed'[k] = escrowed[k]
  BY <1>1, <1>3, <1>4 DEF EscrowShapes, Ids
<1>6. /\ ended' \in Seq(Tx \cup ByHand \cup {None}) /\ Len(ended') = Len(ended)
      /\ ended'[l] = e /\ \A k \in Ids \ {l} : ended'[k] = ended[k]
  BY <1>1 DEF EscrowShapes
<1>7. ended[l] = None /\ e # None
  BY Apart DEF ActiveOK
<1>8. ActiveOK'
  BY <1>3, <1>5, <1>6, <1>7 DEF ActiveOK
<1>9. \A x : \A k \in Ids : Older(x, k) => Older(x, k)'
  <2> SUFFICES ASSUME NEW x, NEW k \in Ids, Older(x, k) PROVE Older(x, k)'
    OBVIOUS
  <2>1. CASE k = l
    BY <2>1, <1>3, <1>5 DEF Older
  <2>2. CASE k # l
    BY <2>2, <1>5 DEF Older
  <2> QED
    BY <2>1, <2>2
<1>10. \A t \in Tx : Made(t) => Made(t)'
  BY <1>5, <1>6, <1>7, Apart DEF Made
<1>11. \A t \in Tx : Made(t)' => Made(t) \/ t = e
  BY <1>5, <1>6 DEF Made
<1>12. e \in Tx /\ e.id = l => Made(e)'
  BY <1>5, <1>6 DEF Made
<1> QED
  BY <1>5, <1>6, <1>8, <1>9, <1>10, <1>11, <1>12 DEF Later, EscrowShapes

-----------------------------------------------------------------------------
(* Steps of the contract.                                                  *)

\* A call that is not the panels' leaves what they know as it is.
LEMMA Elsewhere ==
  ASSUME EIInv, Later, sequence' \in Nat, UNCHANGED <<nonce, wire, timedOut, panel, retyped>>,
         \A t \in Tx : Made(t)' <=> Made(t),
         \A l \in Ids' : ended'[l] \in Tx => l \in Ids /\ ended[l] = ended'[l]
  PROVE  EIInv'
<1>1. EscrowShapes'
  BY DEF EIInv, EscrowShapes, Later
<1>2. wire \subseteq Tx /\ \A w \in Panels : panel[w] \in Panel
  BY DEF EIInv, EscrowShapes
<1>3. ClicksOK'
  BY DEF EIInv, ClicksOK, Clicked
<1>4. WireOK'
  BY <1>2 DEF EIInv, WireOK, Waits
<1>5. \A w \in Panels : Own(w, panel[w])'
  <2> SUFFICES ASSUME NEW w \in Panels PROVE Own(w, panel[w])'
    OBVIOUS
  <2>1. panel[w].tx \in Tx \/ panel[w].tx = None
    BY <1>2 DEF Panel
  <2>2. panel[w].result # None => panel[w].result.tx \in Tx
    BY <1>2 DEF Panel, Answer
  <2>3. Own(w, panel[w])
    BY DEF EIInv
  <2> QED
    BY <2>1, <2>2, <2>3 DEF Own
<1>6. \A w \in Panels \ retyped : Shows(panel[w])'
  <2> SUFFICES ASSUME NEW w \in Panels \ retyped PROVE Shows(panel[w])'
    OBVIOUS
  <2>1. Shows(panel[w])
    BY DEF EIInv
  <2> QED
    BY <2>1 DEF Shows, Later, Older
<1> QED
  BY <1>1, <1>3, <1>4, <1>5, <1>6 DEF EIInv, Later

LEMMA ContractSteps ==
  ASSUME EIInv, InitContract \/ LedgerCloses
  PROVE  EIInv'
<1>1. UNCHANGED <<escrowed, ended, nonce, wire, timedOut, panel, retyped>> /\ sequence' \in Nat
  BY DEF InitContract, LedgerCloses, chainVars, EIInv, EscrowShapes
<1>2. Later
  BY <1>1 DEF Later, EIInv, EscrowShapes, ActiveOK, Ids, Older
<1>3. /\ \A t \in Tx : Made(t)' <=> Made(t)
      /\ \A l \in Ids' : ended'[l] \in Tx => l \in Ids /\ ended[l] = ended'[l]
  BY <1>1 DEF Made, Ids
<1> QED
  BY <1>1, <1>2, <1>3, Elsewhere

LEMMA ListStep ==
  ASSUME EIInv, NEW w \in Wallets, NEW offer \in Offers[w], List(w, offer)
  PROVE  EIInv'
<1> DEFINE x == [seller |-> w, amount |-> offer.amount, price |-> offer.price,
                 expiry |-> sequence + offer.ttl, active |-> TRUE]
<1>1. sequence \in Nat /\ EscrowShapes /\ ActiveOK
  BY DEF EIInv, EscrowShapes
<1>2. offer.amount \in Int /\ offer.price \in Int /\ offer.ttl \in Nat
  BY EscrowAssumption
<1>3. x \in Listing /\ x.active
  BY <1>1, <1>2 DEF Listing
<1>4. /\ escrowed' = Append(escrowed, x) /\ ended' = Append(ended, None)
      /\ UNCHANGED <<sequence, nonce, wire, timedOut, panel, retyped>>
  BY DEF List
<1> HIDE DEF x
<1> QED
  BY <1>1, <1>3, <1>4, Appended, Elsewhere

LEMMA DirectStep ==
  ASSUME EIInv, NEW w \in Wallets, NEW op \in {"buy", "cancel"}, NEW l \in 1..MaxListings,
         Direct(w, op, l)
  PROVE  EIInv'
<1> DEFINE e == [who |-> w, op |-> op]
<1>1. EscrowShapes /\ ActiveOK /\ sequence \in Nat
  BY DEF EIInv, EscrowShapes
<1>2. l \in Ids /\ escrowed[l].active
  BY DEF Direct, CanRun, CanBuy, CanCancel
<1>3. e \in ByHand
  BY DEF Direct, ByHand
<1>4. /\ escrowed' = Close(l) /\ ended' = [ended EXCEPT ![l] = e]
      /\ UNCHANGED <<sequence, nonce, wire, timedOut, panel, retyped>>
  BY DEF Direct, Bought, Cancelled
<1> HIDE DEF e
<1>5. /\ Later
      /\ \A t \in Tx : Made(t) => Made(t)'
      /\ \A t \in Tx : Made(t)' => Made(t) \/ t = e
      /\ \A k \in Ids' : k \in Ids /\ ended'[k] \in {ended[k], e}
  BY <1>1, <1>2, <1>3, <1>4, Ended
<1>6. /\ \A t \in Tx : Made(t)' <=> Made(t)
      /\ \A k \in Ids' : ended'[k] \in Tx => k \in Ids /\ ended[k] = ended'[k]
  BY <1>3, <1>5, Apart
<1> QED
  BY <1>1, <1>4, <1>5, <1>6, Elsewhere

-----------------------------------------------------------------------------
(* Steps of a panel.                                                       *)

\* A panel changes by itself: nothing is sent, and the transaction it waits for stays.
LEMMA PanelChanges ==
  ASSUME EIInv, NEW w \in Panels, NEW q \in Panel, panel' = [panel EXCEPT ![w] = q],
         UNCHANGED <<escrowed, ended, sequence, nonce, wire, timedOut>>, retyped \subseteq retyped',
         q.clicks >= panel[w].clicks, Own(w, q), w \notin retyped' => Shows(q),
         panel[w].at = "poll" => q.at = "poll" /\ q.tx = panel[w].tx
  PROVE  EIInv'
<1>1. EscrowShapes /\ panel[w] \in Panel /\ panel'[w] = q
  BY DEF EIInv, EscrowShapes
<1>2. \A v \in Panels \ {w} : panel'[v] = panel[v]
  BY <1>1 DEF EscrowShapes
<1>3. EscrowShapes'
  BY <1>1 DEF EscrowShapes
<1>4. \A t \in Tx : Clicked(t) => Clicked(t)'
  <2> SUFFICES ASSUME NEW t \in Tx, Clicked(t) PROVE Clicked(t)'
    OBVIOUS
  <2>1. t.who \in Panels /\ t.click \in Nat
    BY DEF Tx
  <2>2. panel[t.who].clicks \in Nat /\ panel'[t.who].clicks \in Nat
    BY <2>1, <1>1, <1>3 DEF EscrowShapes, Panel
  <2>3. panel'[t.who].clicks >= panel[t.who].clicks
    BY <2>1, <2>2, <1>1, <1>2
  <2> QED
    BY <2>1, <2>2, <2>3 DEF Clicked
<1>5. ClicksOK'
  BY <1>1, <1>4 DEF EIInv, ClicksOK, EscrowShapes, Ids
<1>6. WireOK'
  <2> SUFFICES ASSUME NEW t \in wire PROVE (~Made(t))' /\ (Waits(t)' \/ t \in timedOut)
    BY DEF WireOK
  <2>1. t.who \in Panels
    BY <1>1 DEF EscrowShapes, Tx
  <2>2. ~Made(t) /\ (Waits(t) \/ t \in timedOut)
    BY DEF EIInv, WireOK
  <2>3. Waits(t) => Waits(t)'
    BY <2>1, <1>1, <1>2 DEF Waits
  <2> QED
    BY <2>2, <2>3 DEF Made, Ids
<1>7. \A v \in Panels : Own(v, panel[v])'
  <2> SUFFICES ASSUME NEW v \in Panels PROVE Own(v, panel[v])'
    OBVIOUS
  <2>1. Own(v, panel'[v])
    BY <1>1, <1>2 DEF EIInv
  <2> QED
    BY <2>1 DEF Own, Made, Ids
<1>8. \A v \in (Panels \ retyped)' : Shows(panel[v])'
  <2> SUFFICES ASSUME NEW v \in Panels, v \notin retyped' PROVE Shows(panel[v])'
    OBVIOUS
  <2>1. Shows(panel'[v])
    BY <1>1, <1>2 DEF EIInv
  <2> QED
    BY <2>1 DEF Shows, Older, Ids
<1>9. ActiveOK'
  BY DEF EIInv, ActiveOK, Ids
<1> QED
  BY <1>3, <1>5, <1>6, <1>7, <1>8, <1>9 DEF EIInv

LEMMA TypeStep ==
  ASSUME EIInv, NEW w \in Panels, NEW l \in 1..MaxListings, Type(w, l)
  PROVE  EIInv'
<1> DEFINE q == [panel[w] EXCEPT !.typed = l, !.shown = NotEscrowed, !.result = None]
<1>1. EscrowShapes /\ Own(w, panel[w]) /\ panel[w] \in Panel /\ l \in Nat
  BY EscrowAssumption DEF EIInv, EscrowShapes
<1>2. /\ panel' = [panel EXCEPT ![w] = q]
      /\ UNCHANGED <<escrowed, ended, sequence, nonce, wire, timedOut>> /\ retyped \subseteq retyped'
  BY DEF Type, Typed, contractVars, chainVars
<1>3. q \in Panel
  BY <1>1 DEF Panel
<1>4. /\ q.typed = l /\ q.shown = NotEscrowed /\ q.result = None /\ q.at = panel[w].at
      /\ q.tx = panel[w].tx /\ q.fetch = panel[w].fetch /\ q.clicks = panel[w].clicks
  BY <1>1 DEF Panel
<1>5. w \notin retyped' => panel[w].fetch = <<>> /\ panel[w].at = "rest"
  BY DEF Type, Busy
<1> HIDE DEF q
<1>6. Own(w, q)
  BY <1>1, <1>4 DEF Own
<1>7. w \notin retyped' => Shows(q)
  BY <1>4, <1>5 DEF Shows
<1>8. q.clicks >= panel[w].clicks
  BY <1>1, <1>4 DEF Panel
<1> QED
  BY <1>1, <1>2, <1>3, <1>4, <1>6, <1>7, <1>8, PanelChanges

\* A listing that is there shows itself.
LEMMA Fresh ==
  ASSUME NEW l \in Ids PROVE Older(escrowed[l], l)
BY DEF Older

LEMMA FetchStep ==
  ASSUME EIInv, NEW w \in Panels, Fetch(w)
  PROVE  EIInv'
<1> DEFINE q == [panel[w] EXCEPT !.shown = NotEscrowed,
                   !.fetch = IF panel[w].typed \in Ids THEN <<escrowed[panel[w].typed]>> ELSE <<>>]
<1>1. /\ EscrowShapes /\ Own(w, panel[w]) /\ panel[w] \in Panel
      /\ w \notin retyped => Shows(panel[w])
  BY DEF EIInv, EscrowShapes
<1>2. /\ panel' = [panel EXCEPT ![w] = q]
      /\ UNCHANGED <<escrowed, ended, sequence, nonce, wire, timedOut, retyped>>
  BY <1>1 DEF Fetch, contractVars, chainVars, EscrowShapes
<1>3. \A l \in Ids : escrowed[l] \in Listing
  BY <1>1 DEF EscrowShapes, Ids
<1>4. q \in Panel
  BY <1>1, <1>3 DEF Panel
<1>5. /\ q.typed = panel[w].typed /\ q.shown = NotEscrowed /\ q.result = panel[w].result
      /\ q.at = panel[w].at /\ q.tx = panel[w].tx /\ q.clicks = panel[w].clicks
      /\ q.fetch = <<>> \/ (q.typed \in Ids /\ q.fetch = <<escrowed[q.typed]>>)
  BY <1>1 DEF Panel
<1> HIDE DEF q
<1>6. Own(w, q)
  BY <1>1, <1>5 DEF Own
<1>7. q.fetch # <<>> => Older(q.fetch[1], q.typed)
  BY <1>3, <1>5, Fresh
<1>8. w \notin retyped => Shows(q)
  BY <1>1, <1>5, <1>7 DEF Shows
<1>9. q.clicks >= panel[w].clicks
  BY <1>1, <1>5 DEF Panel
<1> QED
  BY <1>1, <1>2, <1>4, <1>5, <1>6, <1>8, <1>9, PanelChanges

LEMMA ShowStep ==
  ASSUME EIInv, NEW w \in Panels, Show(w)
  PROVE  EIInv'
<1>1. /\ EscrowShapes /\ Own(w, panel[w]) /\ panel[w] \in Panel
      /\ w \notin retyped => Shows(panel[w])
  BY DEF EIInv, EscrowShapes
<1>2. PICK got \in {panel[w].fetch[1], panel[w].shown} :
        panel' = [panel EXCEPT ![w].shown = got, ![w].fetch = <<>>]
  BY DEF Show
<1> DEFINE q == [panel[w] EXCEPT !.shown = got, !.fetch = <<>>]
<1>3. /\ panel' = [panel EXCEPT ![w] = q]
      /\ UNCHANGED <<escrowed, ended, sequence, nonce, wire, timedOut, retyped>>
  BY <1>1, <1>2 DEF Show, contractVars, chainVars, EscrowShapes
<1>4. PICK x \in Listing : panel[w].fetch = <<x>>
  BY <1>1 DEF Show, Panel
<1>5. got \in {x, panel[w].shown} /\ panel[w].fetch[1] = x /\ panel[w].fetch # <<>>
  BY <1>2, <1>4, Apart
<1>6. q \in Panel
  BY <1>1, <1>5 DEF Panel
<1>7. /\ q.typed = panel[w].typed /\ q.shown = got /\ q.result = panel[w].result
      /\ q.at = panel[w].at /\ q.tx = panel[w].tx /\ q.clicks = panel[w].clicks /\ q.fetch = <<>>
  BY <1>1 DEF Panel
<1> HIDE DEF q
<1>8. Own(w, q)
  BY <1>1, <1>7 DEF Own
<1>9. w \notin retyped => Shows(q)
  BY <1>1, <1>5, <1>7 DEF Shows
<1>10. q.clicks >= panel[w].clicks
  BY <1>1, <1>7 DEF Panel
<1> QED
  BY <1>1, <1>3, <1>6, <1>7, <1>8, <1>9, <1>10, PanelChanges

\* A new transaction of a panel is nowhere yet.
LEMMA NewTransaction ==
  ASSUME EIInv, NEW w \in Panels, NEW op \in {"buy", "cancel"}
  PROVE  LET tx == Transaction(w, op, panel[w].typed) IN
         tx \in Tx /\ tx.who = w /\ tx.id = panel[w].typed /\ tx.click = panel[w].clicks
         /\ tx \notin wire /\ ~Made(tx)
<1> DEFINE tx == Transaction(w, op, panel[w].typed)
<1>1. EscrowShapes /\ panel[w] \in Panel /\ nonce[w] \in Nat
  BY DEF EIInv, EscrowShapes
<1>2. panel[w].clicks \in Nat /\ panel[w].typed \in Nat
  BY <1>1 DEF Panel
<1>3. /\ tx \in Tx /\ tx.who = w /\ tx.id = panel[w].typed /\ tx.click = panel[w].clicks
      /\ ~Clicked(tx)
  BY <1>1, <1>2 DEF Transaction, Tx, Clicked
<1> HIDE DEF tx
<1>4. tx \notin wire
  BY <1>3 DEF EIInv, ClicksOK
<1>5. ~Made(tx)
  BY <1>3 DEF EIInv, ClicksOK, Made
<1> QED
  BY <1>3, <1>4, <1>5 DEF tx

\* A panel whose button was pressed signs, or tells the error of the simulation.
LEMMA ClickedShape ==
  ASSUME NEW p \in Panel, NEW t \in Tx, NEW a \in Answer
  PROVE  /\ [p EXCEPT !.clicks = @ + 1, !.at = "sign", !.tx = t, !.result = None] \in Panel
         /\ [p EXCEPT !.clicks = @ + 1, !.result = a] \in Panel
<1>1. p.clicks + 1 \in Nat
  BY DEF Panel
<1>2. PICK n \in Nat : n = p.clicks + 1
  BY <1>1
<1>3. /\ [p EXCEPT !.clicks = n, !.at = "sign", !.tx = t, !.result = None] \in Panel
      /\ [p EXCEPT !.clicks = n, !.result = a] \in Panel
  BY DEF Panel
<1> QED
  BY <1>2, <1>3

LEMMA ClickStep ==
  ASSUME EIInv, NEW w \in Panels, Click(w)
  PROVE  EIInv'
<1>1. /\ EscrowShapes /\ Own(w, panel[w]) /\ panel[w] \in Panel
      /\ w \notin retyped => Shows(panel[w])
  BY DEF EIInv, EscrowShapes
<1>2. PICK op \in {"buy", "cancel"} : op = IF w # panel[w].shown.seller THEN "buy" ELSE "cancel"
  OBVIOUS
<1>3. PICK tx : tx = Transaction(w, op, panel[w].typed)
  OBVIOUS
<1>4. /\ tx \in Tx /\ tx.who = w /\ tx.id = panel[w].typed /\ tx.click = panel[w].clicks
      /\ tx \notin wire /\ ~Made(tx)
  BY <1>3, NewTransaction
<1>5. PICK runs \in BOOLEAN : runs <=> CanRun(w, tx.op, tx.id)
  OBVIOUS
<1> DEFINE q == IF runs THEN [panel[w] EXCEPT !.clicks = @ + 1, !.at = "sign", !.tx = tx, !.result = None]
                ELSE [panel[w] EXCEPT !.clicks = @ + 1, !.result = Told("error", tx)]
<1>6. /\ panel' = [panel EXCEPT ![w] = q]
      /\ UNCHANGED <<escrowed, ended, sequence, nonce, wire, timedOut, retyped>>
      /\ panel[w].at = "rest"
  BY <1>1, <1>2, <1>3, <1>5 DEF Click, contractVars, chainVars, EscrowShapes, Busy
<1>7. Told("error", tx) \in Answer /\ Told("error", tx).kind = "error" /\ Told("error", tx).tx = tx
  BY <1>4 DEF Told, Answer
<1>8. panel[w].clicks \in Nat /\ panel[w].tx = None
  BY <1>1, <1>6 DEF Panel, Own
<1>9. q \in Panel
  BY <1>1, <1>4, <1>7, ClickedShape
<1>10. /\ q.typed = panel[w].typed /\ q.shown = panel[w].shown /\ q.fetch = panel[w].fetch
       /\ q.clicks = panel[w].clicks + 1
       /\ IF runs THEN q.at = "sign" /\ q.tx = tx /\ q.result = None
          ELSE q.at = "rest" /\ q.tx = None /\ q.result = Told("error", tx)
  BY <1>1, <1>6, <1>8 DEF Panel
<1> HIDE DEF q
<1>11. tx # None
  BY <1>4, Apart
<1>12. Own(w, q)
  BY <1>4, <1>7, <1>8, <1>10, <1>11 DEF Own
<1>13. w \notin retyped => Shows(q)
  BY <1>1, <1>4, <1>10 DEF Shows
<1>14. q.clicks >= panel[w].clicks
  BY <1>8, <1>10
<1> QED
  BY <1>6, <1>9, <1>12, <1>13, <1>14, PanelChanges

LEMMA RefreshStep ==
  ASSUME EIInv, NEW w \in Panels, Refresh(w)
  PROVE  EIInv'
<1>1. /\ EscrowShapes /\ Own(w, panel[w]) /\ panel[w] \in Panel
      /\ w \notin retyped => Shows(panel[w])
  BY DEF EIInv, EscrowShapes
<1>2. PICK got \in {escrowed[panel[w].tx.id], panel[w].shown} :
        panel' = [panel EXCEPT ![w].at = "rest", ![w].tx = None, ![w].shown = got]
  BY DEF Refresh
<1> DEFINE q == [panel[w] EXCEPT !.at = "rest", !.tx = None, !.shown = got]
<1>3. /\ panel' = [panel EXCEPT ![w] = q]
      /\ UNCHANGED <<escrowed, ended, sequence, nonce, wire, timedOut, retyped>>
      /\ panel[w].at = "refresh"
  BY <1>1, <1>2 DEF Refresh, contractVars, chainVars, EscrowShapes
<1>4. panel[w].tx.id \in Ids
  BY <1>1, <1>3 DEF Own, Made
<1>5. escrowed[panel[w].tx.id] \in Listing
  BY <1>1, <1>4 DEF EscrowShapes, Ids
<1>6. q \in Panel
  BY <1>1, <1>5 DEF Panel
<1>7. /\ q.typed = panel[w].typed /\ q.shown = got /\ q.result = panel[w].result
      /\ q.at = "rest" /\ q.tx = None /\ q.clicks = panel[w].clicks /\ q.fetch = panel[w].fetch
  BY <1>1 DEF Panel
<1> HIDE DEF q
<1>8. Own(w, q)
  BY <1>1, <1>7 DEF Own
<1>9. w \notin retyped => Shows(q)
  BY <1>1, <1>2, <1>3, <1>4, <1>7, Fresh DEF Shows
<1>10. q.clicks >= panel[w].clicks
  BY <1>1, <1>7 DEF Panel
<1> QED
  BY <1>3, <1>6, <1>8, <1>9, <1>10, PanelChanges

\* A panel that is given an answer rests.
LEMMA GivenShape ==
  ASSUME NEW p \in Panel, NEW a \in Answer
  PROVE  LET q == [p EXCEPT !.at = "rest", !.tx = None, !.result = a] IN
         /\ q \in Panel /\ q.typed = p.typed /\ q.shown = p.shown /\ q.fetch = p.fetch
         /\ q.clicks = p.clicks /\ q.at = "rest" /\ q.tx = None /\ q.result = a
BY DEF Panel

\* An error that is told of a transaction that is nowhere is one.
LEMMA ErrorGiven ==
  ASSUME EIInv, NEW w \in Panels, panel[w].tx # None, panel[w].tx \notin wire, ~Made(panel[w].tx),
         Give(w, Told("error", panel[w].tx)), panel[w].at # "poll",
         UNCHANGED <<escrowed, ended, sequence, nonce, wire, timedOut, retyped>>
  PROVE  EIInv'
<1> DEFINE a == Told("error", panel[w].tx)
           q == [panel[w] EXCEPT !.at = "rest", !.tx = None, !.result = a]
<1>1. /\ EscrowShapes /\ Own(w, panel[w]) /\ panel[w] \in Panel
      /\ w \notin retyped => Shows(panel[w])
  BY DEF EIInv, EscrowShapes
<1>2. panel[w].tx \in Tx /\ panel[w].tx.who = w /\ panel[w].clicks \in Nat
  BY <1>1 DEF Own, Panel
<1>3. a \in Answer /\ a.kind = "error" /\ a.tx = panel[w].tx /\ a # None
  BY <1>2, Apart DEF Told, Answer
<1>4. panel' = [panel EXCEPT ![w] = q]
  BY <1>1 DEF Give, EscrowShapes
<1> HIDE DEF a
<1>5. /\ q \in Panel /\ q.typed = panel[w].typed /\ q.shown = panel[w].shown
      /\ q.fetch = panel[w].fetch /\ q.clicks = panel[w].clicks
      /\ q.at = "rest" /\ q.tx = None /\ q.result = a
  BY <1>1, <1>3, GivenShape
<1> HIDE DEF q
<1>6. Own(w, q)
  BY <1>2, <1>3, <1>5 DEF Own
<1>7. w \notin retyped => Shows(q)
  BY <1>1, <1>5 DEF Shows
<1>8. q.clicks >= panel[w].clicks /\ retyped \subseteq retyped'
  BY <1>2, <1>5
<1> QED
  BY <1>4, <1>5, <1>6, <1>7, <1>8, PanelChanges

LEMMA SendStep ==
  ASSUME EIInv, NEW w \in Panels, Send(w)
  PROVE  EIInv'
<1>1. /\ EscrowShapes /\ Own(w, panel[w]) /\ panel[w] \in Panel
  BY DEF EIInv, EscrowShapes
<1>2. /\ panel[w].at = "sign" /\ panel[w].tx # None /\ panel[w].tx \notin wire /\ ~Made(panel[w].tx)
      /\ UNCHANGED <<escrowed, ended, sequence, nonce, timedOut, retyped>>
  BY <1>1 DEF Send, Own, contractVars
<1>3. CASE Give(w, Told("error", panel[w].tx)) /\ UNCHANGED wire
  BY <1>2, <1>3, ErrorGiven
<1>4. CASE wire' = wire \cup {panel[w].tx} /\ panel' = [panel EXCEPT ![w].at = "poll"]
  <2> DEFINE q == [panel[w] EXCEPT !.at = "poll"]
  <2>1. panel[w].tx \in Tx /\ panel[w].tx.who = w /\ panel[w].tx.click < panel[w].clicks
    BY <1>1, <1>2 DEF Own, Panel
  <2>2. /\ q \in Panel /\ q.typed = panel[w].typed /\ q.shown = panel[w].shown
        /\ q.fetch = panel[w].fetch /\ q.clicks = panel[w].clicks
        /\ q.at = "poll" /\ q.tx = panel[w].tx /\ q.result = panel[w].result
    BY <1>1 DEF Panel
  <2>3. panel' = [panel EXCEPT ![w] = q]
    BY <1>1, <1>4 DEF EscrowShapes
  <2> HIDE DEF q
  <2>4. panel'[w] = q /\ \A v \in Panels \ {w} : panel'[v] = panel[v]
    BY <1>1, <2>3 DEF EscrowShapes
  <2>5. EscrowShapes'
    BY <1>1, <1>2, <1>4, <2>1, <2>2, <2>3 DEF EscrowShapes
  <2>6. \A v \in Panels : panel'[v].clicks = panel[v].clicks
    BY <2>2, <2>4
  <2>7. ClicksOK'
    <3>1. \A t \in Tx : Clicked(t)' <=> Clicked(t)
      BY <2>6 DEF Clicked, Tx
    <3>2. Clicked(panel[w].tx)
      BY <2>1 DEF Clicked
    <3> QED
      BY <1>1, <1>2, <1>4, <2>1, <3>1, <3>2 DEF EIInv, ClicksOK, EscrowShapes, Ids
  <2>8. WireOK'
    <3> SUFFICES ASSUME NEW t \in wire' PROVE (~Made(t))' /\ (Waits(t)' \/ (t \in timedOut)')
      BY DEF WireOK
    <3>1. CASE t = panel[w].tx
      BY <3>1, <1>2, <2>1, <2>2, <2>4 DEF Waits, Made, Ids
    <3>2. CASE t \in wire
      <4>1. ~Made(t) /\ (Waits(t) \/ t \in timedOut) /\ t.who \in Panels
        BY <3>2, <1>1 DEF EIInv, WireOK, EscrowShapes, Tx
      <4>2. Waits(t) => Waits(t)'
        BY <4>1, <2>2, <2>4 DEF Waits
      <4> QED
        BY <4>1, <4>2, <1>2 DEF Made, Ids
    <3> QED
      BY <3>1, <3>2, <1>4
  <2>9. \A v \in Panels : Own(v, panel[v])'
    <3>1. Own(w, panel[w])'
      BY <1>1, <1>2, <2>2, <2>4 DEF Own, Made, Ids
    <3>2. ASSUME NEW v \in Panels, v # w PROVE Own(v, panel[v])'
      <4>1. Own(v, panel[v]) /\ panel'[v] = panel[v]
        BY <3>2, <2>4 DEF EIInv
      <4> QED
        BY <4>1, <3>2, <1>2, <1>4, <2>1 DEF Own, Made, Ids
    <3> QED
      BY <3>1, <3>2
  <2>10. \A v \in (Panels \ retyped)' : Shows(panel[v])'
    <3> SUFFICES ASSUME NEW v \in Panels, v \notin retyped PROVE Shows(panel[v])'
      BY <1>2
    <3>1. Shows(panel[v])
      BY DEF EIInv
    <3> QED
      BY <3>1, <1>2, <2>2, <2>4 DEF Shows, Older, Ids
  <2>11. ActiveOK'
    BY <1>2 DEF EIInv, ActiveOK, Ids
  <2> QED
    BY <2>5, <2>7, <2>8, <2>9, <2>10, <2>11 DEF EIInv
<1> QED
  BY <1>3, <1>4 DEF Send

LEMMA PollStep ==
  ASSUME EIInv, NEW w \in Panels, Poll(w)
  PROVE  EIInv'
<1>1. /\ EscrowShapes /\ Own(w, panel[w]) /\ panel[w] \in Panel
      /\ w \notin retyped => Shows(panel[w])
  BY DEF EIInv, EscrowShapes
<1>2. /\ panel[w].at \in {"poll", "SUCCESS", "FAILED"} /\ panel[w].tx # None
      /\ UNCHANGED <<escrowed, ended, sequence, nonce, wire, retyped>>
  BY <1>1 DEF Poll, Own, contractVars, chainVars
<1>3. panel[w].tx \in Tx /\ panel[w].tx.who = w /\ panel[w].clicks \in Nat
  BY <1>1, <1>2 DEF Own, Panel
<1>4. CASE panel[w].at = "SUCCESS"
  <2> DEFINE a == Told("success", panel[w].tx)
             q == [panel[w] EXCEPT !.result = a, !.at = "refresh"]
  <2>1. a \in Answer /\ a.kind = "success" /\ a.tx = panel[w].tx
    BY <1>3 DEF Told, Answer
  <2>2. panel' = [panel EXCEPT ![w] = q] /\ UNCHANGED timedOut
    BY <1>1, <1>4 DEF Poll, Succeeded, EscrowShapes
  <2> HIDE DEF a
  <2>3. /\ q \in Panel /\ q.typed = panel[w].typed /\ q.shown = panel[w].shown
        /\ q.fetch = panel[w].fetch /\ q.clicks = panel[w].clicks
        /\ q.at = "refresh" /\ q.tx = panel[w].tx /\ q.result = a
    BY <1>1, <2>1 DEF Panel
  <2> HIDE DEF q
  <2>4. Own(w, q)
    BY <1>1, <1>2, <1>3, <1>4, <2>1, <2>3 DEF Own
  <2>5. w \notin retyped => Shows(q)
    BY <1>1, <1>2, <2>3 DEF Shows
  <2>6. q.clicks >= panel[w].clicks /\ retyped \subseteq retyped'
    BY <1>2, <1>3, <2>3
  <2> QED
    BY <1>2, <1>4, <2>2, <2>3, <2>4, <2>5, <2>6, PanelChanges
<1>5. CASE panel[w].at = "FAILED"
  BY <1>1, <1>2, <1>5, ErrorGiven DEF Poll, Succeeded, Own
<1>6. CASE panel[w].at = "poll"
  <2> DEFINE a == Told("error", panel[w].tx)
             q == [panel[w] EXCEPT !.at = "rest", !.tx = None, !.result = a]
  <2>1. a \in Answer /\ a.kind = "error" /\ a.tx = panel[w].tx
    BY <1>3 DEF Told, Answer
  <2>2. panel' = [panel EXCEPT ![w] = q] /\ timedOut' = timedOut \cup {panel[w].tx}
    BY <1>1, <1>6 DEF Poll, Succeeded, Give, EscrowShapes
  <2> HIDE DEF a
  <2>3. /\ q \in Panel /\ q.typed = panel[w].typed /\ q.shown = panel[w].shown
        /\ q.fetch = panel[w].fetch /\ q.clicks = panel[w].clicks
        /\ q.at = "rest" /\ q.tx = None /\ q.result = a
    BY <1>1, <2>1, GivenShape
  <2> HIDE DEF q
  <2>4. panel'[w] = q /\ \A v \in Panels \ {w} : panel'[v] = panel[v]
    BY <1>1, <2>2 DEF EscrowShapes
  <2>5. EscrowShapes'
    BY <1>1, <1>2, <1>3, <2>2, <2>3 DEF EscrowShapes
  <2>6. ClicksOK'
    <3>1. \A v \in Panels : panel'[v].clicks = panel[v].clicks
      BY <2>3, <2>4
    <3>2. \A t \in Tx : Clicked(t)' <=> Clicked(t)
      BY <3>1 DEF Clicked, Tx
    <3> QED
      BY <1>1, <1>2, <3>2 DEF EIInv, ClicksOK, EscrowShapes, Ids
  <2>7. WireOK'
    <3> SUFFICES ASSUME NEW t \in wire PROVE (~Made(t))' /\ (Waits(t)' \/ (t \in timedOut)')
      BY <1>2 DEF WireOK
    <3>1. ~Made(t) /\ (Waits(t) \/ t \in timedOut) /\ t.who \in Panels
      BY <1>1 DEF EIInv, WireOK, EscrowShapes, Tx
    <3>2. Waits(t) => Waits(t)' \/ t = panel[w].tx
      BY <3>1, <2>4 DEF Waits
    <3> QED
      BY <3>1, <3>2, <1>2, <2>2 DEF Made, Ids
  <2>8. \A v \in Panels : Own(v, panel[v])'
    <3>1. Own(w, panel[w])'
      BY <1>2, <1>3, <2>1, <2>2, <2>3, <2>4 DEF Own
    <3>2. ASSUME NEW v \in Panels, v # w PROVE Own(v, panel[v])'
      <4>1. Own(v, panel[v]) /\ panel'[v] = panel[v]
        BY <3>2, <2>4 DEF EIInv
      <4> QED
        BY <4>1, <1>2, <2>2 DEF Own, Made, Ids
    <3> QED
      BY <3>1, <3>2
  <2>9. \A v \in (Panels \ retyped)' : Shows(panel[v])'
    <3> SUFFICES ASSUME NEW v \in Panels, v \notin retyped PROVE Shows(panel[v])'
      BY <1>2
    <3>1. Shows(panel[v])
      BY DEF EIInv
    <3> QED
      BY <3>1, <1>2, <2>3, <2>4 DEF Shows, Older, Ids
  <2>10. ActiveOK'
    BY <1>2 DEF EIInv, ActiveOK, Ids
  <2> QED
    BY <2>5, <2>6, <2>7, <2>8, <2>9, <2>10 DEF EIInv
<1> QED
  BY <1>2, <1>4, <1>5, <1>6

-----------------------------------------------------------------------------
(* Steps of the chain with a transaction that was sent.                    *)

\* Who has a transaction that may still be included polls for it.
LEMMA Polls ==
  ASSUME EIInv, NEW tx \in wire
  PROVE  /\ tx \in Tx /\ tx.who \in Panels /\ ~Made(tx) /\ tx # None
         /\ panel[tx.who].tx = tx => panel[tx.who].at = "poll"
<1>1. tx \in Tx /\ tx.who \in Panels /\ ~Made(tx)
  BY DEF EIInv, EscrowShapes, WireOK, Tx
<1>2. Own(tx.who, panel[tx.who]) /\ panel[tx.who] \in Panel
  BY <1>1 DEF EIInv, EscrowShapes
<1> QED
  BY <1>1, <1>2, Apart DEF Own, Panel

LEMMA ExpireStep ==
  ASSUME EIInv, NEW tx \in wire, Expire(tx)
  PROVE  EIInv'
<1>1. /\ UNCHANGED <<escrowed, ended, sequence, nonce, timedOut, panel, retyped>>
      /\ wire' \subseteq wire
  BY DEF Expire, contractVars
<1>2. EscrowShapes' /\ ActiveOK' /\ ClicksOK'
  BY <1>1 DEF EIInv, EscrowShapes, ActiveOK, ClicksOK, Clicked, Ids
<1>3. WireOK'
  BY <1>1 DEF EIInv, WireOK, Made, Waits, Ids
<1>4. \A w \in Panels : Own(w, panel[w])'
  BY <1>1 DEF EIInv, Own, Made, Ids
<1>5. \A w \in (Panels \ retyped)' : Shows(panel[w])'
  BY <1>1 DEF EIInv, Shows, Older, Ids
<1> QED
  BY <1>2, <1>3, <1>4, <1>5 DEF EIInv

\* What a transaction that is included makes of the listings.
LEMMA Included ==
  ASSUME EIInv, NEW tx \in wire, Include(tx), NEW runs \in BOOLEAN,
         runs <=> CanRun(tx.who, tx.op, tx.id)
  PROVE  /\ Later
         /\ \A t \in Tx : Made(t)' <=> Made(t) \/ (runs /\ t = tx)
         /\ \A k \in Ids' : k \in Ids /\ ended'[k] \in {ended[k], tx}
<1>1. EscrowShapes /\ ActiveOK /\ tx \in Tx
  BY Polls DEF EIInv
<1>2. CASE runs
  <2>1. tx.id \in Ids /\ escrowed[tx.id].active
    BY <1>2 DEF CanRun, CanBuy, CanCancel
  <2>2. escrowed' = Close(tx.id) /\ ended' = [ended EXCEPT ![tx.id] = tx]
    BY <1>2 DEF Include, Bought, Cancelled
  <2>3. /\ Later
        /\ \A t \in Tx : Made(t) => Made(t)'
        /\ \A t \in Tx : Made(t)' => Made(t) \/ t = tx
        /\ Made(tx)'
        /\ \A k \in Ids' : k \in Ids /\ ended'[k] \in {ended[k], tx}
    BY <1>1, <2>1, <2>2, Ended
  <2> QED
    BY <1>2, <2>3
<1>3. CASE ~runs
  <2>1. UNCHANGED <<escrowed, ended>>
    BY <1>3 DEF Include
  <2>2. Later
    BY <1>1, <2>1 DEF Later, EscrowShapes, ActiveOK, Ids, Older
  <2> QED
    BY <1>3, <2>1, <2>2 DEF Made, Ids
<1> QED
  BY <1>2, <1>3

LEMMA IncludeStep ==
  ASSUME EIInv, NEW tx \in wire, Include(tx)
  PROVE  EIInv'
<1>1. PICK runs \in BOOLEAN : runs <=> CanRun(tx.who, tx.op, tx.id)
  OBVIOUS
<1>2. /\ Later
      /\ \A t \in Tx : Made(t)' <=> Made(t) \/ (runs /\ t = tx)
      /\ \A k \in Ids' : k \in Ids /\ ended'[k] \in {ended[k], tx}
  BY <1>1, Included
<1>3. PICK w \in Panels : w = tx.who
  BY Polls
<1>4. /\ tx \in Tx /\ ~Made(tx) /\ tx # None /\ EscrowShapes
      /\ panel[w].tx = tx => panel[w].at = "poll"
  BY <1>3, Polls DEF EIInv
<1>5. /\ UNCHANGED <<sequence, timedOut, retyped>> /\ wire' = wire \ {tx}
      /\ nonce' = [nonce EXCEPT ![w] = @ + 1]
      /\ panel' = IF panel[w].tx = tx
                  THEN [panel EXCEPT ![w].at = IF runs THEN "SUCCESS" ELSE "FAILED"] ELSE panel
  BY <1>1, <1>3 DEF Include
<1>6. PICK at \in {"SUCCESS", "FAILED"} : at = IF runs THEN "SUCCESS" ELSE "FAILED"
  BY <1>1
<1> DEFINE q == [panel[w] EXCEPT !.at = at]
<1>7. panel[w] \in Panel /\ Own(w, panel[w])
  BY <1>4 DEF EIInv, EscrowShapes
<1>8. /\ q \in Panel /\ q.typed = panel[w].typed /\ q.shown = panel[w].shown
      /\ q.fetch = panel[w].fetch /\ q.clicks = panel[w].clicks
      /\ q.at = at /\ q.tx = panel[w].tx /\ q.result = panel[w].result
  BY <1>7 DEF Panel
<1>9. panel[w].tx = tx => panel' = [panel EXCEPT ![w] = q]
  BY <1>4, <1>5, <1>6 DEF EscrowShapes
<1> HIDE DEF q
<1>10. /\ panel[w].tx = tx => panel'[w] = q
       /\ panel[w].tx # tx => panel'[w] = panel[w]
       /\ \A v \in Panels \ {w} : panel'[v] = panel[v]
  BY <1>4, <1>5, <1>9 DEF EscrowShapes
<1>11. panel' \in [Panels -> Panel] /\ nonce' \in [Panels -> Nat]
  <2>1. nonce' \in [Panels -> Nat]
    BY <1>4, <1>5 DEF EscrowShapes
  <2>2. panel' \in [Panels -> Panel]
    BY <1>4, <1>5, <1>8, <1>9 DEF EscrowShapes
  <2> QED
    BY <2>1, <2>2
<1>12. EscrowShapes'
  BY <1>2, <1>4, <1>5, <1>11 DEF EscrowShapes, Later
<1>13. /\ \A v \in Panels : panel'[v].clicks = panel[v].clicks
       /\ \A v \in Panels : panel'[v].tx = panel[v].tx
       /\ \A v \in Panels : panel'[v].typed = panel[v].typed
       /\ \A v \in Panels : panel'[v].shown = panel[v].shown
       /\ \A v \in Panels : panel'[v].fetch = panel[v].fetch
       /\ \A v \in Panels : panel'[v].result = panel[v].result
       /\ \A v \in Panels : panel[v].tx # tx => panel'[v].at = panel[v].at
  BY <1>8, <1>10
<1>14. \A v \in Panels : panel[v].tx = tx => v = w
  <2> SUFFICES ASSUME NEW v \in Panels, panel[v].tx = tx PROVE v = w
    OBVIOUS
  <2>1. Own(v, panel[v])
    BY DEF EIInv
  <2> QED
    BY <2>1, <1>3, <1>4 DEF Own
<1>15. \A v \in Panels : panel[v].tx = tx => panel[v].at = "poll" /\ panel'[v].at = at
  BY <1>4, <1>8, <1>10, <1>14
<1>16. ClicksOK'
  <2>1. \A t \in Tx : Clicked(t)' <=> Clicked(t)
    BY <1>13 DEF Clicked, Tx
  <2>2. Clicked(tx) /\ \A l \in Ids : ended[l] \in Tx => Clicked(ended[l])
    BY DEF EIInv, ClicksOK
  <2>3. \A t \in wire' : Clicked(t)'
    BY <2>1, <1>4, <1>5 DEF EIInv, ClicksOK, EscrowShapes
  <2>4. \A l \in Ids' : \A t \in Tx : t = ended'[l] => Clicked(t)'
    <3> SUFFICES ASSUME NEW l \in Ids', NEW t \in Tx, t = ended'[l] PROVE Clicked(t)'
      OBVIOUS
    <3>1. Clicked(t)
      BY <1>2, <2>2
    <3> QED
      BY <3>1, <2>1
  <2> QED
    BY <2>3, <2>4 DEF ClicksOK
<1>17. WireOK'
  <2> SUFFICES ASSUME NEW t \in wire' PROVE (~Made(t))' /\ (Waits(t)' \/ (t \in timedOut)')
    BY DEF WireOK
  <2>1. t \in wire /\ t # tx /\ t \in Tx /\ t.who \in Panels
    BY <1>4, <1>5 DEF EscrowShapes, Tx
  <2>2. ~Made(t) /\ (Waits(t) \/ t \in timedOut)
    BY <2>1 DEF EIInv, WireOK
  <2>3. ~Made(t)'
    BY <1>2, <2>1, <2>2
  <2>4. Waits(t) => Waits(t)'
    BY <2>1, <1>13 DEF Waits
  <2> QED
    BY <2>2, <2>3, <2>4, <1>5
<1>18. \A v \in Panels : Own(v, panel[v])'
  <2> SUFFICES ASSUME NEW v \in Panels PROVE Own(v, panel[v])'
    OBVIOUS
  <2>1. Own(v, panel[v]) /\ panel[v] \in Panel
    BY <1>4 DEF EIInv, EscrowShapes
  <2>2. PICK r : r = panel[v].result
    OBVIOUS
  <2>3. PICK t : t = panel[v].tx
    OBVIOUS
  <2>4. /\ t # None => t \in Tx
        /\ r # None => r.tx \in Tx
        /\ panel'[v].result = r /\ panel'[v].tx = t
    BY <2>1, <2>2, <2>3, <1>13 DEF Panel, Answer
  <2>5. r # None =>
          /\ r.tx.who = v
          /\ r.kind = "success" => Made(r.tx)'
          /\ r.kind = "error" => r.tx \in timedOut' \/ (r.tx \notin wire' /\ ~Made(r.tx)')
    BY <2>1, <2>2, <2>4, <1>2, <1>5 DEF Own
  <2>6. CASE panel[v].tx = tx
    BY <2>1, <2>2, <2>3, <2>4, <2>6, <2>5, <1>2, <1>4, <1>5, <1>6, <1>13, <1>15 DEF Own
  <2>7. CASE panel[v].tx # tx
    BY <2>1, <2>2, <2>3, <2>4, <2>7, <2>5, <1>2, <1>5, <1>13 DEF Own
  <2> QED
    BY <2>6, <2>7
<1>19. \A v \in (Panels \ retyped)' : Shows(panel[v])'
  <2> SUFFICES ASSUME NEW v \in Panels, v \notin retyped PROVE Shows(panel[v])'
    BY <1>5
  <2>1. Shows(panel[v])
    BY DEF EIInv
  <2>2. \A x : \A l \in Ids : Older(x, l) => Older(x, l)'
    BY <1>2 DEF Later
  <2>3. \A x, l : Older(x, l) => Older(x, l)'
    BY <2>2 DEF Older
  <2>4. panel'[v].at # "rest" => panel[v].at # "rest"
    BY <1>13, <1>15
  <2> QED
    BY <2>1, <2>3, <2>4, <1>13 DEF Shows
<1> QED
  BY <1>2, <1>12, <1>16, <1>17, <1>18, <1>19 DEF EIInv, Later

-----------------------------------------------------------------------------
(* The theorem.                                                            *)

LEMMA InitEscrowStep == InitEscrow => EIInv
<1> SUFFICES ASSUME InitEscrow PROVE EIInv
  OBVIOUS
<1>1. BlankPanel \in Panel /\ Own(1, BlankPanel) /\ Shows(BlankPanel)
  BY DEF BlankPanel, Panel, Own, Shows
<1>2. EscrowShapes
  BY <1>1 DEF InitEscrow, EscrowShapes
<1>3. Ids = {}
  BY DEF InitEscrow, Ids
<1>4. ActiveOK /\ ClicksOK /\ WireOK
  BY <1>3 DEF InitEscrow, ActiveOK, ClicksOK, WireOK
<1>5. \A w \in Panels : Own(w, panel[w]) /\ Shows(panel[w])
  BY DEF InitEscrow, BlankPanel, Own, Shows
<1> QED
  BY <1>2, <1>4, <1>5 DEF EIInv

LEMMA StutterEscrow ==
  ASSUME EIInv, UNCHANGED escrowVars
  PROVE  EIInv'
<1>1. UNCHANGED <<escrowed, ended, sequence, nonce, wire, timedOut, panel, retyped>>
  BY DEF escrowVars, contractVars, chainVars
<1>2. Later
  BY <1>1 DEF Later, EIInv, EscrowShapes, ActiveOK, Ids, Older
<1>3. /\ \A t \in Tx : Made(t)' <=> Made(t)
      /\ \A l \in Ids' : ended'[l] \in Tx => l \in Ids /\ ended[l] = ended'[l]
  BY <1>1 DEF Made, Ids
<1>4. sequence' \in Nat
  BY <1>1 DEF EIInv, EscrowShapes
<1> QED
  BY <1>1, <1>2, <1>3, <1>4, Elsewhere

LEMMA NextEscrowStep == EIInv /\ [NextEscrow]_escrowVars => EIInv'
<1> SUFFICES ASSUME EIInv, [NextEscrow]_escrowVars PROVE EIInv'
  OBVIOUS
<1>1. CASE InitContract \/ LedgerCloses
  BY <1>1, ContractSteps
<1>2. ASSUME NEW w \in Wallets, NEW offer \in Offers[w], List(w, offer) PROVE EIInv'
  BY <1>2, ListStep
<1>3. ASSUME NEW w \in Wallets, NEW op \in {"buy", "cancel"}, NEW l \in 1..MaxListings,
             Direct(w, op, l)
      PROVE EIInv'
  BY <1>3, DirectStep
<1>4. ASSUME NEW w \in Panels, NEW l \in 1..MaxListings, Type(w, l) PROVE EIInv'
  BY <1>4, TypeStep
<1>5. ASSUME NEW w \in Panels,
             Fetch(w) \/ Show(w) \/ Click(w) \/ Send(w) \/ Poll(w) \/ Refresh(w)
      PROVE EIInv'
  BY <1>5, FetchStep, ShowStep, ClickStep, SendStep, PollStep, RefreshStep
<1>6. ASSUME NEW tx \in wire, Include(tx) \/ Expire(tx) PROVE EIInv'
  BY <1>6, IncludeStep, ExpireStep
<1>7. CASE UNCHANGED escrowVars
  BY <1>7, StutterEscrow
<1> QED
  BY <1>1, <1>2, <1>3, <1>4, <1>5, <1>6, <1>7 DEF NextEscrow

\* The panel tells of a transaction what the chain has made of it, unless it gave up
\* polling; what it shows is the listing typed, as it is or was, unless the id was typed
\* over while something was loading: for any wallets, offers and steps of the chain.
THEOREM PanelTellsTheTruth == SpecEscrow => []PanelInv
<1>1. EIInv => PanelInv
  <2> SUFFICES ASSUME EIInv PROVE PanelInv
    OBVIOUS
  <2>1. PanelIsTrue
    <3> SUFFICES ASSUME NEW w \in Panels, panel[w].result # None
                 PROVE  IF panel[w].result.kind = "success" THEN Made(panel[w].result.tx)
                        ELSE Made(panel[w].result.tx) => panel[w].result.tx \in timedOut
      BY DEF PanelIsTrue, Made
    <3>1. Own(w, panel[w]) /\ panel[w] \in Panel
      BY DEF EIInv, EscrowShapes
    <3>2. panel[w].result.kind \in {"success", "error"}
      BY <3>1 DEF Panel, Answer
    <3> QED
      BY <3>1, <3>2 DEF Own
  <2>2. ShownIsTraded
    BY DEF EIInv, ShownIsTraded, Shows, Older
  <2> QED
    BY <2>1, <2>2 DEF PanelInv
<1> QED
  BY <1>1, InitEscrowStep, NextEscrowStep, PTL DEF SpecEscrow

-----------------------------------------------------------------------------
(* What the contract holds, and what it has moved.                         *)

\* The fee is at most its cap, and no listing comes before it or is for nothing.
FeesOK ==
  /\ feeBps \in {NotInitialised} \cup 0..MaxFeeBps
  /\ Ids # {} => feeBps # NotInitialised
  /\ \A l \in Ids : escrowed[l].amount > 0 /\ escrowed[l].price > 0

Balances ==
  /\ usdc \in [Wallets \cup {Treasury} -> Int]
  /\ units \in [Wallets \cup {Contract} -> Int]

FlowIInv == EIInv /\ FeesOK /\ Balances /\ FundsFlow

Open == {l \in Ids : escrowed[l].active}

LEMMA FeeBelow ==
  ASSUME NEW p \in Nat, NEW f \in 0..MaxFeeBps
  PROVE  (p * f) \div 10000 \in Nat /\ (p * f) \div 10000 <= p
<1>1. PICK m \in Nat : m = p * f
  BY Products DEF MaxFeeBps
<1>2. m <= 10000 * p
  <2>1. f \in Nat /\ 10000 - f \in Nat
    BY DEF MaxFeeBps
  <2>2. PICK g \in Nat : f + g = 10000
    BY <2>1
  <2>3. p * f + p * g = 10000 * p /\ p * g \in Nat
    BY <2>1, <2>2
  <2> QED
    BY <1>1, <2>3
<1>3. m \div 10000 \in Nat /\ (m \div 10000) * 10000 <= m
  BY Floor
<1> QED
  BY <1>1, <1>2, <1>3

LEMMA ListingFacts ==
  ASSUME EIInv, FeesOK
  PROVE  /\ IsFiniteSet(Ids)
         /\ \A l \in Ids :
              /\ escrowed[l] \in Listing /\ escrowed[l].seller \in Wallets
              /\ Price[l] = escrowed[l].price /\ Amount[l] = escrowed[l].amount
              /\ FeeOf[l] = Fee(escrowed[l].price) /\ Earned[l] = Price[l] - FeeOf[l]
              /\ Price[l] \in Nat /\ FeeOf[l] \in Nat /\ Earned[l] \in Nat /\ Amount[l] \in Nat
              /\ FeeOf[l] <= Price[l]
<1>1. Ids = 1..Len(escrowed) /\ Len(escrowed) \in Nat
  BY DEF EIInv, EscrowShapes, Ids
<1>2. IsFiniteSet(Ids)
  BY <1>1, FS_Interval
<1> SUFFICES ASSUME NEW l \in Ids
             PROVE  /\ escrowed[l] \in Listing /\ escrowed[l].seller \in Wallets
                    /\ Price[l] = escrowed[l].price /\ Amount[l] = escrowed[l].amount
                    /\ FeeOf[l] = Fee(escrowed[l].price) /\ Earned[l] = Price[l] - FeeOf[l]
                    /\ Price[l] \in Nat /\ FeeOf[l] \in Nat /\ Earned[l] \in Nat /\ Amount[l] \in Nat
                    /\ FeeOf[l] <= Price[l]
  BY <1>2
<1>3. escrowed[l] \in Listing
  BY <1>1 DEF EIInv, EscrowShapes
<1>4. escrowed[l].seller \in Wallets /\ escrowed[l].price \in Nat /\ escrowed[l].amount \in Nat
  BY <1>3 DEF Listing, FeesOK
<1>5. feeBps \in 0..MaxFeeBps
  BY DEF FeesOK
<1>6. Fee(escrowed[l].price) \in Nat /\ Fee(escrowed[l].price) <= escrowed[l].price
  BY <1>4, <1>5, FeeBelow DEF Fee
<1>7. /\ Price[l] = escrowed[l].price /\ Amount[l] = escrowed[l].amount
      /\ FeeOf[l] = Fee(escrowed[l].price) /\ Earned[l] = Price[l] - FeeOf[l]
  BY DEF Price, Amount, FeeOf, Earned
<1> QED
  BY <1>3, <1>4, <1>6, <1>7

\* What a listing that ends leaves as it was.
LEMMA Closes ==
  ASSUME EIInv, FeesOK, NEW l \in Ids, escrowed[l].active, NEW e,
         escrowed' = Close(l), ended' = [ended EXCEPT ![l] = e], UNCHANGED feeBps
  PROVE  /\ Ids' = Ids /\ FeesOK'
         /\ Price' = Price /\ FeeOf' = FeeOf /\ Earned' = Earned /\ Amount' = Amount
         /\ Open' = Open \ {l} /\ l \in Open
         /\ \A k \in Ids : /\ escrowed'[k].seller = escrowed[k].seller
                           /\ ended'[k] = IF k = l THEN e ELSE ended[k]
         /\ ended[l] = None
<1>1. /\ Ids = 1..Len(escrowed) /\ Len(escrowed) \in Nat /\ DOMAIN ended = Ids
      /\ escrowed \in Seq(Listing)
  BY DEF EIInv, EscrowShapes, Ids
<1>2. PICK x \in Listing : x = escrowed[l]
  BY <1>1
<1>3. PICK y \in Listing : /\ y = [x EXCEPT !.active = FALSE]
                          /\ y.active = FALSE /\ y.seller = x.seller /\ y.amount = x.amount
                          /\ y.price = x.price
  BY <1>2, Deactivated DEF Listing
<1>4. escrowed' = [escrowed EXCEPT ![l] = y]
  BY <1>2, <1>3 DEF Close
<1>5. /\ Ids' = Ids
      /\ \A k \in Ids : escrowed'[k] = IF k = l THEN y ELSE escrowed[k]
      /\ \A k \in Ids : ended'[k] = IF k = l THEN e ELSE ended[k]
  BY <1>1, <1>4 DEF Ids
<1>6. \A k \in Ids : /\ escrowed'[k].seller = escrowed[k].seller
                     /\ escrowed'[k].amount = escrowed[k].amount
                     /\ escrowed'[k].price = escrowed[k].price
                     /\ escrowed'[k].active <=> k # l /\ escrowed[k].active
  BY <1>2, <1>3, <1>5
<1>7. Price' = Price /\ Amount' = Amount /\ FeeOf' = FeeOf
  BY <1>5, <1>6 DEF Price, Amount, FeeOf, Fee
<1>8. Earned' = Earned
  BY <1>5, <1>7 DEF Earned
<1>9. Open' = Open \ {l} /\ l \in Open
  BY <1>5, <1>6 DEF Open
<1>10. FeesOK'
  BY <1>5, <1>6 DEF FeesOK
<1>11. ended[l] = None
  BY DEF EIInv, ActiveOK
<1> QED
  BY <1>5, <1>6, <1>7, <1>8, <1>9, <1>10, <1>11

LEMMA BuyFlows ==
  ASSUME FlowIInv, NEW w \in Wallets, NEW l \in Ids, CanBuy(w, l), Bought(w, l), NEW e,
         e.op = "buy", e.who = w, ended' = [ended EXCEPT ![l] = e], UNCHANGED feeBps
  PROVE  FeesOK' /\ Balances' /\ FundsFlow'
<1> USE DEF FlowIInv
<1>1. escrowed[l].active /\ escrowed' = Close(l) /\ usdc[w] >= escrowed[l].price
  BY DEF CanBuy, Bought
<1>2. /\ Ids' = Ids /\ FeesOK'
      /\ Price' = Price /\ FeeOf' = FeeOf /\ Earned' = Earned /\ Amount' = Amount
      /\ Open' = Open \ {l} /\ l \in Open
      /\ \A k \in Ids : /\ escrowed'[k].seller = escrowed[k].seller
                        /\ ended'[k] = IF k = l THEN e ELSE ended[k]
      /\ ended[l] = None
  BY <1>1, Closes
<1>3. None.op = "none"
  BY DEF None
<1>4. PICK s \in Wallets : s = escrowed[l].seller
  BY ListingFacts
<1>5. PICK p \in Nat, f \in Nat, a \in Nat :
        /\ p = Price[l] /\ f = FeeOf[l] /\ a = Amount[l] /\ Earned[l] = p - f /\ f <= p
        /\ p = escrowed[l].price /\ f = Fee(escrowed[l].price) /\ a = escrowed[l].amount
  BY ListingFacts
<1>6. Sales' = Sales \cup {l} /\ l \notin Sales /\ Sales \in SUBSET Ids
  BY <1>2, <1>3 DEF Sales
<1>7. \A v : BoughtBy(v)' = (IF v = w THEN BoughtBy(v) \cup {l} ELSE BoughtBy(v))
             /\ l \notin BoughtBy(v) /\ BoughtBy(v) \in SUBSET Ids
  BY <1>2, <1>6 DEF BoughtBy
<1>8. \A v : SoldBy(v)' = (IF v = s THEN SoldBy(v) \cup {l} ELSE SoldBy(v))
             /\ l \notin SoldBy(v) /\ SoldBy(v) \in SUBSET Ids
  BY <1>2, <1>4, <1>6 DEF SoldBy
<1>9. \A v : HeldBy(v)' = HeldBy(v) /\ HeldBy(v) \in SUBSET Ids
  BY <1>2, <1>3 DEF HeldBy
<1>10. Weights(Price, Ids) /\ Weights(FeeOf, Ids) /\ Weights(Earned, Ids) /\ Weights(Amount, Ids)
  BY ListingFacts DEF Weights
<1>11. SumOf(Amount, Open') = SumOf(Amount, Open) - a /\ SumOf(Amount, Open) \in Nat
  <2>1. Open \in SUBSET Ids /\ l \in Open
    BY <1>2 DEF Open
  <2>2. SumOf(Amount, Open) \in Nat /\ SumOf(Amount, Open \ {l}) = SumOf(Amount, Open) - Amount[l]
    <3>1. Weights(Amount, Ids)
      BY <1>10
    <3> HIDE DEF Open
    <3> QED
      BY <2>1, <3>1, SumLoses
  <2> QED
    BY <1>2, <1>5, <2>2
<1>12. SumOf(FeeOf, Sales') = SumOf(FeeOf, Sales) + f /\ SumOf(FeeOf, Sales) \in Nat
  <2>1. SumOf(FeeOf, Sales) \in Nat /\ SumOf(FeeOf, Sales \cup {l}) = SumOf(FeeOf, Sales) + FeeOf[l]
    BY <1>6, <1>10, SumGains
  <2> QED
    BY <1>5, <1>6, <2>1
<1>13. \A v : /\ SumOf(Earned, SoldBy(v)') = SumOf(Earned, SoldBy(v)) + (IF v = s THEN p - f ELSE 0)
              /\ SumOf(Earned, SoldBy(v)) \in Nat
  <2> SUFFICES ASSUME NEW v
               PROVE  /\ SumOf(Earned, SoldBy(v)') = SumOf(Earned, SoldBy(v)) + (IF v = s THEN p - f ELSE 0)
                      /\ SumOf(Earned, SoldBy(v)) \in Nat
    OBVIOUS
  <2>1. SoldBy(v) \in SUBSET Ids /\ l \notin SoldBy(v)
    BY <1>8
  <2>2. /\ SumOf(Earned, SoldBy(v)) \in Nat
        /\ SumOf(Earned, SoldBy(v) \cup {l}) = SumOf(Earned, SoldBy(v)) + Earned[l]
    BY <1>10, <2>1, SumGains
  <2>3. CASE v = s
    <3>1. SoldBy(v)' = SoldBy(v) \cup {l}
      BY <1>8, <2>3
    <3> QED
      BY <1>5, <2>2, <2>3, <3>1
  <2>4. CASE v # s
    <3>1. SoldBy(v)' = SoldBy(v)
      BY <1>8, <2>4
    <3> QED
      BY <2>2, <2>4, <3>1
  <2> QED
    BY <2>3, <2>4
<1>14. \A v : /\ SumOf(Price, BoughtBy(v)') = SumOf(Price, BoughtBy(v)) + (IF v = w THEN p ELSE 0)
              /\ SumOf(Price, BoughtBy(v)) \in Nat
  <2> SUFFICES ASSUME NEW v
               PROVE  /\ SumOf(Price, BoughtBy(v)') = SumOf(Price, BoughtBy(v)) + (IF v = w THEN p ELSE 0)
                      /\ SumOf(Price, BoughtBy(v)) \in Nat
    OBVIOUS
  <2>1. BoughtBy(v) \in SUBSET Ids /\ l \notin BoughtBy(v)
    BY <1>7
  <2>2. /\ SumOf(Price, BoughtBy(v)) \in Nat
        /\ SumOf(Price, BoughtBy(v) \cup {l}) = SumOf(Price, BoughtBy(v)) + Price[l]
    BY <1>10, <2>1, SumGains
  <2>3. CASE v = w
    <3>1. BoughtBy(v)' = BoughtBy(v) \cup {l}
      BY <1>7, <2>3
    <3> QED
      BY <1>5, <2>2, <2>3, <3>1
  <2>4. CASE v # w
    <3>1. BoughtBy(v)' = BoughtBy(v)
      BY <1>7, <2>4
    <3> QED
      BY <2>2, <2>4, <3>1
  <2> QED
    BY <2>3, <2>4
<1>15. \A v : /\ SumOf(Amount, BoughtBy(v)') = SumOf(Amount, BoughtBy(v)) + (IF v = w THEN a ELSE 0)
              /\ SumOf(Amount, BoughtBy(v)) \in Nat
  <2> SUFFICES ASSUME NEW v
               PROVE  /\ SumOf(Amount, BoughtBy(v)') = SumOf(Amount, BoughtBy(v)) + (IF v = w THEN a ELSE 0)
                      /\ SumOf(Amount, BoughtBy(v)) \in Nat
    OBVIOUS
  <2>1. BoughtBy(v) \in SUBSET Ids /\ l \notin BoughtBy(v)
    BY <1>7
  <2>2. /\ SumOf(Amount, BoughtBy(v)) \in Nat
        /\ SumOf(Amount, BoughtBy(v) \cup {l}) = SumOf(Amount, BoughtBy(v)) + Amount[l]
    BY <1>10, <2>1, SumGains
  <2>3. CASE v = w
    <3>1. BoughtBy(v)' = BoughtBy(v) \cup {l}
      BY <1>7, <2>3
    <3> QED
      BY <1>5, <2>2, <2>3, <3>1
  <2>4. CASE v # w
    <3>1. BoughtBy(v)' = BoughtBy(v)
      BY <1>7, <2>4
    <3> QED
      BY <2>2, <2>4, <3>1
  <2> QED
    BY <2>3, <2>4
<1>16. \A v : SumOf(Amount, HeldBy(v)) \in Nat
  BY <1>9, <1>10, SumGains
<1>17. /\ Treasury \notin Wallets /\ Contract \notin Wallets
       /\ \A v \in Wallets : Purse[v] \in Nat /\ Holding[v] \in Nat
  BY EscrowAssumption
<1>18. /\ usdc' \in [Wallets \cup {Treasury} -> Int] /\ usdc'[Treasury] = usdc[Treasury] + f
       /\ \A v \in Wallets : usdc'[v] = usdc[v] + (IF v = s THEN p - f ELSE 0) - (IF v = w THEN p ELSE 0)
  <2>1. usdc' = Move(Move(usdc, w, s, p - f), w, Treasury, f)
    BY <1>4, <1>5 DEF Bought
  <2> QED
    BY <2>1, <1>17 DEF Move, Balances
<1>19. /\ units' \in [Wallets \cup {Contract} -> Int] /\ units'[Contract] = units[Contract] - a
       /\ \A v \in Wallets : units'[v] = units[v] + (IF v = w THEN a ELSE 0)
  <2>1. units' = Move(units, Contract, w, a)
    BY <1>5 DEF Bought
  <2> QED
    BY <2>1, <1>17 DEF Move, Balances
<1>20. Balances'
  BY <1>18, <1>19 DEF Balances
<1>21. /\ units[Contract] = SumOf(Amount, Open) /\ usdc[Treasury] = SumOf(FeeOf, Sales)
       /\ \A v \in Wallets :
            /\ usdc[v] = Purse[v] + SumOf(Earned, SoldBy(v)) - SumOf(Price, BoughtBy(v))
            /\ units[v] = Holding[v] + SumOf(Amount, BoughtBy(v)) - SumOf(Amount, HeldBy(v))
            /\ usdc[v] >= 0 /\ units[v] >= 0
  BY DEF FundsFlow, Open
<1>22. units'[Contract] = SumOf(Amount, Open)' /\ usdc'[Treasury] = SumOf(FeeOf, Sales)'
  BY <1>2, <1>11, <1>12, <1>18, <1>19, <1>21
<1>23. ASSUME NEW v \in Wallets
       PROVE  /\ usdc'[v] = Purse[v] + SumOf(Earned, SoldBy(v))' - SumOf(Price, BoughtBy(v))'
              /\ units'[v] = Holding[v] + SumOf(Amount, BoughtBy(v))' - SumOf(Amount, HeldBy(v))'
              /\ usdc'[v] >= 0 /\ units'[v] >= 0
  <2>1. usdc[v] \in Int /\ units[v] \in Int
    BY DEF Balances
  <2>2. SumOf(Earned, SoldBy(v))' = SumOf(Earned, SoldBy(v)') /\ SumOf(Price, BoughtBy(v))' = SumOf(Price, BoughtBy(v)')
    BY <1>2
  <2>3. /\ SumOf(Amount, BoughtBy(v))' = SumOf(Amount, BoughtBy(v)')
        /\ SumOf(Amount, HeldBy(v))' = SumOf(Amount, HeldBy(v))
    BY <1>2, <1>9
  <2>4. usdc'[v] = Purse[v] + SumOf(Earned, SoldBy(v))' - SumOf(Price, BoughtBy(v))' /\ usdc'[v] >= 0
    <3>1. PICK x \in Nat, y \in Nat, z \in Nat, u \in Int :
            x = SumOf(Earned, SoldBy(v)) /\ y = SumOf(Price, BoughtBy(v)) /\ z = Purse[v] /\ u = usdc[v]
      BY <2>1, <1>13, <1>14, <1>17
    <3>2. u = z + x - y /\ u >= 0 /\ (v = w => u >= p)
      BY <3>1, <1>1, <1>5, <1>21
    <3>3. /\ SumOf(Earned, SoldBy(v))' = x + (IF v = s THEN p - f ELSE 0)
          /\ SumOf(Price, BoughtBy(v))' = y + (IF v = w THEN p ELSE 0)
          /\ usdc'[v] = u + (IF v = s THEN p - f ELSE 0) - (IF v = w THEN p ELSE 0)
      BY <3>1, <2>2, <1>13, <1>14, <1>18
    <3>4. f <= p
      BY <1>5
    <3> QED
      BY <3>1, <3>2, <3>3, <3>4
  <2>5. units'[v] = Holding[v] + SumOf(Amount, BoughtBy(v))' - SumOf(Amount, HeldBy(v))' /\ units'[v] >= 0
    BY <2>1, <2>3, <1>15, <1>16, <1>17, <1>19, <1>21
  <2> QED
    BY <2>4, <2>5
<1> QED
  BY <1>2, <1>20, <1>22, <1>23 DEF FundsFlow, Open

\* What the invariant says of the books, in one place.
LEMMA Books ==
  ASSUME FlowIInv
  PROVE  /\ units[Contract] = SumOf(Amount, Open) /\ usdc[Treasury] = SumOf(FeeOf, Sales)
         /\ \A v \in Wallets :
              /\ usdc[v] = Purse[v] + SumOf(Earned, SoldBy(v)) - SumOf(Price, BoughtBy(v))
              /\ units[v] = Holding[v] + SumOf(Amount, BoughtBy(v)) - SumOf(Amount, HeldBy(v))
              /\ usdc[v] >= 0 /\ units[v] >= 0 /\ usdc[v] \in Int /\ units[v] \in Int
         /\ usdc[Treasury] \in Int /\ units[Contract] \in Int
         /\ Treasury \notin Wallets /\ Contract \notin Wallets
         /\ \A v \in Wallets : Purse[v] \in Nat /\ Holding[v] \in Nat
BY EscrowAssumption DEF FlowIInv, FundsFlow, Open, Balances

LEMMA CancelFlows ==
  ASSUME FlowIInv, NEW l \in Ids, escrowed[l].active, Cancelled(l), NEW e, e.op = "cancel",
         ended' = [ended EXCEPT ![l] = e], UNCHANGED feeBps
  PROVE  FeesOK' /\ Balances' /\ FundsFlow'
<1> USE DEF FlowIInv
<1>1. escrowed' = Close(l) /\ usdc' = usdc
  BY DEF Cancelled
<1>2. /\ Ids' = Ids /\ FeesOK'
      /\ Price' = Price /\ FeeOf' = FeeOf /\ Earned' = Earned /\ Amount' = Amount
      /\ Open' = Open \ {l} /\ l \in Open
      /\ \A k \in Ids : /\ escrowed'[k].seller = escrowed[k].seller
                        /\ ended'[k] = IF k = l THEN e ELSE ended[k]
      /\ ended[l] = None
  BY <1>1, Closes
<1>3. None.op = "none"
  BY DEF None
<1>4. PICK s \in Wallets : s = escrowed[l].seller
  BY ListingFacts
<1>5. PICK a \in Nat : a = Amount[l] /\ a = escrowed[l].amount
  BY ListingFacts
<1>6. Sales' = Sales
  BY <1>2, <1>3 DEF Sales
<1>7. \A v : BoughtBy(v)' = BoughtBy(v) /\ SoldBy(v)' = SoldBy(v) /\ BoughtBy(v) \in SUBSET Ids
  BY <1>2, <1>3, <1>6 DEF BoughtBy, SoldBy, Sales
<1>8. \A v : /\ HeldBy(v)' = (IF v = s THEN HeldBy(v) \ {l} ELSE HeldBy(v))
             /\ v = s => l \in HeldBy(v)
             /\ HeldBy(v) \in SUBSET Ids
  BY <1>2, <1>3, <1>4 DEF HeldBy
<1>9. Weights(Amount, Ids)
  BY ListingFacts DEF Weights
<1>10. SumOf(Amount, Open') = SumOf(Amount, Open) - a /\ SumOf(Amount, Open) \in Nat
  <2>1. Open \in SUBSET Ids /\ l \in Open
    BY <1>2 DEF Open
  <2>2. SumOf(Amount, Open) \in Nat /\ SumOf(Amount, Open \ {l}) = SumOf(Amount, Open) - Amount[l]
    <3>1. Weights(Amount, Ids)
      BY <1>9
    <3> HIDE DEF Open
    <3> QED
      BY <2>1, <3>1, SumLoses
  <2> QED
    BY <1>2, <1>5, <2>2
<1>11. \A v : /\ SumOf(Amount, HeldBy(v)) \in Nat /\ SumOf(Amount, BoughtBy(v)) \in Nat
              /\ v # s => SumOf(Amount, HeldBy(v)') = SumOf(Amount, HeldBy(v))
              /\ v = s => SumOf(Amount, HeldBy(v)') = SumOf(Amount, HeldBy(v)) - a
  <2> SUFFICES ASSUME NEW v
               PROVE  /\ SumOf(Amount, HeldBy(v)) \in Nat /\ SumOf(Amount, BoughtBy(v)) \in Nat
                      /\ v # s => SumOf(Amount, HeldBy(v)') = SumOf(Amount, HeldBy(v))
                      /\ v = s => SumOf(Amount, HeldBy(v)') = SumOf(Amount, HeldBy(v)) - a
    OBVIOUS
  <2>1. SumOf(Amount, HeldBy(v)) \in Nat /\ SumOf(Amount, BoughtBy(v)) \in Nat
    BY <1>7, <1>8, <1>9, SumGains
  <2>2. ASSUME v = s PROVE SumOf(Amount, HeldBy(v)') = SumOf(Amount, HeldBy(v)) - a
    <3>1. HeldBy(v)' = HeldBy(v) \ {l} /\ l \in HeldBy(v) /\ HeldBy(v) \in SUBSET Ids
      BY <1>8, <2>2
    <3>2. SumOf(Amount, HeldBy(v) \ {l}) = SumOf(Amount, HeldBy(v)) - Amount[l]
      BY <1>9, <3>1, SumGains
    <3> QED
      BY <1>5, <3>1, <3>2
  <2>3. ASSUME v # s PROVE SumOf(Amount, HeldBy(v)') = SumOf(Amount, HeldBy(v))
    <3>1. HeldBy(v)' = HeldBy(v)
      BY <1>8, <2>3
    <3> QED
      BY <3>1
  <2> QED
    BY <2>1, <2>2, <2>3
<1>12. /\ units' \in [Wallets \cup {Contract} -> Int] /\ units'[Contract] = units[Contract] - a
       /\ \A v \in Wallets : units'[v] = units[v] + (IF v = s THEN a ELSE 0)
  <2>1. units' = Move(units, Contract, s, a)
    BY <1>4, <1>5 DEF Cancelled
  <2> QED
    BY <2>1, EscrowAssumption DEF Move, Balances
<1>13. Balances'
  BY <1>1, <1>12 DEF Balances
<1>14. units'[Contract] = SumOf(Amount, Open)' /\ usdc'[Treasury] = SumOf(FeeOf, Sales)'
  <2>1. units[Contract] = SumOf(Amount, Open) /\ usdc[Treasury] = SumOf(FeeOf, Sales)
    BY Books
  <2> QED
    BY <1>1, <1>2, <1>6, <1>10, <1>12, <2>1
<1>15. ASSUME NEW v \in Wallets
       PROVE  /\ usdc'[v] = Purse[v] + SumOf(Earned, SoldBy(v))' - SumOf(Price, BoughtBy(v))'
              /\ units'[v] = Holding[v] + SumOf(Amount, BoughtBy(v))' - SumOf(Amount, HeldBy(v))'
              /\ usdc'[v] >= 0 /\ units'[v] >= 0
  <2>1. /\ usdc[v] = Purse[v] + SumOf(Earned, SoldBy(v)) - SumOf(Price, BoughtBy(v)) /\ usdc[v] >= 0
        /\ units[v] = Holding[v] + SumOf(Amount, BoughtBy(v)) - SumOf(Amount, HeldBy(v))
        /\ units[v] >= 0 /\ units[v] \in Int /\ Holding[v] \in Nat
    BY Books
  <2>2. usdc'[v] = Purse[v] + SumOf(Earned, SoldBy(v))' - SumOf(Price, BoughtBy(v))' /\ usdc'[v] >= 0
    BY <1>1, <1>2, <1>7, <2>1
  <2>3. PICK x \in Nat, y \in Nat : x = SumOf(Amount, BoughtBy(v)) /\ y = SumOf(Amount, HeldBy(v))
    BY <1>11
  <2>4. /\ SumOf(Amount, BoughtBy(v))' = x
        /\ SumOf(Amount, HeldBy(v))' = y - (IF v = s THEN a ELSE 0)
    BY <1>2, <1>7, <1>11, <2>3
  <2>5. units'[v] = Holding[v] + SumOf(Amount, BoughtBy(v))' - SumOf(Amount, HeldBy(v))' /\ units'[v] >= 0
    BY <1>12, <2>1, <2>3, <2>4
  <2> QED
    BY <2>2, <2>5
<1> QED
  BY <1>2, <1>13, <1>14, <1>15 DEF FundsFlow, Open

LEMMA ListFlows ==
  ASSUME FlowIInv, NEW w \in Wallets, NEW offer \in Offers[w], List(w, offer)
  PROVE  FeesOK' /\ Balances' /\ FundsFlow'
<1> DEFINE x == [seller |-> w, amount |-> offer.amount, price |-> offer.price,
                 expiry |-> sequence + offer.ttl, active |-> TRUE]
           k == Len(escrowed) + 1
<1> USE DEF FlowIInv
<1>1. /\ Ids = 1..Len(escrowed) /\ Len(escrowed) \in Nat /\ DOMAIN ended = Ids
      /\ escrowed \in Seq(Listing) /\ Len(ended) = Len(escrowed)
      /\ ended \in Seq(Tx \cup ByHand \cup {None})
  BY DEF EIInv, EscrowShapes, Ids
<1>2. /\ x.seller = w /\ x.amount = offer.amount /\ x.price = offer.price /\ x.active = TRUE
  OBVIOUS
<1>3. PICK a \in Nat : a = offer.amount /\ a > 0 /\ offer.price > 0 /\ units[w] >= a
  BY EscrowAssumption DEF List
<1>4. escrowed' = Append(escrowed, x) /\ ended' = Append(ended, None) /\ usdc' = usdc /\ feeBps' = feeBps
  BY DEF List
<1>5. /\ Ids' = Ids \cup {k} /\ k \notin Ids
      /\ \A i \in Ids : escrowed'[i] = escrowed[i] /\ ended'[i] = ended[i]
      /\ escrowed'[k] = x /\ ended'[k] = None
  <2> HIDE DEF x
  <2> QED
    BY <1>1, <1>4 DEF Ids
<1> HIDE DEF x, k
<1>6. None.op = "none"
  BY DEF None
<1>7. FeesOK'
  BY <1>2, <1>3, <1>4, <1>5 DEF FeesOK, List
<1>8. /\ Sales' = Sales /\ Sales \in SUBSET Ids
      /\ \A v : BoughtBy(v)' = BoughtBy(v) /\ BoughtBy(v) \in SUBSET Ids
      /\ \A v : SoldBy(v)' = SoldBy(v) /\ SoldBy(v) \in SUBSET Ids
  BY <1>5, <1>6 DEF Sales, BoughtBy, SoldBy
<1>9. /\ Open' = Open \cup {k} /\ Open \in SUBSET Ids
      /\ \A v : /\ v = w => HeldBy(v)' = HeldBy(v) \cup {k}
                /\ v # w => HeldBy(v)' = HeldBy(v)
                /\ HeldBy(v) \in SUBSET Ids
  BY <1>2, <1>5, <1>6 DEF Open, HeldBy
<1>10. /\ \A i \in Ids : Price'[i] = Price[i] /\ FeeOf'[i] = FeeOf[i] /\ Amount'[i] = Amount[i]
       /\ \A i \in Ids : Earned'[i] = Earned[i]
       /\ Amount'[k] = a
  <2>1. \A i \in Ids : Price'[i] = Price[i] /\ FeeOf'[i] = FeeOf[i] /\ Amount'[i] = Amount[i]
    <3>1. \A i \in Ids : i \in Ids' /\ escrowed'[i] = escrowed[i] /\ feeBps' = feeBps
      BY <1>4, <1>5
    <3>2. \A i \in Ids : Price'[i] = Price[i]
      BY <3>1 DEF Price
    <3>3. \A i \in Ids : FeeOf'[i] = FeeOf[i]
      BY <3>1 DEF FeeOf, Fee
    <3>4. \A i \in Ids : Amount'[i] = Amount[i]
      BY <3>1 DEF Amount
    <3> QED
      BY <3>2, <3>3, <3>4
  <2>2. \A i \in Ids : Earned'[i] = Earned[i]
    BY <1>5, <2>1 DEF Earned
  <2> QED
    BY <1>2, <1>3, <1>5, <2>1, <2>2 DEF Amount
<1>11. Weights(Price, Ids) /\ Weights(FeeOf, Ids) /\ Weights(Earned, Ids) /\ Weights(Amount, Ids)
  BY ListingFacts DEF Weights
<1>12. IsFiniteSet(Ids)
  BY <1>11 DEF Weights
<1>13. ASSUME NEW S \in SUBSET Ids
       PROVE  /\ SumOf(Price', S) = SumOf(Price, S) /\ SumOf(FeeOf', S) = SumOf(FeeOf, S)
              /\ SumOf(Earned', S) = SumOf(Earned, S) /\ SumOf(Amount', S) = SumOf(Amount, S)
              /\ SumOf(Amount, S) \in Nat
              /\ SumOf(Amount', S \cup {k}) = SumOf(Amount, S) + a
  <2>1. IsFiniteSet(S)
    BY <1>12, FS_Subset
  <2>2. SumOf(Price', S) = SumOf(Price, S)
    <3>1. \A i \in S : Price[i] \in Nat /\ Price'[i] = Price[i]
      BY <1>10, <1>11 DEF Weights
    <3> QED
      BY <2>1, <3>1, SumSame
  <2>3. SumOf(FeeOf', S) = SumOf(FeeOf, S)
    <3>1. \A i \in S : FeeOf[i] \in Nat /\ FeeOf'[i] = FeeOf[i]
      BY <1>10, <1>11 DEF Weights
    <3> QED
      BY <2>1, <3>1, SumSame
  <2>4. SumOf(Earned', S) = SumOf(Earned, S)
    <3>1. \A i \in S : Earned[i] \in Nat /\ Earned'[i] = Earned[i]
      BY <1>10, <1>11 DEF Weights
    <3> QED
      BY <2>1, <3>1, SumSame
  <2>5. SumOf(Amount', S) = SumOf(Amount, S) /\ SumOf(Amount, S) \in Nat
    <3>1. \A i \in S : Amount[i] \in Nat /\ Amount'[i] = Amount[i]
      BY <1>10, <1>11 DEF Weights
    <3> QED
      BY <2>1, <3>1, SumSame, SumType
  <2>6. SumOf(Amount', S \cup {k}) = SumOf(Amount', S) + a
    <3>1. k \notin S /\ Weights(Amount', S \cup {k})
      <4>1. IsFiniteSet(S \cup {k})
        BY <2>1, FS_AddElement
      <4>2. \A i \in S \cup {k} : Amount'[i] \in Nat
        BY <1>10, <1>11 DEF Weights
      <4> QED
        BY <1>5, <4>1, <4>2 DEF Weights
    <3>2. S \in SUBSET (S \cup {k}) /\ k \in S \cup {k}
      OBVIOUS
    <3>3. SumOf(Amount', S) \in Nat /\ SumOf(Amount', S \cup {k}) = SumOf(Amount', S) + Amount'[k]
      BY <3>1, <3>2, SumGains
    <3> QED
      BY <1>10, <3>3
  <2> QED
    BY <2>2, <2>3, <2>4, <2>5, <2>6
<1>14. /\ units' \in [Wallets \cup {Contract} -> Int] /\ units'[Contract] = units[Contract] + a
       /\ \A v \in Wallets : units'[v] = units[v] - (IF v = w THEN a ELSE 0)
  <2>1. units' = Move(units, w, Contract, a)
    BY <1>3 DEF List
  <2> QED
    BY <2>1, EscrowAssumption DEF Move, Balances
<1>15. Balances'
  BY <1>4, <1>14 DEF Balances
<1>16. units'[Contract] = SumOf(Amount, Open)' /\ usdc'[Treasury] = SumOf(FeeOf, Sales)'
  <2>1. units[Contract] = SumOf(Amount, Open) /\ usdc[Treasury] = SumOf(FeeOf, Sales)
    BY Books
  <2>2. SumOf(Amount', Open') = SumOf(Amount, Open) + a
    BY <1>9, <1>13
  <2>3. SumOf(FeeOf', Sales') = SumOf(FeeOf, Sales)
    BY <1>8, <1>13
  <2> QED
    BY <1>4, <1>14, <2>1, <2>2, <2>3
<1>17. ASSUME NEW v \in Wallets
       PROVE  /\ usdc'[v] = Purse[v] + SumOf(Earned, SoldBy(v))' - SumOf(Price, BoughtBy(v))'
              /\ units'[v] = Holding[v] + SumOf(Amount, BoughtBy(v))' - SumOf(Amount, HeldBy(v))'
              /\ usdc'[v] >= 0 /\ units'[v] >= 0
  <2>1. /\ usdc[v] = Purse[v] + SumOf(Earned, SoldBy(v)) - SumOf(Price, BoughtBy(v)) /\ usdc[v] >= 0
        /\ units[v] = Holding[v] + SumOf(Amount, BoughtBy(v)) - SumOf(Amount, HeldBy(v))
        /\ units[v] >= 0 /\ units[v] \in Int /\ Holding[v] \in Nat
    BY Books
  <2>2. /\ SumOf(Earned, SoldBy(v))' = SumOf(Earned, SoldBy(v))
        /\ SumOf(Price, BoughtBy(v))' = SumOf(Price, BoughtBy(v))
        /\ SumOf(Amount, BoughtBy(v))' = SumOf(Amount, BoughtBy(v))
        /\ SumOf(Amount, BoughtBy(v)) \in Nat
    BY <1>8, <1>13
  <2>3. /\ v = w => SumOf(Amount, HeldBy(v))' = SumOf(Amount, HeldBy(v)) + a
        /\ v # w => SumOf(Amount, HeldBy(v))' = SumOf(Amount, HeldBy(v))
        /\ SumOf(Amount, HeldBy(v)) \in Nat
    BY <1>9, <1>13
  <2>4. PICK y \in Nat, z \in Nat : y = SumOf(Amount, BoughtBy(v)) /\ z = SumOf(Amount, HeldBy(v))
    BY <2>2, <2>3
  <2>5. units'[v] = Holding[v] + y - SumOf(Amount, HeldBy(v))' /\ units'[v] >= 0
    BY <1>3, <1>14, <2>1, <2>3, <2>4
  <2> QED
    BY <1>4, <2>1, <2>2, <2>4, <2>5
<1> QED
  BY <1>7, <1>15, <1>16, <1>17 DEF FundsFlow, Open

LEMMA FlowStays ==
  ASSUME FlowIInv, UNCHANGED <<feeBps, escrowed, usdc, units, ended>>
  PROVE  FeesOK' /\ Balances' /\ FundsFlow'
<1>1. Ids' = Ids /\ Sales' = Sales /\ Open' = Open
  BY DEF Ids, Sales, Open
<1>2. Price' = Price /\ FeeOf' = FeeOf /\ Amount' = Amount
  BY <1>1 DEF Price, FeeOf, Fee, Amount
<1>3. Earned' = Earned
  BY <1>1, <1>2 DEF Earned
<1>4. \A v : BoughtBy(v)' = BoughtBy(v) /\ SoldBy(v)' = SoldBy(v) /\ HeldBy(v)' = HeldBy(v)
  BY <1>1 DEF BoughtBy, SoldBy, HeldBy
<1>5. FeesOK' /\ Balances'
  BY <1>1 DEF FlowIInv, FeesOK, Balances
<1>6. FundsFlow'
  BY <1>1, <1>2, <1>3, <1>4 DEF FlowIInv, FundsFlow, Open
<1> QED
  BY <1>5, <1>6

\* Before the contract knows its fee there is nothing to sum.
LEMMA InitContractFlows ==
  ASSUME FlowIInv, InitContract
  PROVE  FeesOK' /\ Balances' /\ FundsFlow'
<1>1. Ids = {} /\ Ids' = Ids
  BY DEF InitContract, FlowIInv, FeesOK, Ids
<1>2. /\ Sales = {} /\ Open = {} /\ Sales' = {} /\ Open' = {}
      /\ \A v : BoughtBy(v) = {} /\ SoldBy(v) = {} /\ HeldBy(v) = {}
      /\ \A v : BoughtBy(v)' = {} /\ SoldBy(v)' = {} /\ HeldBy(v)' = {}
  BY <1>1 DEF Sales, Open, BoughtBy, SoldBy, HeldBy
<1>3. FeesOK' /\ Balances'
  BY <1>1, EscrowAssumption DEF InitContract, FlowIInv, FeesOK, Balances, MaxFeeBps
<1>4. UNCHANGED <<usdc, units>>
  BY DEF InitContract
<1>5. \A f : SumOf(f, {}) = 0
  BY SumEmpty
<1>6. /\ units[Contract] = 0 /\ usdc[Treasury] = 0
      /\ \A v \in Wallets : usdc[v] = Purse[v] /\ units[v] = Holding[v]
                            /\ Purse[v] \in Nat /\ Holding[v] \in Nat
  BY <1>2, <1>5, Books
<1>7. FundsFlow'
  <2>1. SumOf(Amount, Open)' = 0 /\ SumOf(FeeOf, Sales)' = 0
    BY <1>2, <1>5
  <2>2. \A v : /\ SumOf(Earned, SoldBy(v))' = 0 /\ SumOf(Price, BoughtBy(v))' = 0
               /\ SumOf(Amount, BoughtBy(v))' = 0 /\ SumOf(Amount, HeldBy(v))' = 0
    BY <1>2, <1>5
  <2> QED
    BY <1>4, <1>6, <2>1, <2>2 DEF FundsFlow, Open
<1> QED
  BY <1>3, <1>7

LEMMA InitFlow == InitEscrow => FlowIInv
<1> SUFFICES ASSUME InitEscrow PROVE FlowIInv
  OBVIOUS
<1>1. Ids = {}
  BY DEF InitEscrow, Ids
<1>2. /\ Sales = {} /\ Open = {}
      /\ \A v : BoughtBy(v) = {} /\ SoldBy(v) = {} /\ HeldBy(v) = {}
  BY <1>1 DEF Sales, Open, BoughtBy, SoldBy, HeldBy
<1>3. Balances /\ FeesOK
  BY <1>1, EscrowAssumption DEF InitEscrow, Balances, FeesOK
<1>4. /\ units[Contract] = 0 /\ usdc[Treasury] = 0
      /\ \A v \in Wallets : usdc[v] = Purse[v] /\ units[v] = Holding[v]
                            /\ Purse[v] \in Nat /\ Holding[v] \in Nat
  BY EscrowAssumption DEF InitEscrow
<1>5. \A f : SumOf(f, {}) = 0
  BY SumEmpty
<1>6. FundsFlow
  <2>1. SumOf(Amount, Open) = 0 /\ SumOf(FeeOf, Sales) = 0
    BY <1>2, <1>5
  <2>2. \A v : /\ SumOf(Earned, SoldBy(v)) = 0 /\ SumOf(Price, BoughtBy(v)) = 0
               /\ SumOf(Amount, BoughtBy(v)) = 0 /\ SumOf(Amount, HeldBy(v)) = 0
    BY <1>2, <1>5
  <2> QED
    BY <1>4, <2>1, <2>2 DEF FundsFlow, Open
<1> QED
  BY <1>3, <1>6, InitEscrowStep DEF FlowIInv

LEMMA IncludeFlows ==
  ASSUME FlowIInv, NEW tx \in wire, Include(tx)
  PROVE  FeesOK' /\ Balances' /\ FundsFlow'
<1>1. tx.who \in Wallets /\ tx.op \in {"buy", "cancel"}
  BY EscrowAssumption DEF FlowIInv, EIInv, EscrowShapes, Tx
<1>2. PICK runs \in BOOLEAN : runs <=> CanRun(tx.who, tx.op, tx.id)
  OBVIOUS
<1>3. CASE runs
  <2>1. tx.id \in Ids /\ escrowed[tx.id].active
    BY <1>2, <1>3 DEF CanRun, CanBuy, CanCancel
  <2>2. ended' = [ended EXCEPT ![tx.id] = tx] /\ UNCHANGED feeBps
    BY <1>2, <1>3 DEF Include
  <2>3. CASE tx.op = "buy"
    BY <1>1, <1>2, <1>3, <2>1, <2>2, <2>3, BuyFlows DEF Include, CanRun
  <2>4. CASE tx.op = "cancel"
    BY <1>2, <1>3, <2>1, <2>2, <2>4, CancelFlows DEF Include
  <2> QED
    BY <1>1, <2>3, <2>4
<1>4. CASE ~runs
  BY <1>2, <1>4, FlowStays DEF Include
<1> QED
  BY <1>3, <1>4

LEMMA DirectFlows ==
  ASSUME FlowIInv, NEW w \in Wallets, NEW op \in {"buy", "cancel"}, NEW l, Direct(w, op, l)
  PROVE  FeesOK' /\ Balances' /\ FundsFlow'
<1> DEFINE e == [who |-> w, op |-> op]
<1>1. e.who = w /\ e.op = op
  OBVIOUS
<1>2. l \in Ids /\ escrowed[l].active
  BY DEF Direct, CanRun, CanBuy, CanCancel
<1>3. ended' = [ended EXCEPT ![l] = e] /\ UNCHANGED feeBps
  BY DEF Direct
<1> HIDE DEF e
<1>4. CASE op = "buy"
  <2>1. CanBuy(w, l) /\ Bought(w, l)
    BY <1>4 DEF Direct, CanRun
  <2> QED
    BY <1>1, <1>2, <1>3, <1>4, <2>1, BuyFlows
<1>5. CASE op = "cancel"
  BY <1>1, <1>2, <1>3, <1>5, CancelFlows DEF Direct
<1> QED
  BY <1>4, <1>5

\* The contract holds the assets of the listings that are open and nothing else; every
\* trader has what the trades that were made say, to the last unit, the fees included,
\* and nobody's balance falls below zero (list, buy, cancel): for any traders, offers,
\* fees up to the cap and order of calls, by the panel or by hand.
THEOREM FundsFlowRightly == SpecEscrow => []FundsFlow
<1>1. FlowIInv /\ [NextEscrow]_escrowVars => FlowIInv'
  <2> SUFFICES ASSUME FlowIInv, [NextEscrow]_escrowVars PROVE FlowIInv'
    OBVIOUS
  <2>1. EIInv'
    BY NextEscrowStep DEF FlowIInv
  <2>2. CASE UNCHANGED <<feeBps, escrowed, usdc, units, ended>>
    BY <2>1, <2>2, FlowStays DEF FlowIInv
  <2>3. CASE InitContract
    BY <2>1, <2>3, InitContractFlows DEF FlowIInv
  <2>4. ASSUME NEW w \in Wallets, NEW offer \in Offers[w], List(w, offer) PROVE FlowIInv'
    BY <2>1, <2>4, ListFlows DEF FlowIInv
  <2>5. ASSUME NEW w \in Wallets, NEW op \in {"buy", "cancel"}, NEW l \in 1..MaxListings,
               Direct(w, op, l)
        PROVE FlowIInv'
    BY <2>1, <2>5, DirectFlows DEF FlowIInv
  <2>6. ASSUME NEW tx \in wire, Include(tx) PROVE FlowIInv'
    BY <2>1, <2>6, IncludeFlows DEF FlowIInv
  <2>7. CASE LedgerCloses \/ (\E tx \in wire : Expire(tx)) \/ UNCHANGED escrowVars
    BY <2>2, <2>7 DEF LedgerCloses, Expire, escrowVars, contractVars, chainVars
  <2>8. CASE \E w \in Panels, l \in 1..MaxListings : Type(w, l)
    BY <2>2, <2>8 DEF Type, contractVars, chainVars
  <2>9. ASSUME NEW w \in Panels, Fetch(w) \/ Show(w) \/ Click(w) \/ Send(w) \/ Poll(w) \/ Refresh(w)
        PROVE FlowIInv'
    BY <2>2, <2>9 DEF Fetch, Show, Click, Send, Poll, Refresh, contractVars, chainVars
  <2> QED
    BY <2>2, <2>3, <2>4, <2>5, <2>6, <2>7, <2>8, <2>9 DEF NextEscrow
<1>2. FlowIInv => FundsFlow
  BY DEF FlowIInv
<1> QED
  BY <1>1, <1>2, InitFlow, PTL DEF SpecEscrow

-----------------------------------------------------------------------------
(* The controls.                                                           *)

Controls == [on : SUBSET Pedals, steer : -1..1]

\* A hook and an overlay that are not there hear no key and feel no finger.
InputIInv ==
  /\ InputInv
  /\ input \in Controls /\ adrift \in Controls
  /\ ~mounted => keys = {}

LEMMA KeysControl ==
  ASSUME NEW k
  PROVE  /\ FromKeys(k) \in Controls
         /\ \A p \in FromKeys(k).on : KeyFor[p] \cap k # {}
         /\ FromKeys(k).steer # 0 => (Left \cup Right) \cap k # {}
<1>1. (IF Left \cap k # {} THEN 1 ELSE 0) - (IF Right \cap k # {} THEN 1 ELSE 0) \in -1..1
  OBVIOUS
<1> QED
  BY <1>1 DEF FromKeys, Controls

LEMMA KeyStep ==
  ASSUME InputIInv, NEW k, Heard(k), UNCHANGED <<fingers, mounted, overlay>>
  PROVE  InputIInv'
<1>1. CASE mounted
  <2>1. keys' = k /\ input' = FromKeys(k) /\ adrift' = Neutral
    BY <1>1 DEF Heard
  <2>2. Neutral \in Controls
    BY DEF Neutral, Controls
  <2>3. /\ input'.on \subseteq Pedals /\ input'.steer \in -1..1
    BY <2>1, KeysControl DEF Controls
  <2>4. CarObeys'
    BY <2>1, KeysControl DEF CarObeys
  <2>5. InputTypeOK'
    BY <1>1, <2>3 DEF InputIInv, InputInv, InputTypeOK
  <2> QED
    BY <1>1, <2>1, <2>2, <2>4, <2>5, KeysControl DEF InputIInv, InputInv
<1>2. CASE ~mounted
  BY <1>2 DEF Heard, InputIInv, InputInv, InputTypeOK, CarObeys
<1> QED
  BY <1>1, <1>2

LEMMA PedalStep ==
  ASSUME InputIInv, NEW p \in Pedals, PedalDown(p) \/ PedalUp(p)
  PROVE  InputIInv'
<1>0. p # Stick
  BY RaceInputAssumption
<1>1. CASE PedalDown(p)
  <2>1. /\ input' \in Controls /\ input'.on = input.on \cup {p} /\ input'.steer = input.steer
        /\ fingers' = fingers \cup {p} /\ UNCHANGED <<keys, mounted, overlay, adrift>> /\ overlay.shown
    BY <1>1 DEF PedalDown, InputIInv, Controls
  <2>2. CarObeys'
    BY <2>1 DEF InputIInv, InputInv, CarObeys
  <2>3. InputTypeOK'
    BY <2>1 DEF InputIInv, InputInv, InputTypeOK
  <2> QED
    BY <2>1, <2>2, <2>3 DEF InputIInv, InputInv
<1>2. CASE PedalUp(p)
  <2>1. /\ input' \in Controls /\ input'.on = input.on \ {p} /\ input'.steer = input.steer
        /\ adrift' \in Controls /\ adrift'.on = adrift.on \ {p} /\ adrift'.steer = adrift.steer
        /\ fingers' = fingers \ {p} /\ UNCHANGED <<keys, mounted, overlay>>
    BY <1>2 DEF PedalUp, InputIInv, Controls
  <2>2. CarObeys'
    BY <1>0, <2>1 DEF InputIInv, InputInv, CarObeys
  <2>3. InputTypeOK'
    BY <2>1 DEF InputIInv, InputInv, InputTypeOK
  <2> QED
    BY <2>1, <2>2, <2>3 DEF InputIInv, InputInv
<1> QED
  BY <1>1, <1>2

LEMMA StickStep ==
  ASSUME InputIInv, JoystickEnd \/ \E d \in -1..1 : Steer(d)
  PROVE  InputIInv'
<1>0. \A p \in Pedals : p # Stick
  BY RaceInputAssumption
<1>1. ASSUME NEW d \in -1..1, Steer(d) PROVE InputIInv'
  <2>1. /\ input' \in Controls /\ input'.on = input.on /\ input'.steer = d
        /\ adrift' \in Controls /\ adrift'.on = adrift.on
        /\ fingers' = fingers \cup {Stick} /\ UNCHANGED <<keys, mounted, overlay>> /\ overlay.shown
    BY <1>1 DEF Steer, InputIInv, Controls
  <2>2. CarObeys'
    BY <2>1 DEF InputIInv, InputInv, CarObeys
  <2>3. InputTypeOK'
    BY <2>1 DEF InputIInv, InputInv, InputTypeOK
  <2> QED
    BY <2>1, <2>2, <2>3 DEF InputIInv, InputInv
<1>2. CASE JoystickEnd
  <2>1. /\ input' \in Controls /\ input'.on = input.on /\ input'.steer = 0
        /\ adrift' \in Controls /\ adrift'.on = adrift.on
        /\ fingers' = fingers \ {Stick} /\ UNCHANGED <<keys, mounted, overlay>>
    BY <1>2 DEF JoystickEnd, LetGo, InputIInv, Controls
  <2>2. CarObeys'
    BY <1>0, <2>1 DEF InputIInv, InputInv, CarObeys, Controls
  <2>3. InputTypeOK'
    BY <2>1 DEF InputIInv, InputInv, InputTypeOK
  <2> QED
    BY <2>1, <2>2, <2>3 DEF InputIInv, InputInv
<1> QED
  BY <1>1, <1>2

LEMMA HideStep ==
  ASSUME InputIInv, HideOverlay
  PROVE  InputIInv'
<1>0. \A p \in Pedals : p # Stick
  BY RaceInputAssumption
<1>1. /\ adrift' \in Controls /\ adrift'.on = adrift.on \cup (fingers \cap input.on)
      /\ adrift'.steer = IF Stick \in fingers THEN input.steer ELSE adrift.steer
      /\ fingers' = {} /\ UNCHANGED <<input, keys, mounted>>
  BY DEF HideOverlay, InputIInv, Controls
<1>2. CarObeys'
  BY <1>1 DEF InputIInv, InputInv, CarObeys, Controls
<1>3. InputTypeOK'
  BY <1>1 DEF InputIInv, InputInv, InputTypeOK, Controls
<1> QED
  BY <1>1, <1>2, <1>3 DEF InputIInv, InputInv

LEMMA NextInputStep == InputIInv /\ [NextInput]_inputVars => InputIInv'
<1> SUFFICES ASSUME InputIInv, [NextInput]_inputVars PROVE InputIInv'
  OBVIOUS
<1>1. ASSUME NEW k \in Keys, KeyDown(k) \/ KeyUp(k) PROVE InputIInv'
  BY <1>1, KeyStep DEF KeyDown, KeyUp
<1>2. ASSUME NEW p \in Pedals, PedalDown(p) \/ PedalUp(p) PROVE InputIInv'
  BY <1>2, PedalStep
<1>3. CASE JoystickEnd \/ \E d \in -1..1 : Steer(d)
  BY <1>3, StickStep
<1>7. CASE HideOverlay
  BY <1>7, HideStep
<1>4. CASE Blur \/ Mount \/ ShowOverlay
  BY <1>4 DEF Blur, Mount, ShowOverlay, InputIInv, InputInv, InputTypeOK, CarObeys
<1>5. CASE Unmounted
  BY <1>5 DEF Unmounted, NoOverlay, InputIInv, InputInv, InputTypeOK, CarObeys, Controls
<1>6. CASE UNCHANGED inputVars
  BY <1>6 DEF inputVars, InputIInv, InputInv, InputTypeOK, CarObeys
<1> QED
  BY <1>1, <1>2, <1>3, <1>4, <1>5, <1>6, <1>7 DEF NextInput

\* Whatever keys go down and up, and whichever fingers come and go, as one car after the
\* other is on screen: no pedal is on and no wheel turned but by a key that was heard, a
\* finger, or as the last car, or the overlay, left it.
THEOREM CarsObey == InitInput /\ [][NextInput]_inputVars => []InputInv
<1>1. InitInput => InputIInv
  BY DEF InitInput, Neutral, InputIInv, InputInv, InputTypeOK, CarObeys, Controls
<1>2. InputIInv => InputInv
  BY DEF InputIInv
<1> QED
  BY <1>1, <1>2, NextInputStep, PTL

-----------------------------------------------------------------------------
(* The race on screen.                                                     *)

Phases == {"WAITING", "COUNTDOWN", "RACING", "FINISHED"}
View == [n : Nat, kind : {"none", "solo", "online"}, last : Nat, rewarded : BOOLEAN, pre : Nat,
         entered : Phases, settled : BOOLEAN, behind : SUBSET Views, traded : Nat]
Store == [phase : Phases, of : Nat, results : [of : Nat, earned : Nat]]

ViewShapes ==
  /\ view \in View /\ store \in Store /\ purse \in [api : Nat, shown : Nat]
  /\ session \in [Views -> {"none", "connecting", "open", "leaving", "gone"}]
  /\ heard \in [Views -> Phases]
  /\ rewards \subseteq [of : Nat, pre : Nat] /\ unreported \subseteq Views

\* Who may write to the store.
Mine(n) == n = view.n \/ n \in view.behind

\* Views are entered one after the other; a timer is that of the view on screen, and a
\* session that is not over that of the view, or known to it.
ViewsInTurn ==
  /\ view.n = view.last /\ view.last <= MaxViews
  /\ timers \subseteq {view.n} /\ (view.kind = "none" => timers = {})
  /\ \A n \in Views : n > view.last => session[n] = "none" /\ heard[n] = "WAITING"
  /\ \A n \in Views : session[n] \in {"none", "gone"} \/ Mine(n)

Written ==
  /\ store.of <= view.last
  /\ view.kind # "none" => Mine(store.of) /\ (store.results.of = 0 \/ Mine(store.results.of))

\* A view that was entered when all was over, of credits that only races move, sees its own
\* race's reward come in, once.
Still == view.settled /\ view.traded # view.n
Undisturbed ==
  /\ store.results.earned \in {0, Reward}
  /\ \A w \in rewards : w.pre = view.pre
  /\ \A n \in Views : n # view.n => session[n] \in {"none", "gone"}
  /\ unreported \subseteq {view.n}
  /\ purse.api \in {view.pre, view.pre + Reward}
  /\ view.n \in unreported => purse.api = view.pre /\ heard[view.n] = "FINISHED"
  /\ view.n \in Views /\ heard[view.n] # "FINISHED" => purse.api = view.pre

ViewIInv ==
  /\ ViewShapes /\ ViewsInTurn /\ Written /\ NobodySits
  /\ Still => Undisturbed

LEMMA Settles == \E s \in BOOLEAN : s = Settled
BY DEF Settled

Anew(s, n) == s \in Store /\ s.of = n /\ s.results.of = 0 /\ s.results.earned = 0

LEMMA StartsAnew ==
  ASSUME NEW n \in Nat
  PROVE  Anew([Reset EXCEPT !.phase = "COUNTDOWN", !.of = n], n) /\ Anew([Reset EXCEPT !.of = n], n)
<1>1. Reset \in Store /\ Reset.results.of = 0 /\ Reset.results.earned = 0
  BY DEF Reset, Store, Phases
<1>2. \A s \in Store : /\ [s EXCEPT !.of = n] \in Store
                       /\ [s EXCEPT !.of = n].of = n /\ [s EXCEPT !.of = n].results = s.results
  BY DEF Store
<1>3. \A s \in Store : LET new == [s EXCEPT !.phase = "COUNTDOWN", !.of = n]
                       IN new \in Store /\ new.of = n /\ new.results = s.results
  BY DEF Store, Phases
<1> QED
  BY <1>1, <1>2, <1>3 DEF Anew

\* A view is entered, and the store starts anew.
LEMMA EnterStep ==
  ASSUME ViewIInv, NEW kind \in {"solo", "online"}, Enter(kind),
         view'.n \in Nat => Anew(store', view'.n),
         UNCHANGED <<heard, rewards, purse, unreported>>,
         timers' \subseteq timers \cup {view'.n},
         session' = session \/ session' = [session EXCEPT ![view'.n] = "connecting"]
  PROVE  ViewIInv'
<1>0. PICK s \in BOOLEAN : s = Settled
  BY Settles
<1>1. /\ view.kind = "none" /\ view.last < MaxViews
      /\ view' = [n |-> view.last + 1, kind |-> kind, last |-> view.last + 1, rewarded |-> FALSE,
                  pre |-> purse.shown, entered |-> store.phase, settled |-> s,
                  behind |-> Behind, traded |-> view.traded]
  BY <1>0 DEF Enter
<1>2. view \in View /\ store \in Store /\ purse.shown \in Nat /\ purse.api \in Nat /\ MaxViews \in Nat
  BY RaceViewAssumption DEF ViewIInv, ViewShapes
<1>3. /\ view'.n = view.last + 1 /\ view'.last = view.last + 1 /\ view'.kind = kind
      /\ view'.pre = purse.shown /\ view'.settled = s /\ view'.behind = Behind /\ view' \in View
      /\ view.last \in Nat /\ view'.n \in Views
  <2>1. view.last \in Nat /\ store.phase \in Phases
    BY <1>2 DEF View, Store
  <2>2. view' \in View
    BY <1>1, <1>2, <2>1 DEF View, Behind
  <2> QED
    BY <1>1, <1>2, <2>1, <2>2 DEF Views
<1>4. store' \in Store /\ store'.of = view'.n /\ store'.results.of = 0 /\ store'.results.earned = 0
  <2>1. view'.n \in Nat
    BY <1>3
  <2> QED
    BY <2>1 DEF Anew
<1>5. \A n \in Views : n # view'.n => session'[n] = session[n]
  BY <1>3 DEF ViewIInv, ViewShapes
<1>6. session'[view'.n] \in {"none", "connecting"} /\ heard[view'.n] = "WAITING"
  <2>1. session[view'.n] = "none" /\ heard[view'.n] = "WAITING"
    BY <1>3 DEF ViewIInv, ViewsInTurn
  <2>2. session \in [Views -> {"none", "connecting", "open", "leaving", "gone"}]
    BY DEF ViewIInv, ViewShapes
  <2> QED
    BY <1>3, <2>1, <2>2
<1>7. ViewShapes'
  BY <1>2, <1>3, <1>4, <1>6 DEF ViewIInv, ViewShapes
<1>8. ViewsInTurn'
  <2>1. timers = {}
    BY <1>1 DEF ViewIInv, ViewsInTurn
  <2>2. \A n \in Views : n > view'.last => session'[n] = "none" /\ heard'[n] = "WAITING"
    BY <1>3, <1>5 DEF ViewIInv, ViewsInTurn, Views
  <2>3. \A n \in Views : session'[n] \in {"none", "gone"} \/ Mine(n)'
    BY <1>3, <1>5 DEF Mine, Behind
  <2> QED
    BY <1>1, <1>2, <1>3, <2>1, <2>2, <2>3 DEF ViewsInTurn
<1>9. Written'
  BY <1>3, <1>4 DEF Written, Mine
<1>10. NobodySits'
  <2>1. \A n \in Views : session[n] # "open"
    BY <1>1 DEF ViewIInv, NobodySits, OnScreen
  <2> QED
    BY <1>5, <1>6, <2>1 DEF NobodySits
<1>11. ASSUME s PROVE Undisturbed'
  <2>1. /\ purse.shown = purse.api /\ unreported = {} /\ rewards = {}
        /\ \A n \in Views : session[n] \in {"none", "gone"}
    BY <1>0, <1>11 DEF Settled, Behind
  <2> QED
    BY <1>2, <1>3, <1>4, <1>5, <2>1 DEF Undisturbed, Still
<1>12. Still' => Undisturbed'
  BY <1>3, <1>11 DEF Still
<1> QED
  BY <1>7, <1>8, <1>9, <1>10, <1>12 DEF ViewIInv

LEMMA UnmountStep ==
  ASSUME ViewIInv, Unmount
  PROVE  ViewIInv'
<1>1. /\ view' = [view EXCEPT !.kind = "none"] /\ timers' = timers \ {view.n}
      /\ session' = [session EXCEPT ![view.n] = IF @ = "open" THEN "leaving" ELSE @]
      /\ UNCHANGED <<store, heard, rewards, purse, unreported>>
  BY DEF Unmount, ClearTimer
<1>2. /\ view' \in View /\ view'.kind = "none" /\ view'.n = view.n /\ view'.last = view.last
      /\ view'.pre = view.pre /\ view'.settled = view.settled
      /\ view'.behind = view.behind /\ view'.traded = view.traded
  BY <1>1 DEF ViewIInv, ViewShapes, View
<1>3. /\ session' \in [Views -> {"none", "connecting", "open", "leaving", "gone"}]
      /\ \A n \in Views : /\ n # view.n => session'[n] = session[n]
                          /\ session'[n] \in {session[n], "leaving"}
                          /\ session'[n] = "none" <=> session[n] = "none"
                          /\ session'[view.n] # "open" \/ n # view.n
  BY <1>1 DEF ViewIInv, ViewShapes
<1>4. ViewShapes'
  BY <1>1, <1>2, <1>3 DEF ViewIInv, ViewShapes
<1>5. ViewsInTurn'
  BY <1>1, <1>2, <1>3 DEF ViewIInv, ViewsInTurn, Mine
<1>6. Written'
  BY <1>1, <1>2 DEF ViewIInv, Written
<1>7. NobodySits'
  BY <1>2, <1>3 DEF ViewIInv, NobodySits, OnScreen
<1>8. Still' => Undisturbed'
  BY <1>1, <1>2, <1>3 DEF ViewIInv, Undisturbed, Still
<1> QED
  BY <1>4, <1>5, <1>6, <1>7, <1>8 DEF ViewIInv

\* Somebody who may writes to the store.
LEMMA StoreStep ==
  ASSUME ViewIInv, store' \in Store, Mine(store'.of), store'.of <= view.last,
         \/ store'.results = store.results
         \/ Mine(store'.results.of) /\ store'.results.earned = 0,
         timers' \subseteq timers, UNCHANGED <<view, session, heard, rewards, purse, unreported>>
  PROVE  ViewIInv'
<1>1. ViewShapes' /\ ViewsInTurn' /\ NobodySits'
  BY DEF ViewIInv, ViewShapes, ViewsInTurn, Mine, NobodySits, OnScreen
<1>2. Written'
  BY DEF ViewIInv, Written, Mine
<1>3. store'.results.earned = store.results.earned \/ store'.results.earned = 0
  OBVIOUS
<1>4. Still' => Undisturbed'
  BY <1>3 DEF ViewIInv, Undisturbed, Still
<1> QED
  BY <1>1, <1>2, <1>4 DEF ViewIInv

LEMMA Patched ==
  ASSUME store \in Store, NEW n \in Nat, NEW phase \in Phases, Patch(n, phase)
  PROVE  store' \in Store /\ store'.of = n /\ store'.results = store.results
BY DEF Patch, Store

LEMMA SoloStep ==
  ASSUME ViewIInv, FinishSolo \/ \E n \in Views : CountdownOver(n)
  PROVE  ViewIInv'
<1>0. store \in Store /\ view.n \in Nat /\ view.n <= view.last
  BY DEF ViewIInv, ViewShapes, View, ViewsInTurn
<1>1. ASSUME NEW n \in Views, CountdownOver(n) PROVE ViewIInv'
  <2>1. n = view.n /\ Patch(n, "RACING") /\ timers' \subseteq timers
        /\ UNCHANGED <<view, session, heard, rewards, purse, unreported>>
    BY <1>1 DEF CountdownOver, ViewIInv, ViewsInTurn
  <2>2. store' \in Store /\ store'.of = n /\ store'.results = store.results
    BY <1>0, <2>1, Patched DEF Phases
  <2>3. Mine(store'.of)
    BY <2>1, <2>2 DEF Mine
  <2> QED
    BY <1>0, <2>1, <2>2, <2>3, StoreStep
<1>2. CASE FinishSolo
  <2>1. /\ store' = [phase |-> "FINISHED", of |-> view.n, results |-> [of |-> view.n, earned |-> 0]]
        /\ UNCHANGED <<view, session, heard, timers, rewards, purse, unreported>>
    BY <1>2 DEF FinishSolo
  <2>2. store' \in Store /\ store'.of = view.n /\ store'.results.of = view.n /\ store'.results.earned = 0
    BY <1>0, <2>1 DEF Store, Phases
  <2>3. Mine(store'.of) /\ Mine(store'.results.of)
    BY <2>2 DEF Mine
  <2> QED
    BY <1>0, <2>1, <2>2, <2>3, StoreStep
<1> QED
  BY <1>1, <1>2

LEMMA FollowedBy ==
  ASSUME NEW p \in DOMAIN Following
  PROVE  Following[p] \in Phases /\ p # "FINISHED" /\ Following[p] # "WAITING"
BY DEF Following, Phases

\* A session gets on, or is left.
LEMMA SessionStep ==
  ASSUME ViewIInv, NEW n \in Views, session[n] # "none", session[n] # "gone",
         NEW to \in {"open", "leaving", "gone"}, to = "open" => OnScreen(n),
         session' = [session EXCEPT ![n] = to],
         UNCHANGED <<view, heard, timers, rewards, purse, unreported>>,
         store' \in Store, store'.results = store.results,
         store'.of = store.of \/ store'.of = n
  PROVE  ViewIInv'
<1>0. view.n \in Nat /\ view.last \in Nat /\ view.n = view.last /\ n \in Nat /\ n >= 1
  BY DEF ViewIInv, ViewShapes, View, ViewsInTurn, Views
<1>1. /\ session' \in [Views -> {"none", "connecting", "open", "leaving", "gone"}]
      /\ session'[n] = to /\ \A m \in Views : m # n => session'[m] = session[m]
      /\ \A m \in Views : session[m] # "none" => session'[m] # "none"
  BY DEF ViewIInv, ViewShapes
<1>2. n <= view.last
  BY <1>0 DEF ViewIInv, ViewsInTurn
<1>3. ViewShapes'
  BY <1>1 DEF ViewIInv, ViewShapes
<1>4. ViewsInTurn'
  BY <1>0, <1>1, <1>2 DEF ViewIInv, ViewsInTurn, Mine
<1>5. \A m : Mine(m) => Mine(m)'
  BY DEF Mine
<1>6. Mine(n)'
  BY <1>5 DEF ViewIInv, ViewsInTurn
<1>7. Written'
  BY <1>2, <1>5, <1>6 DEF ViewIInv, Written
<1>8. NobodySits'
  BY <1>1 DEF ViewIInv, NobodySits, OnScreen
<1>9. Still' => Undisturbed'
  BY <1>1 DEF ViewIInv, Undisturbed, Still
<1> QED
  BY <1>3, <1>4, <1>7, <1>8, <1>9 DEF ViewIInv

LEMMA SeatStep ==
  ASSUME ViewIInv, NEW n \in Views, Joined(n) \/ ConnectFails(n) \/ Gone(n)
  PROVE  ViewIInv'
<1>0. store \in Store /\ n \in Nat
  BY DEF ViewIInv, ViewShapes, Views
<1>1. CASE Joined(n)
  <2>1. Patch(n, "WAITING") /\ session[n] = "connecting"
        /\ UNCHANGED <<view, heard, timers, rewards, purse, unreported>>
    BY <1>1 DEF Joined
  <2>2. store' \in Store /\ store'.of = n /\ store'.results = store.results
    BY <1>0, <2>1, Patched DEF Phases
  <2>3. PICK to \in {"open", "leaving", "gone"} : (to = "open" => OnScreen(n)) /\ session' = [session EXCEPT ![n] = to]
    <3>1. CASE OnScreen(n)
      BY <1>1, <3>1 DEF Joined
    <3>2. CASE ~OnScreen(n)
      BY <1>1, <3>2 DEF Joined
    <3> QED
      BY <3>1, <3>2
  <2> QED
    BY <2>1, <2>2, <2>3, SessionStep
<1>2. CASE ConnectFails(n) \/ Gone(n)
  <2>1. /\ session[n] \in {"connecting", "leaving"} /\ session' = [session EXCEPT ![n] = "gone"]
        /\ UNCHANGED <<view, store, heard, timers, rewards, purse, unreported>>
    BY <1>2 DEF ConnectFails, Gone
  <2> QED
    BY <1>0, <2>1, SessionStep
<1> QED
  BY <1>1, <1>2

\* The message of a phase comes in; the last one has a result to be reported.
LEMMA PhaseStep ==
  ASSUME ViewIInv, NEW n \in Views, RacePhase(n)
  PROVE  ViewIInv'
<1>0. /\ store \in Store /\ n \in Nat /\ n >= 1 /\ n <= view.last /\ view.n = view.last /\ view.n \in Nat
      /\ heard[n] \in DOMAIN Following
  BY DEF ViewIInv, ViewShapes, View, ViewsInTurn, Views, RacePhase
<1>1. PICK p \in Phases : p = Following[heard[n]] /\ p # "WAITING" /\ heard[n] # "FINISHED"
  BY <1>0, FollowedBy
<1>2. /\ session[n] \in {"open", "leaving"} /\ heard' = [heard EXCEPT ![n] = p] /\ Patch(n, p)
      /\ unreported' = IF p = "FINISHED" THEN unreported \cup {n} ELSE unreported
      /\ UNCHANGED <<view, session, timers, rewards, purse>>
  BY <1>1 DEF RacePhase
<1>3. store' \in Store /\ store'.of = n /\ store'.results = store.results
  BY <1>0, <1>2, Patched
<1>4. heard' \in [Views -> Phases] /\ heard'[n] = p /\ \A m \in Views : m # n => heard'[m] = heard[m]
  BY <1>2 DEF ViewIInv, ViewShapes
<1>5. ViewShapes'
  BY <1>2, <1>3, <1>4 DEF ViewIInv, ViewShapes
<1>6. ViewsInTurn'
  BY <1>0, <1>2, <1>4 DEF ViewIInv, ViewsInTurn, Mine, Views
<1>7. Written'
  BY <1>0, <1>2, <1>3 DEF ViewIInv, ViewsInTurn, Written, Mine
<1>8. NobodySits'
  BY <1>2 DEF ViewIInv, NobodySits, OnScreen
<1>9. ASSUME Still PROVE Undisturbed'
  <2>1. n = view.n
    BY <1>2, <1>9 DEF ViewIInv, Undisturbed, Still
  <2>2. purse.api = view.pre /\ ~(view.n \in unreported)
    BY <1>1, <1>9, <2>1 DEF ViewIInv, Undisturbed, Still
  <2>3. unreported' \subseteq {view.n}
    BY <1>2, <1>9, <2>1 DEF ViewIInv, Undisturbed, Still
  <2>4. view.n \in unreported' => heard'[view.n] = "FINISHED"
    BY <1>2, <1>4, <2>1, <2>2
  <2>5. store'.results.earned \in {0, Reward}
    BY <1>3, <1>9 DEF ViewIInv, Undisturbed, Still
  <2>6. /\ \A w \in rewards : w.pre = view.pre
        /\ \A m \in Views : m # view.n => session[m] \in {"none", "gone"}
    BY <1>9 DEF ViewIInv, Undisturbed, Still
  <2> QED
    BY <1>2, <2>2, <2>3, <2>4, <2>5, <2>6 DEF Undisturbed, Still
<1> QED
  BY <1>2, <1>5, <1>6, <1>7, <1>8, <1>9 DEF ViewIInv, Still

LEMMA ResultStep ==
  ASSUME ViewIInv, NEW n \in Views, RaceResult(n)
  PROVE  ViewIInv'
<1>0. n \in Nat /\ n >= 1 /\ n <= view.last /\ view.n = view.last /\ view.n \in Nat
  BY DEF ViewIInv, ViewShapes, View, ViewsInTurn, Views, RaceResult
<1>1. /\ session[n] \in {"open", "leaving"}
      /\ store' = [phase |-> "FINISHED", of |-> n, results |-> [of |-> n, earned |-> 0]]
      /\ UNCHANGED <<view, session, heard, timers, rewards, purse, unreported>>
  BY DEF RaceResult
<1>2. store' \in Store /\ store'.of = n /\ store'.results.of = n /\ store'.results.earned = 0
  BY <1>0, <1>1 DEF Store, Phases
<1>3. Mine(n)
  BY <1>1 DEF ViewIInv, ViewsInTurn
<1> QED
  BY <1>0, <1>1, <1>2, <1>3, StoreStep

-----------------------------------------------------------------------------
(* Rewards.                                                                *)
LEMMA ReportStep ==
  ASSUME ViewIInv, NEW n \in Views, Report(n)
  PROVE  ViewIInv'
<1>1. /\ n \in unreported /\ unreported' = unreported \ {n}
      /\ purse' = [purse EXCEPT !.api = @ + Reward]
      /\ UNCHANGED <<view, store, session, heard, timers, rewards>>
  BY DEF Report
<1>2. purse' \in [api : Nat, shown : Nat] /\ purse'.api = purse.api + Reward
  BY <1>1, RaceViewAssumption DEF ViewIInv, ViewShapes
<1>3. ViewShapes' /\ ViewsInTurn' /\ Written' /\ NobodySits'
  BY <1>1, <1>2 DEF ViewIInv, ViewShapes, ViewsInTurn, Written, Mine, NobodySits, OnScreen
<1>4. ASSUME Still PROVE Undisturbed'
  <2>1. n = view.n /\ purse.api = view.pre /\ heard[view.n] = "FINISHED"
    BY <1>1, <1>4 DEF ViewIInv, Undisturbed, Still
  <2> QED
    BY <1>1, <1>2, <1>4, <2>1 DEF ViewIInv, Undisturbed, Still
<1> QED
  BY <1>1, <1>3, <1>4 DEF ViewIInv, Still

LEMMA TradeStep ==
  ASSUME ViewIInv, NEW balance \in OtherCredits, Trade(balance)
  PROVE  ViewIInv'
<1>1. /\ view.n # 0 /\ view' = [view EXCEPT !.traded = view.n]
      /\ purse' = [purse EXCEPT !.api = balance]
      /\ UNCHANGED <<store, session, heard, timers, rewards, unreported>>
  BY DEF Trade
<1>0. balance \in Nat
  BY RaceViewAssumption
<1>2. /\ view' \in View /\ view'.n = view.n /\ view'.last = view.last /\ view'.kind = view.kind
      /\ view'.pre = view.pre /\ view'.behind = view.behind /\ view'.traded = view'.n
      /\ purse' \in [api : Nat, shown : Nat]
  BY <1>0, <1>1 DEF ViewIInv, ViewShapes, View
<1>3. ViewShapes' /\ ViewsInTurn' /\ Written' /\ NobodySits'
  BY <1>1, <1>2 DEF ViewIInv, ViewShapes, ViewsInTurn, Written, Mine, NobodySits, OnScreen
<1> QED
  BY <1>2, <1>3 DEF ViewIInv, Still

LEMMA SeeStep ==
  ASSUME ViewIInv, SeesFinish
  PROVE  ViewIInv'
<1>1. /\ view' = [view EXCEPT !.rewarded = TRUE] /\ rewards' = rewards \cup {[of |-> view.n, pre |-> view.pre]}
      /\ UNCHANGED <<store, session, heard, timers, purse, unreported>>
  BY DEF SeesFinish
<1>2. /\ view' \in View /\ view'.n = view.n /\ view'.last = view.last /\ view'.kind = view.kind
      /\ view'.pre = view.pre /\ view'.settled = view.settled
      /\ view'.behind = view.behind /\ view'.traded = view.traded
      /\ [of |-> view.n, pre |-> view.pre] \in [of : Nat, pre : Nat]
  BY <1>1 DEF ViewIInv, ViewShapes, View
<1>3. ViewShapes' /\ ViewsInTurn' /\ Written' /\ NobodySits'
  BY <1>1, <1>2 DEF ViewIInv, ViewShapes, ViewsInTurn, Written, Mine, NobodySits, OnScreen
<1>4. Still' => Undisturbed'
  BY <1>1, <1>2 DEF ViewIInv, Undisturbed, Still
<1> QED
  BY <1>3, <1>4 DEF ViewIInv

LEMMA RewardStep ==
  ASSUME ViewIInv, NEW w \in rewards, ApplyRewards(w) \/ RewardsFail(w)
  PROVE  ViewIInv'
<1>1. CASE RewardsFail(w)
  <2>1. rewards' \subseteq rewards /\ UNCHANGED <<view, store, session, heard, timers, purse, unreported>>
    BY <1>1 DEF RewardsFail
  <2> QED
    BY <2>1 DEF ViewIInv, ViewShapes, ViewsInTurn, Written, Mine, NobodySits, OnScreen, Undisturbed, Still
<1>2. CASE ApplyRewards(w)
  <2>1. /\ rewards' = rewards \ {w} /\ purse' = [purse EXCEPT !.shown = purse.api]
        /\ store' = IF purse.api > w.pre /\ store.results.of # 0
                    THEN [store EXCEPT !.results.earned = purse.api - w.pre] ELSE store
        /\ UNCHANGED <<view, session, heard, timers, unreported>>
    BY <1>2 DEF ApplyRewards
  <2>2. /\ w.pre \in Nat /\ purse' \in [api : Nat, shown : Nat] /\ purse'.api = purse.api /\ purse.api \in Nat
        /\ store \in Store
    BY <2>1 DEF ViewIInv, ViewShapes
  <2>3. /\ store' \in Store /\ store'.of = store.of /\ store'.results.of = store.results.of
        /\ \/ store'.results.earned = store.results.earned
           \/ purse.api > w.pre /\ store'.results.earned = purse.api - w.pre
    <3>1. CASE purse.api > w.pre /\ store.results.of # 0
      <4>1. purse.api - w.pre \in Nat
        BY <2>2, <3>1
      <4>2. \A e \in Nat : LET new == [store EXCEPT !.results.earned = e]
                           IN new \in Store /\ new.of = store.of /\ new.results.of = store.results.of
                              /\ new.results.earned = e
        BY <2>2 DEF Store
      <4> QED
        BY <2>1, <3>1, <4>1, <4>2
    <3>2. CASE ~(purse.api > w.pre /\ store.results.of # 0)
      BY <2>1, <2>2, <3>2
    <3> QED
      BY <3>1, <3>2
  <2>4. ViewShapes' /\ ViewsInTurn' /\ Written' /\ NobodySits'
    BY <2>1, <2>2, <2>3 DEF ViewIInv, ViewShapes, ViewsInTurn, Written, Mine, NobodySits, OnScreen
  <2>5. ASSUME Still PROVE Undisturbed'
    <3>1. w.pre = view.pre /\ purse.api \in {view.pre, view.pre + Reward} /\ Reward \in Nat
          /\ store.results.earned \in {0, Reward}
      BY <2>5, RaceViewAssumption DEF ViewIInv, Undisturbed, Still
    <3>2. store'.results.earned \in {0, Reward}
      BY <2>2, <2>3, <3>1
    <3> QED
      BY <2>1, <2>2, <2>5, <3>2 DEF ViewIInv, Undisturbed, Still
  <2> QED
    BY <2>1, <2>4, <2>5 DEF ViewIInv, Still
<1> QED
  BY <1>1, <1>2

-----------------------------------------------------------------------------
LEMMA InitViewStep == InitRaceView => ViewIInv
<1> SUFFICES ASSUME InitRaceView PROVE ViewIInv
  OBVIOUS
<1>1. /\ view = [n |-> 0, kind |-> "none", last |-> 0, rewarded |-> FALSE, pre |-> 0, entered |-> "WAITING",
                 settled |-> TRUE, behind |-> {}, traded |-> 0]
      /\ store = Reset /\ purse = [api |-> 0, shown |-> 0] /\ timers = {} /\ rewards = {} /\ unreported = {}
      /\ session = [n \in Views |-> "none"] /\ heard = [n \in Views |-> "WAITING"]
  BY DEF InitRaceView
<1>2. view \in View /\ view.n = 0 /\ view.last = 0 /\ view.pre = 0 /\ view.kind = "none"
  BY <1>1 DEF View, Phases
<1>3. store \in Store /\ store.of = 0 /\ store.results.earned = 0
  BY <1>1 DEF Reset, Store, Phases
<1>4. ViewShapes
  BY <1>1, <1>2, <1>3 DEF ViewShapes, Phases
<1>5. ViewsInTurn /\ Written /\ NobodySits
  BY <1>1, <1>2, <1>3, RaceViewAssumption DEF ViewsInTurn, Written, NobodySits
<1>6. Undisturbed
  BY <1>1, <1>2, <1>3, RaceViewAssumption DEF Undisturbed, Still
<1> QED
  BY <1>4, <1>5, <1>6 DEF ViewIInv

LEMMA NextViewStep == ViewIInv /\ [NextRaceView]_raceViewVars => ViewIInv'
<1> SUFFICES ASSUME ViewIInv, [NextRaceView]_raceViewVars PROVE ViewIInv'
  OBVIOUS
<1>1. CASE MountSolo
  <2>1. /\ Enter("solo") /\ store' = [Reset EXCEPT !.phase = "COUNTDOWN", !.of = view'.n]
        /\ timers' = timers \cup {view'.n} /\ UNCHANGED <<session, heard, rewards, purse, unreported>>
    BY <1>1 DEF MountSolo
  <2>2. view'.n \in Nat => Anew(store', view'.n)
    BY <2>1, StartsAnew
  <2> QED
    BY <2>1, <2>2, EnterStep
<1>2. CASE MountOnline
  <2>1. /\ Enter("online") /\ store' = [Reset EXCEPT !.of = view'.n]
        /\ session' = [session EXCEPT ![view'.n] = "connecting"]
        /\ UNCHANGED <<heard, timers, rewards, purse, unreported>>
    BY <1>2 DEF MountOnline, Connect
  <2>2. view'.n \in Nat => Anew(store', view'.n)
    BY <2>1, StartsAnew
  <2> QED
    BY <2>1, <2>2, EnterStep
<1>3. CASE Unmount
  BY <1>3, UnmountStep
<1>4. CASE FinishSolo \/ \E n \in Views : CountdownOver(n)
  BY <1>4, SoloStep
<1>5. CASE SeesFinish
  BY <1>5, SeeStep
<1>6. ASSUME NEW n \in Views, Joined(n) \/ ConnectFails(n) \/ Gone(n) PROVE ViewIInv'
  BY <1>6, SeatStep
<1>7. ASSUME NEW n \in Views, RacePhase(n) \/ RaceResult(n) \/ Report(n) PROVE ViewIInv'
  BY <1>7, PhaseStep, ResultStep, ReportStep
<1>8. ASSUME NEW w \in rewards, ApplyRewards(w) \/ RewardsFail(w) PROVE ViewIInv'
  BY <1>8, RewardStep
<1>9. ASSUME NEW balance \in OtherCredits, Trade(balance) PROVE ViewIInv'
  BY <1>9, TradeStep
<1>10. CASE UNCHANGED raceViewVars
  <2>1. ViewShapes' /\ ViewsInTurn' /\ Written' /\ NobodySits'
    BY <1>10 DEF raceViewVars, ViewIInv, ViewShapes, ViewsInTurn, Written, Mine, NobodySits, OnScreen
  <2>2. Still' => Undisturbed'
    BY <1>10 DEF raceViewVars, ViewIInv, Undisturbed, Still
  <2> QED
    BY <2>1, <2>2 DEF ViewIInv
<1> QED
  BY <1>1, <1>2, <1>3, <1>4, <1>5, <1>6, <1>7, <1>8, <1>9, <1>10 DEF NextRaceView

\* Whatever views follow each other, however late their connections, messages and rewards
\* come: the race on screen is the one the HUD shows but for what is named, nobody sits in
\* a room whose view is gone, and the results of a race that began with all settled show its
\* own reward or none, if no sale, bet or purchase moved the credits since.
THEOREM ViewShowsItsRace == InitRaceView /\ [][NextRaceView]_raceViewVars => []RaceViewInv
<1>1. ViewIInv => RaceViewInv
  <2> SUFFICES ASSUME ViewIInv PROVE RaceViewInv
    OBVIOUS
  <2>1. view.n \in Nat /\ view.last \in Nat /\ view.n = view.last /\ store.of \in Nat /\ store.results.of \in Nat
        /\ store.phase \in Phases
    BY DEF ViewIInv, ViewShapes, View, Store, ViewsInTurn
  <2>2. RaceViewTypeOK
    BY <2>1 DEF ViewIInv, ViewShapes, ViewsInTurn, Written, RaceViewTypeOK, Phases
  <2>3. StoreIsOwn
    BY <2>1 DEF ViewIInv, Written, Mine, StoreIsOwn, ResultsShown
  <2>4. EarnedIsReward
    BY DEF ViewIInv, Undisturbed, Still, EarnedIsReward
  <2> QED
    BY <2>2, <2>3, <2>4 DEF ViewIInv, RaceViewInv
<1> QED
  BY <1>1, InitViewStep, NextViewStep, PTL

-----------------------------------------------------------------------------
(* The pool of puffs.                                                      *)

Pool == 0 .. Puffs - 1

\* Pairs of puffs there will be before slot i is taken, and frames before the first.
Turn(c, i) == IF i >= c THEN (i - c) \div 2 ELSE (i - c + Puffs) \div 2
Wait(t) == IF t < SpawnFrames THEN SpawnFrames - 1 - t ELSE 0

\* Every puff has lived out by then.
SmokeOK(s) ==
  /\ s.timer \in Nat /\ s.cursor \in Pool /\ s.cursor % 2 = 0
  /\ s.left \in [Pool -> Nat]
  /\ \A i \in Pool : s.left[i] <= Turn(s.cursor, i) * SpawnFrames + Wait(s.timer)
  /\ ~s.cut

LEMMA PoolSize ==
  /\ Puffs \in Nat /\ Puffs >= 2 /\ Puffs % 2 = 0
  /\ SpawnFrames \in Nat /\ SpawnFrames >= 1
  /\ (Puffs \div 2) \in Nat /\ Puffs = 2 * (Puffs \div 2)
BY EffectsAssumption

LEMMA Multiples ==
  ASSUME NEW k \in Nat, NEW n \in Nat
  PROVE  k * n \in Nat /\ (k >= 1 => (k - 1) * n = k * n - n) /\ 0 * n = 0
OBVIOUS

\* The two slots a pair takes, and where the cursor is then.
LEMMA CursorMoves ==
  ASSUME NEW c \in Pool, c % 2 = 0
  PROVE  /\ c + 1 \in Pool
         /\ {(c + i) % Puffs : i \in {0, 1}} = {c, c + 1}
         /\ (c + 2) % Puffs = IF c + 2 = Puffs THEN 0 ELSE c + 2
         /\ (c + 2) % Puffs \in Pool /\ ((c + 2) % Puffs) % 2 = 0
<1>1. c \in Nat /\ c + 1 < Puffs
  BY PoolSize DEF Pool
<1>2. \A n \in Nat, a \in Nat : a < n => a % n = a
  OBVIOUS
<1>3. \A n \in Nat : n > 0 => n % n = 0
  OBVIOUS
<1>4. c % Puffs = c /\ (c + 1) % Puffs = c + 1
  BY <1>1, <1>2, PoolSize
<1>5. (c + 2) % Puffs = IF c + 2 = Puffs THEN 0 ELSE c + 2
  BY <1>1, <1>2, <1>3, PoolSize
<1>6. {(c + i) % Puffs : i \in {0, 1}} = {c % Puffs, (c + 1) % Puffs}
  BY <1>1
<1> QED
  BY <1>1, <1>4, <1>5, <1>6, PoolSize DEF Pool

\* A pair brings every slot one turn nearer, but those it takes.
LEMMA TurnMoves ==
  ASSUME NEW c \in Pool, c % 2 = 0, NEW i \in Pool
  PROVE  /\ Turn(c, i) \in Nat
         /\ i \in {c, c + 1} => Turn(c, i) = 0 /\ Turn((c + 2) % Puffs, i) = (Puffs \div 2) - 1
         /\ ~(i \in {c, c + 1}) => Turn(c, i) >= 1 /\ Turn((c + 2) % Puffs, i) = Turn(c, i) - 1
<1>1. PICK h \in Nat : c = 2 * h
  BY DEF Pool
<1>2. PICK k \in Nat : Puffs = 2 * k /\ k = Puffs \div 2
  BY PoolSize
<1>3. PICK j \in Nat : i \in {2 * j, 2 * j + 1}
  <2>1. (i \div 2) \in Nat /\ (i = 2 * (i \div 2) \/ i = 2 * (i \div 2) + 1)
    BY DEF Pool
  <2> QED
    BY <2>1
<1>4. h < k /\ j < k
  BY <1>1, <1>2, <1>3 DEF Pool
<1>5. Turn(c, i) = IF j >= h THEN j - h ELSE j - h + k
  BY <1>1, <1>2, <1>3, <1>4 DEF Turn
<1>6. (c + 2) % Puffs = IF h + 1 = k THEN 0 ELSE 2 * (h + 1)
  BY <1>1, <1>2, <1>4, CursorMoves
<1>7. Turn((c + 2) % Puffs, i) = IF h + 1 = k THEN j ELSE IF j >= h + 1 THEN j - h - 1 ELSE j - h - 1 + k
  BY <1>2, <1>3, <1>4, <1>6 DEF Turn
<1>8. i \in {c, c + 1} <=> j = h
  BY <1>1, <1>3
<1> QED
  BY <1>2, <1>4, <1>5, <1>7, <1>8

Due == prop /\ smoke.timer + 1 >= SpawnFrames

LEMMA PuffedFields ==
  ASSUME NEW l
  PROVE  LET slots == {(smoke.cursor + i) % Puffs : i \in {0, 1}} IN
         /\ Puffed(l).timer = IF Due THEN 0 ELSE IF smoke.timer < SpawnFrames THEN smoke.timer + 1 ELSE smoke.timer
         /\ Puffed(l).cursor = IF Due THEN (smoke.cursor + 2) % Puffs ELSE smoke.cursor
         /\ DOMAIN Puffed(l).left = DOMAIN smoke.left
         /\ \A i \in DOMAIN smoke.left :
              Puffed(l).left[i] =
                IF Due /\ i \in slots THEN (IF l = 0 THEN 0 ELSE l - 1)
                ELSE IF smoke.left[i] = 0 THEN 0 ELSE smoke.left[i] - 1
         /\ Puffed(l).left = [i \in DOMAIN smoke.left |-> Puffed(l).left[i]]
         /\ Puffed(l).cut => smoke.cut \/ (Due /\ \E i \in slots : smoke.left[i] > 0)
BY DEF Puffed, Due

LEMMA PuffStep ==
  ASSUME SmokeOK(smoke), prop \in BOOLEAN, NEW l \in Lives
  PROVE  SmokeOK(Puffed(l))
<1> DEFINE c == smoke.cursor
           new == Puffed(l)
           slots == {(smoke.cursor + i) % Puffs : i \in {0, 1}}
<1>1. /\ smoke.timer \in Nat /\ c \in Pool /\ c % 2 = 0 /\ smoke.left \in [Pool -> Nat]
      /\ \A i \in Pool : smoke.left[i] <= Turn(c, i) * SpawnFrames + Wait(smoke.timer)
      /\ ~smoke.cut
  BY DEF SmokeOK
<1>2. slots = {c, c + 1} /\ c + 1 \in Pool /\ (c + 2) % Puffs \in Pool /\ ((c + 2) % Puffs) % 2 = 0
  BY <1>1, CursorMoves
<1>3. l \in Nat \ {0} /\ l <= (Puffs \div 2) * SpawnFrames
  BY EffectsAssumption
<1>4. /\ new.timer = IF Due THEN 0 ELSE IF smoke.timer < SpawnFrames THEN smoke.timer + 1 ELSE smoke.timer
      /\ new.cursor = IF Due THEN (c + 2) % Puffs ELSE c
      /\ new.cut => smoke.cut \/ (Due /\ \E i \in slots : smoke.left[i] > 0)
  BY PuffedFields
<1>5. /\ new.left = [i \in Pool |-> new.left[i]]
      /\ \A i \in Pool : new.left[i] = IF Due /\ i \in slots THEN (IF l = 0 THEN 0 ELSE l - 1)
                                       ELSE IF smoke.left[i] = 0 THEN 0 ELSE smoke.left[i] - 1
  <2>1. DOMAIN smoke.left = Pool
    BY <1>1
  <2> QED
    BY <2>1, PuffedFields
<1> HIDE DEF c, new, slots
<1>6. Wait(smoke.timer) \in Nat /\ (Due => Wait(smoke.timer) = 0)
  BY <1>1, PoolSize DEF Wait, Due
<1>7. new.timer \in Nat /\ (Due => Wait(new.timer) = SpawnFrames - 1)
      /\ (~Due => Wait(new.timer) \in Nat /\ Wait(smoke.timer) <= Wait(new.timer) + 1)
  BY <1>1, <1>4, PoolSize DEF Wait
<1>8. \A i \in Pool : new.left[i] \in Nat
  BY <1>1, <1>3, <1>5
<1>9. ASSUME NEW i \in Pool
      PROVE  new.left[i] <= Turn(new.cursor, i) * SpawnFrames + Wait(new.timer)
  <2>1. Turn(c, i) \in Nat /\ smoke.left[i] \in Nat
        /\ smoke.left[i] <= Turn(c, i) * SpawnFrames + Wait(smoke.timer)
    BY <1>1, TurnMoves
  <2>2. PICK t \in Nat, m \in Nat : t = Turn(c, i) /\ m = t * SpawnFrames /\ (t >= 1 => (t - 1) * SpawnFrames = m - SpawnFrames)
                                   /\ m = Turn(c, i) * SpawnFrames
    BY <2>1, Multiples, PoolSize
  <2>3. CASE ~Due
    <3>1. new.cursor = c /\ (new.left[i] = 0 \/ new.left[i] = smoke.left[i] - 1)
      BY <1>4, <1>5, <2>3
    <3>2. new.left[i] <= m + Wait(new.timer)
      BY <1>6, <1>7, <2>1, <2>2, <2>3, <3>1
    <3> QED
      BY <2>2, <3>1, <3>2
  <2>4. CASE Due /\ i \in slots
    <3>1. PICK k \in Nat, n \in Nat : k = Puffs \div 2 /\ n = k * SpawnFrames /\ k >= 1 /\ (k - 1) * SpawnFrames = n - SpawnFrames
                                      /\ l <= n
      BY <1>3, Multiples, PoolSize
    <3>2. Turn(new.cursor, i) = k - 1 /\ new.left[i] = l - 1
      BY <1>1, <1>2, <1>3, <1>4, <1>5, <2>4, <3>1, TurnMoves
    <3>3. Turn(new.cursor, i) * SpawnFrames = n - SpawnFrames
      BY <3>1, <3>2
    <3> QED
      BY <1>3, <1>7, <2>4, <3>1, <3>2, <3>3, PoolSize
  <2>5. CASE Due /\ ~(i \in slots)
    <3>1. t >= 1 /\ Turn(new.cursor, i) = t - 1
      BY <1>1, <1>2, <1>4, <2>2, <2>5, TurnMoves
    <3>2. Turn(new.cursor, i) * SpawnFrames = m - SpawnFrames
      BY <2>2, <3>1
    <3>3. m >= SpawnFrames
      <4>1. (t - 1) * SpawnFrames \in Nat
        BY <3>1, Multiples, PoolSize
      <4> QED
        BY <2>2, <3>1, <4>1, PoolSize
    <3>4. new.left[i] = 0 \/ new.left[i] = smoke.left[i] - 1
      BY <1>5, <2>5
    <3>5. smoke.left[i] <= m
      BY <1>6, <2>1, <2>2, <2>5
    <3> QED
      BY <1>7, <2>1, <2>2, <2>5, <3>2, <3>3, <3>4, <3>5, PoolSize
  <2> QED
    BY <2>3, <2>4, <2>5
<1>10. ~new.cut
  <2>1. ASSUME Due, NEW i \in slots PROVE ~(smoke.left[i] > 0)
    <3>1. i \in Pool /\ Turn(c, i) = 0
      BY <1>1, <1>2, <2>1, TurnMoves
    <3>2. smoke.left[i] <= 0 * SpawnFrames + 0
      BY <1>1, <1>6, <2>1, <3>1
    <3>3. 0 * SpawnFrames = 0
      BY PoolSize
    <3> QED
      BY <1>1, <3>1, <3>2, <3>3
  <2> QED
    BY <1>1, <1>4, <2>1
<1>11. new.cursor \in Pool /\ new.cursor % 2 = 0
  BY <1>1, <1>2, <1>4
<1>12. new.left \in [Pool -> Nat]
  BY <1>5, <1>8
<1> QED
  BY <1>7, <1>9, <1>10, <1>11, <1>12 DEF SmokeOK, new

-----------------------------------------------------------------------------
(* The ring of marks.                                                      *)

Road == 0 .. Quads - 1
Quad == [laid : BOOLEAN, age : Nat, ends : SUBSET Int]

\* Both ends of a mark are frames of one drift; the last frame's edge is there to go on from.
MarksOK(m, f) ==
  /\ m.head \in Road /\ m.ring \in [Road -> Quad] /\ m.lit \subseteq Int
  /\ \A i \in Road : m.ring[i].ends \subseteq m.lit
  /\ m.was => f - 1 \in m.lit

LEMMA MarkStep ==
  ASSUME MarksOK(marks, frame), frame \in Nat, prop \in BOOLEAN, NEW moved \in BOOLEAN
  PROVE  MarksOK(Marked(moved), frame + 1)
<1> DEFINE laid == prop /\ marks.was /\ moved
           mark == [laid |-> TRUE, age |-> 0, ends |-> {frame - 1, frame}]
           ring == IF laid THEN [marks.ring EXCEPT ![marks.head % Quads] = mark] ELSE marks.ring
           older == [i \in DOMAIN ring |-> IF ring[i].age < FadeFrames THEN [ring[i] EXCEPT !.age = @ + 1] ELSE ring[i]]
           lit == IF prop THEN marks.lit \cup {frame} ELSE marks.lit
           head == IF laid THEN (marks.head + 1) % Quads ELSE marks.head
           new == [head |-> head, was |-> prop, lit |-> lit, ring |-> older]
<1>1. Marked(moved) = new
  BY DEF Marked
<1>2. /\ marks.head \in Road /\ marks.ring \in [Road -> Quad] /\ marks.lit \subseteq Int
      /\ \A i \in Road : marks.ring[i].ends \subseteq marks.lit
      /\ marks.was => frame - 1 \in marks.lit
  BY DEF MarksOK
<1>3. Quads \in Nat \ {0}
  BY EffectsAssumption
<1>4. head \in Road
  BY <1>2, <1>3 DEF Road
<1>5. lit \subseteq Int /\ marks.lit \subseteq lit /\ (prop => frame \in lit)
  BY <1>2
<1>6. mark \in Quad /\ mark.ends = {frame - 1, frame}
  BY DEF Quad
<1>7. laid => mark.ends \subseteq lit
  BY <1>2, <1>5, <1>6
<1> HIDE DEF mark, lit, head
<1>8. ring \in [Road -> Quad] /\ \A i \in Road : ring[i].ends \subseteq lit
  <2>1. CASE laid
    BY <1>2, <1>5, <1>6, <1>7, <2>1
  <2>2. CASE ~laid
    BY <1>2, <1>5, <2>2
  <2> QED
    BY <2>1, <2>2
<1> HIDE DEF laid, ring
<1>9. older \in [Road -> Quad] /\ \A i \in Road : older[i].ends = ring[i].ends
  <2>1. DOMAIN ring = Road
    BY <1>8
  <2>2. \A q \in Quad : [q EXCEPT !.age = @ + 1] \in Quad /\ [q EXCEPT !.age = @ + 1].ends = q.ends
    BY DEF Quad
  <2> QED
    BY <1>8, <2>1, <2>2
<1> HIDE DEF older
<1>10. /\ new.head = head /\ new.was = prop /\ new.lit = lit /\ new.ring = older
  OBVIOUS
<1> HIDE DEF new
<1>11. MarksOK(new, frame + 1)
  <2>1. frame + 1 - 1 = frame
    OBVIOUS
  <2> QED
    BY <1>4, <1>5, <1>8, <1>9, <1>10, <2>1 DEF MarksOK
<1> QED
  BY <1>1, <1>11

-----------------------------------------------------------------------------
(* The sound, and the whole.                                               *)

Car == [phase : {"COUNTDOWN", "RACING", "FINISHED"}, drifting : BOOLEAN, boosting : BOOLEAN]
Sound == [built : BOOLEAN, held : BOOLEAN, master : Nat, engine : Nat, screech : BOOLEAN]

\* Nodes that no car holds are turned down, and a screech is the car's.
SoundOK(s, c, on) ==
  /\ s \in Sound /\ c \in Car
  /\ ~on \/ ~s.held => s.master = 0
  /\ s.master > 0 /\ s.screech => c.drifting /\ c.phase = "RACING"

EffectsIInv ==
  /\ prop \in BOOLEAN /\ frame \in Nat
  /\ SmokeOK(smoke) /\ MarksOK(marks, frame) /\ SoundOK(sound, car, onScreen)

LEMMA NothingYet == SmokeOK(NoSmoke) /\ \A f \in Nat : MarksOK(NoMarks, f)
<1>1. /\ NoSmoke.timer = 0 /\ NoSmoke.cursor = 0 /\ NoSmoke.left = [i \in Pool |-> 0] /\ ~NoSmoke.cut
  BY DEF NoSmoke, Pool
<1>2. 0 \in Pool /\ 0 % 2 = 0
  BY PoolSize DEF Pool
<1>3. Wait(0) \in Nat
  BY PoolSize DEF Wait
<1>4. ASSUME NEW i \in Pool PROVE 0 <= Turn(0, i) * SpawnFrames + Wait(0)
  <2>1. Turn(0, i) \in Nat
    BY <1>2, TurnMoves
  <2>2. Turn(0, i) * SpawnFrames \in Nat
    BY <2>1, Multiples, PoolSize
  <2> QED
    BY <1>3, <2>2
<1>5. SmokeOK(NoSmoke)
  BY <1>1, <1>2, <1>4 DEF SmokeOK
<1>6. NoQuad \in Quad /\ NoQuad.ends = {}
  BY DEF NoQuad, Quad
<1>7. /\ NoMarks.head = 0 /\ ~NoMarks.was /\ NoMarks.lit = {} /\ NoMarks.ring = [i \in Road |-> NoQuad]
  BY DEF NoMarks, Road
<1>8. 0 \in Road
  BY EffectsAssumption DEF Road
<1> QED
  BY <1>5, <1>6, <1>7, <1>8 DEF MarksOK

LEMMA MountStep ==
  ASSUME EffectsIInv, MountCar \/ UnmountCar
  PROVE  EffectsIInv'
<1>1. CASE MountCar
  <2>1. /\ ~onScreen /\ onScreen' /\ car' = Parked /\ prop' = FALSE /\ smoke' = NoSmoke /\ marks' = NoMarks
        /\ sound' = [sound EXCEPT !.held = FALSE] /\ frame' = frame
    BY <1>1 DEF MountCar
  <2>2. sound \in Sound /\ sound.master = 0
    BY <2>1 DEF EffectsIInv, SoundOK
  <2>3. sound' \in Sound /\ sound'.master = 0 /\ Parked \in Car
    BY <2>1, <2>2 DEF Sound, Parked, Car
  <2>4. SoundOK(sound', car', onScreen')
    BY <2>1, <2>3 DEF SoundOK
  <2> QED
    BY <2>1, <2>4, NothingYet DEF EffectsIInv
<1>2. CASE UnmountCar
  <2>1. /\ ~onScreen' /\ UNCHANGED <<car, prop, smoke, marks, frame>>
        /\ sound' = IF sound.held THEN [sound EXCEPT !.master = 0] ELSE sound
    BY <1>2 DEF UnmountCar
  <2>2. sound \in Sound /\ (~sound.held => sound.master = 0) /\ car \in Car
    BY DEF EffectsIInv, SoundOK
  <2>3. sound' \in Sound /\ sound'.master = 0
    BY <2>1, <2>2 DEF Sound
  <2>4. SoundOK(sound', car', onScreen')
    BY <2>1, <2>2, <2>3 DEF SoundOK
  <2> QED
    BY <2>1, <2>4 DEF EffectsIInv
<1> QED
  BY <1>1, <1>2

LEMMA SignalStep ==
  ASSUME EffectsIInv, GreenLight \/ Render \/ Tick \/ UNCHANGED effectVars
  PROVE  EffectsIInv'
<1>1. CASE GreenLight
  <2>1. /\ car.phase = "COUNTDOWN" /\ car' = [car EXCEPT !.phase = "RACING"]
        /\ UNCHANGED <<onScreen, prop, smoke, marks, sound, frame>>
    BY <1>1 DEF GreenLight
  <2>2. car \in Car /\ SoundOK(sound, car, onScreen)
    BY DEF EffectsIInv, SoundOK
  <2>3. car' \in Car
    BY <2>1, <2>2 DEF Car
  <2>4. ~(sound.master > 0 /\ sound.screech)
    BY <2>1, <2>2 DEF SoundOK
  <2>5. SoundOK(sound', car', onScreen')
    BY <2>1, <2>2, <2>3, <2>4 DEF SoundOK
  <2> QED
    BY <2>1, <2>5 DEF EffectsIInv
<1>2. CASE Render
  <2>1. car.drifting \in BOOLEAN
    BY DEF EffectsIInv, SoundOK, Car
  <2> QED
    BY <1>2, <2>1 DEF Render, EffectsIInv
<1>3. CASE Tick \/ UNCHANGED effectVars
  BY <1>3 DEF Tick, effectVars, EffectsIInv
<1> QED
  BY <1>1, <1>2, <1>3

LEMMA SoundStep ==
  ASSUME NEW c \in Car, SoundOK(sound, car, TRUE)
  PROVE  SoundOK(Sounding(c), c, TRUE)
<1>1. sound \in Sound /\ car \in Car
  BY DEF SoundOK
<1>4. /\ Sounding(c).built = TRUE /\ Sounding(c).held = TRUE
      /\ Sounding(c).master = IF sound.built THEN sound.master ELSE 12
      /\ Sounding(c).engine \in Nat
      /\ Sounding(c).screech = (c.drifting /\ car.phase = "RACING" /\ c.phase = "RACING")
      /\ Sounding(c) = [built |-> Sounding(c).built, held |-> Sounding(c).held, master |-> Sounding(c).master,
                        engine |-> Sounding(c).engine, screech |-> Sounding(c).screech]
  BY DEF Sounding
<1>5. Sounding(c).master \in Nat
  BY <1>1, <1>4 DEF Sound
<1>6. Sounding(c).screech \in BOOLEAN
  BY <1>4
<1>7. Sounding(c) \in Sound
  <2>1. PICK yes \in BOOLEAN, n \in Nat, e \in Nat, screech \in BOOLEAN :
          Sounding(c) = [built |-> yes, held |-> yes, master |-> n, engine |-> e, screech |-> screech]
    BY <1>4, <1>5, <1>6, Zenon
  <2> QED
    BY <2>1 DEF Sound
<1>8. Sounding(c).screech => c.drifting /\ c.phase = "RACING"
  BY <1>4
<1> QED
  BY <1>4, <1>7, <1>8 DEF SoundOK

LEMMA FrameStep ==
  ASSUME EffectsIInv, Frame
  PROVE  EffectsIInv'
<1>1. PICK d \in BOOLEAN, b \in BOOLEAN, moved \in BOOLEAN, p \in {car.phase, "FINISHED"}, l \in Lives :
        /\ car' = [phase |-> p, drifting |-> d, boosting |-> b]
        /\ smoke' = Puffed(l) /\ marks' = Marked(moved) /\ sound' = Sounding([phase |-> p, drifting |-> d, boosting |-> b])
  BY DEF Frame
<1>2. onScreen /\ frame' = frame + 1 /\ prop' = prop /\ onScreen' = onScreen
  BY DEF Frame
<1>3. car' \in Car
  BY <1>1 DEF EffectsIInv, SoundOK, Car
<1>4. SoundOK(sound, car, TRUE)
  BY <1>2 DEF EffectsIInv, SoundOK
<1>5. SoundOK(sound', car', TRUE)
  BY <1>1, <1>3, <1>4, SoundStep
<1>6. SmokeOK(smoke') /\ MarksOK(marks', frame')
  BY <1>1, <1>2, PuffStep, MarkStep DEF EffectsIInv
<1>7. SoundOK(sound', car', onScreen')
  BY <1>2, <1>5 DEF SoundOK
<1>8. prop' \in BOOLEAN /\ frame' \in Nat
  BY <1>2 DEF EffectsIInv
<1> QED
  BY <1>6, <1>7, <1>8, Zenon DEF EffectsIInv

\* Whatever cars come and go and wherever they drift: nothing of a race is heard off the
\* track, no mark joins two drifts, and no puff is moved while it can be seen, for any
\* pool whose half outlives the longest puff.
THEOREM EffectsAreOwn == InitEffects /\ [][NextEffects]_effectVars => []EffectsInv
<1>1. InitEffects => EffectsIInv
  <2> SUFFICES ASSUME InitEffects PROVE EffectsIInv
    OBVIOUS
  <2>1. /\ car = Parked /\ onScreen = FALSE /\ prop = FALSE /\ smoke = NoSmoke /\ marks = NoMarks /\ frame = 0
        /\ sound = [built |-> FALSE, held |-> FALSE, master |-> 0, engine |-> 0, screech |-> FALSE]
    BY DEF InitEffects
  <2>2. SoundOK(sound, car, onScreen)
    BY <2>1 DEF SoundOK, Sound, Car, Parked
  <2> QED
    BY <2>1, <2>2, NothingYet DEF EffectsIInv
<1>2. EffectsIInv /\ [NextEffects]_effectVars => EffectsIInv'
  BY MountStep, SignalStep, FrameStep DEF NextEffects
<1>3. EffectsIInv => EffectsInv
  <2> SUFFICES ASSUME EffectsIInv PROVE EffectsInv
    OBVIOUS
  <2>1. SilentOffTrack
    <3>1. /\ ~onScreen => sound.master = 0
          /\ sound.master > 0 /\ sound.screech => car.drifting /\ car.phase = "RACING"
      BY DEF EffectsIInv, SoundOK
    <3> QED
      BY <3>1 DEF SilentOffTrack, Audible
  <2>2. MarksJoinNothing
    BY DEF EffectsIInv, MarksOK, MarksJoinNothing
  <2>3. PuffsLiveOut
    BY DEF EffectsIInv, SmokeOK, PuffsLiveOut
  <2> QED
    BY <2>1, <2>2, <2>3 DEF EffectsInv
<1> QED
  BY <1>1, <1>2, <1>3, PTL

-----------------------------------------------------------------------------
(* The scripts that set a testnet up.                                      *)

File == [keys : Bootstraps \cup {NoOne}, contract : Deploys \cup {NoOne}]
Usdc == Bootstraps \cup {Circle}
Code == Nat \cup {NoOne}

\* What a run knows, by how far it is.
Progress ==
  [at : {"idle", "over", "backup", "friendbot", "write", "fund", "build"}]
  \cup [at : {"optimize"}, source : Code]
  \cup [at : {"deploy", "resolve"}, source : Code, optimized : BOOLEAN]
  \cup [at : {"init", "patch"}, source : Code, optimized : BOOLEAN, usdc : Usdc]
  \cup [at : {"rewrite", "over"}, source : Code, optimized : BOOLEAN, content : File]

SetupShapes ==
  /\ run \in [Runs -> Progress] /\ env \in File
  /\ contracts \in [Deploys -> [code : Code, issuer : Usdc \cup {NoOne}]]
  /\ wasm \in [built : Code, optimized : Code] /\ edits \in Nat

\* A file's keys are funded, and its contract was initialised by a run that is over.
FileOK(file) ==
  /\ file.keys # NoOne => \A role \in Roles : <<file.keys, role>> \in funded
  /\ file.contract # NoOne => contracts[file.contract].issuer # NoOne /\ run[file.contract].at = "over"

\* What a run has made sure of.
Doing(r, x) ==
  /\ ~(x.at \in {"idle", "over", "backup", "friendbot", "write"}) => r \in Deploys
  /\ x.at = "write" => \A role \in Roles : <<r, role>> \in funded
  /\ x.at = "rewrite" => FileOK(x.content)
  /\ x.at \in {"patch", "rewrite"} => contracts[r].issuer # NoOne

\* And what stays as it was while no other runs.
Alone(r, x) ==
  /\ x.at \in {"friendbot", "write"} => env = NoFile \/ env \in backups
  /\ x.at \in {"optimize", "deploy"} => wasm.built = x.source
  /\ x.at = "deploy" /\ x.optimized => wasm.optimized = x.source
  /\ x.at \in {"resolve", "init", "patch", "rewrite"} /\ x.optimized => contracts[r].code = x.source
  /\ x.at = "init" => x.usdc = Issuer(env)
  /\ x.at \in {"patch", "rewrite"} => contracts[r].issuer = Issuer(env)
  /\ x.at = "rewrite" => x.content = env

EnvIsWhole ==
  /\ env.contract # NoOne => contracts[env.contract].issuer = Issuer(env)
  /\ \A file \in written : (\E kept \in backups \cup {env} : kept.keys = file.keys) \/ file.keys = NoOne

SetupIInv ==
  /\ SetupShapes /\ FileOK(env)
  /\ \A r \in Runs : Doing(r, run[r])
  /\ ~overlapped => /\ \A r, s \in Runs : Running(r) /\ Running(s) => r = s
                    /\ \A r \in Runs : Alone(r, run[r])
                    /\ EnvIsWhole

Idles(x) == x.at \in {"idle", "over"}

\* A run has taken a step: what the others know is still so.
LEMMA RunSteps ==
  ASSUME SetupIInv, NEW r \in Runs, Running(r), NEW x \in Progress, x.at # "idle",
         run' = [run EXCEPT ![r] = x], SetupShapes', overlapped' = overlapped,
         funded \subseteq funded', FileOK(env)', Doing(r, x)',
         \A d \in Deploys : d # r => contracts'[d] = contracts[d],
         ~overlapped => Alone(r, x)' /\ EnvIsWhole'
  PROVE  SetupIInv'
<1>1. run'[r] = x /\ \A s \in Runs : s # r => run'[s] = run[s]
  BY DEF SetupIInv, SetupShapes
<1>2. \A s \in Runs : Running(s)' => Running(s)
  BY <1>1 DEF Running
<1>3. \A file \in File : FileOK(file) => FileOK(file)'
  <2> SUFFICES ASSUME NEW file \in File, FileOK(file) PROVE FileOK(file)'
    OBVIOUS
  <2>1. file.keys # NoOne => \A role \in Roles : <<file.keys, role>> \in funded'
    BY DEF FileOK
  <2>2. ASSUME file.contract # NoOne
        PROVE  contracts'[file.contract].issuer # NoOne /\ run'[file.contract].at = "over"
    <3>1. file.contract \in Deploys /\ file.contract \in Runs
      BY <2>2 DEF File, Runs
    <3>2. file.contract # r
      BY <2>2 DEF FileOK, Running
    <3> QED
      BY <1>1, <2>2, <3>1, <3>2 DEF FileOK
  <2> QED
    BY <2>1, <2>2 DEF FileOK
<1>4. ASSUME NEW s \in Runs, s # r PROVE Doing(s, run[s])'
  <2>1. Doing(s, run[s]) /\ run'[s] = run[s] /\ run[s] \in Progress
    BY <1>1, <1>4 DEF SetupIInv, SetupShapes
  <2>2. run[s].at = "rewrite" => run[s].content \in File
    BY <2>1 DEF Progress
  <2>3. s \in Deploys => contracts'[s] = contracts[s]
    BY <1>4
  <2>4. run[s].at = "rewrite" => FileOK(run[s].content)'
    BY <1>3, <2>1, <2>2 DEF Doing
  <2>5. run[s].at = "write" => \A role \in Roles : <<s, role>> \in funded'
    BY <2>1 DEF Doing
  <2>6. run[s].at \in {"patch", "rewrite"} => contracts'[s].issuer # NoOne
    BY <2>1, <2>3 DEF Doing
  <2> QED
    BY <2>1, <2>4, <2>5, <2>6 DEF Doing
<1>5. \A s \in Runs : Doing(s, run[s])'
  BY <1>1, <1>4
<1>6. ASSUME ~overlapped, NEW s \in Runs, s # r PROVE Alone(s, run[s])'
  <2>1. Idles(run[s]) /\ run'[s] = run[s]
    BY <1>1, <1>6 DEF SetupIInv, Running, Idles
  <2> QED
    BY <2>1 DEF Idles, Alone
<1> QED
  BY <1>1, <1>2, <1>5, <1>6 DEF SetupIInv

\* Only the step of its script changes in what a run knows.
LEMMA Advances ==
  ASSUME NEW x \in Progress
  PROVE  /\ x.at = "idle" => [x EXCEPT !.at = "backup"] \in Progress /\ [x EXCEPT !.at = "backup"].at = "backup"
         /\ x.at = "idle" => [x EXCEPT !.at = "fund"] \in Progress /\ [x EXCEPT !.at = "fund"].at = "fund"
         /\ x.at = "backup" => [x EXCEPT !.at = "friendbot"] \in Progress /\ [x EXCEPT !.at = "friendbot"].at = "friendbot"
         /\ x.at = "friendbot" => [x EXCEPT !.at = "write"] \in Progress /\ [x EXCEPT !.at = "write"].at = "write"
         /\ x.at = "write" => [x EXCEPT !.at = "over"] \in Progress /\ [x EXCEPT !.at = "over"].at = "over"
         /\ x.at = "fund" => [x EXCEPT !.at = "build"] \in Progress /\ [x EXCEPT !.at = "build"].at = "build"
BY DEF Progress

LEMMA AdvancesOn ==
  ASSUME NEW x \in Progress
  PROVE  /\ x.at = "deploy" =>
              LET y == [x EXCEPT !.at = "resolve"]
              IN y \in Progress /\ y.at = "resolve" /\ y.source = x.source /\ y.optimized = x.optimized
         /\ x.at = "init" =>
              LET y == [x EXCEPT !.at = "patch"]
              IN y \in Progress /\ y.at = "patch" /\ y.source = x.source /\ y.optimized = x.optimized
         /\ x.at = "rewrite" =>
              LET y == [x EXCEPT !.at = "over"]
              IN y \in Progress /\ y.at = "over"
BY DEF Progress

LEMMA StartStep ==
  ASSUME SetupIInv, NEW r \in Runs, StartRun(r)
  PROVE  SetupIInv'
<1> DEFINE x == [run[r] EXCEPT !.at = IF r \in Bootstraps THEN "backup" ELSE "fund"]
<1>1. /\ run[r].at = "idle" /\ run' = [run EXCEPT ![r] = x]
      /\ UNCHANGED <<env, backups, funded, contracts, wasm, edits, written>>
      /\ overlapped' = (overlapped \/ \E s \in Runs : Running(s))
  BY DEF StartRun, Step
<1>2. x \in Progress /\ x.at \in {"backup", "fund"} /\ (x.at = "fund" => r \in Deploys)
  <2>1. run[r] \in Progress
    BY DEF SetupIInv, SetupShapes
  <2>2. CASE r \in Bootstraps
    BY <1>1, <2>1, <2>2, Advances
  <2>3. CASE ~(r \in Bootstraps)
    BY <1>1, <2>1, <2>3, Advances DEF Runs
  <2> QED
    BY <2>2, <2>3
<1> HIDE DEF x
<1>3. run'[r] = x /\ \A s \in Runs : s # r => run'[s] = run[s]
  BY <1>1 DEF SetupIInv, SetupShapes
<1>4. SetupShapes'
  BY <1>1, <1>2 DEF SetupIInv, SetupShapes
<1>5. \A c \in Runs : run[c].at = "over" => run'[c].at = "over"
  BY <1>1, <1>3
<1>6. \A file \in File : FileOK(file) => FileOK(file)'
  BY <1>1, <1>5 DEF FileOK, File, Runs
<1>7. ASSUME NEW s \in Runs PROVE Doing(s, run[s])'
  <2>1. CASE s = r
    BY <1>2, <1>3, <2>1 DEF Doing
  <2>2. CASE s # r
    <3>1. Doing(s, run[s]) /\ run'[s] = run[s] /\ run[s] \in Progress
      BY <1>3, <2>2 DEF SetupIInv, SetupShapes
    <3>2. run[s].at = "rewrite" => run[s].content \in File
      BY <3>1 DEF Progress
    <3>3. run[s].at = "rewrite" => FileOK(run[s].content)'
      BY <1>6, <3>1, <3>2 DEF Doing
    <3> QED
      BY <1>1, <3>1, <3>3 DEF Doing
  <2> QED
    BY <2>1, <2>2
<1>8. ASSUME ~overlapped' PROVE \A s \in Runs : s # r => Idles(run'[s])
  BY <1>1, <1>3, <1>8 DEF Running, Idles
<1>9. ASSUME ~overlapped', NEW s \in Runs PROVE Alone(s, run[s])'
  BY <1>2, <1>3, <1>8, <1>9 DEF Alone, Idles
<1>10. ~overlapped' => \A s, t \in Runs : Running(s)' /\ Running(t)' => s = t
  BY <1>8 DEF Running, Idles
<1>11. ~overlapped' => EnvIsWhole'
  BY <1>1 DEF SetupIInv, EnvIsWhole, Issuer
<1>12. FileOK(env)'
  BY <1>1, <1>6 DEF SetupIInv, SetupShapes
<1> QED
  BY <1>4, <1>7, <1>9, <1>10, <1>11, <1>12 DEF SetupIInv

LEMMA DiesStep ==
  ASSUME SetupIInv, NEW r \in Runs, Dies(r)
  PROVE  SetupIInv'
<1> DEFINE x == [at |-> "over"]
<1>1. /\ Running(r) /\ run' = [run EXCEPT ![r] = x]
      /\ UNCHANGED <<env, backups, funded, contracts, wasm, edits, written, overlapped>>
  BY DEF Dies
<1>2. x \in Progress /\ x.at = "over"
  BY DEF Progress
<1>3. r \in Runs /\ SetupShapes'
  BY <1>1, <1>2 DEF SetupIInv, SetupShapes
<1> HIDE DEF x
<1>4. FileOK(env)'
  <2>1. \A c \in Runs : run[c].at = "over" => run'[c].at = "over"
    BY <1>1, <1>2 DEF SetupIInv, SetupShapes
  <2> QED
    BY <1>1, <2>1 DEF SetupIInv, SetupShapes, FileOK, File, Runs
<1>5. Doing(r, x)' /\ Alone(r, x)'
  BY <1>2 DEF Doing, Alone
<1>6. ~overlapped => EnvIsWhole'
  BY <1>1 DEF SetupIInv, EnvIsWhole, Issuer
<1> QED
  BY <1>1, <1>2, <1>3, <1>4, <1>5, <1>6, RunSteps

LEMMA StillSetup ==
  ASSUME SetupIInv, EditContract \/ UNCHANGED setupVars \/ \E b \in Bootstraps, role \in Roles : Friendbot(b, role)
  PROVE  SetupIInv'
<1>1. /\ UNCHANGED <<run, env, backups, contracts, wasm, written, overlapped>>
      /\ funded \subseteq funded' /\ edits' \in Nat
  <2>1. edits \in Nat
    BY DEF SetupIInv, SetupShapes
  <2>2. CASE EditContract
    BY <2>1, <2>2 DEF EditContract
  <2>3. CASE UNCHANGED setupVars
    BY <2>1, <2>3 DEF setupVars
  <2>4. CASE \E b \in Bootstraps, role \in Roles : Friendbot(b, role)
    BY <2>1, <2>4 DEF Friendbot
  <2> QED
    BY <2>2, <2>3, <2>4
<1>2. SetupShapes' /\ FileOK(env)'
  BY <1>1 DEF SetupIInv, SetupShapes, FileOK
<1>3. \A r \in Runs : Doing(r, run[r])'
  BY <1>1 DEF SetupIInv, Doing, FileOK
<1>4. ~overlapped => /\ (\A r, s \in Runs : Running(r)' /\ Running(s)' => r = s)
                     /\ EnvIsWhole'
  BY <1>1 DEF SetupIInv, Running, EnvIsWhole, Issuer
<1>5. ~overlapped => \A r \in Runs : Alone(r, run[r])'
  BY <1>1 DEF SetupIInv, Alone, Issuer
<1> QED
  BY <1>1, <1>2, <1>3, <1>4, <1>5 DEF SetupIInv

-----------------------------------------------------------------------------
(* testnet-bootstrap.                                                      *)
LEMMA BackUpStep ==
  ASSUME SetupIInv, NEW b \in Bootstraps, BackUp(b)
  PROVE  SetupIInv'
<1>1. /\ b \in Runs /\ run[b].at = "backup" /\ run' = [run EXCEPT ![b] = [run[b] EXCEPT !.at = "friendbot"]]
      /\ UNCHANGED <<env, funded, contracts, wasm, edits, written, overlapped>>
      /\ backups' = IF env = NoFile THEN backups ELSE backups \cup {env}
  BY DEF BackUp, Step, Runs
<1>2. PICK x \in Progress : x = [run[b] EXCEPT !.at = "friendbot"] /\ x.at = "friendbot"
  <2>1. run[b] \in Progress
    BY <1>1 DEF SetupIInv, SetupShapes
  <2> QED
    BY <1>1, <2>1, Advances
<1>3. Running(b) /\ SetupShapes'
  BY <1>1, <1>2 DEF SetupIInv, SetupShapes, Running
<1>4. FileOK(env)'
  <2>1. \A c \in Runs : run[c].at = "over" => run'[c].at = "over"
    BY <1>1 DEF SetupIInv, SetupShapes
  <2> QED
    BY <1>1, <2>1 DEF SetupIInv, SetupShapes, FileOK, File, Runs
<1>5. Doing(b, x)' /\ Alone(b, x)'
  BY <1>1, <1>2 DEF Doing, Alone
<1>6. ~overlapped => EnvIsWhole'
  BY <1>1 DEF SetupIInv, EnvIsWhole, Issuer
<1> QED
  BY <1>1, <1>2, <1>3, <1>4, <1>5, <1>6, RunSteps

LEMMA WaitStep ==
  ASSUME SetupIInv, NEW b \in Bootstraps, WaitForAccounts(b)
  PROVE  SetupIInv'
<1>1. /\ b \in Runs /\ run[b].at = "friendbot" /\ run' = [run EXCEPT ![b] = [run[b] EXCEPT !.at = "write"]]
      /\ UNCHANGED <<env, backups, funded, contracts, wasm, edits, written, overlapped>>
      /\ \A role \in Roles : <<b, role>> \in funded
  BY DEF WaitForAccounts, Step, Runs
<1>2. PICK x \in Progress : x = [run[b] EXCEPT !.at = "write"] /\ x.at = "write"
  <2>1. run[b] \in Progress
    BY <1>1 DEF SetupIInv, SetupShapes
  <2> QED
    BY <1>1, <2>1, Advances
<1>3. Running(b) /\ SetupShapes'
  BY <1>1, <1>2 DEF SetupIInv, SetupShapes, Running
<1>4. FileOK(env)'
  <2>1. \A c \in Runs : run[c].at = "over" => run'[c].at = "over"
    BY <1>1 DEF SetupIInv, SetupShapes
  <2> QED
    BY <1>1, <2>1 DEF SetupIInv, SetupShapes, FileOK, File, Runs
<1>5. Doing(b, x)'
  BY <1>1, <1>2 DEF Doing
<1>6. ~overlapped => Alone(b, x)' /\ EnvIsWhole'
  BY <1>1, <1>2 DEF SetupIInv, Alone, EnvIsWhole, Issuer
<1> QED
  BY <1>1, <1>2, <1>3, <1>4, <1>5, <1>6, RunSteps

LEMMA WriteStep ==
  ASSUME SetupIInv, NEW b \in Bootstraps, WriteEnv(b)
  PROVE  SetupIInv'
<1>1. /\ b \in Runs /\ run[b].at = "write" /\ run' = [run EXCEPT ![b] = [run[b] EXCEPT !.at = "over"]]
      /\ UNCHANGED <<backups, funded, contracts, wasm, edits, overlapped>>
      /\ env' = [keys |-> b, contract |-> NoOne] /\ written' = written \cup {env'}
  BY DEF WriteEnv, Write, Step, Runs
<1>2. PICK x \in Progress : x = [run[b] EXCEPT !.at = "over"] /\ x.at = "over"
  <2>1. run[b] \in Progress
    BY <1>1 DEF SetupIInv, SetupShapes
  <2> QED
    BY <1>1, <2>1, Advances
<1>3. env' \in File /\ env'.contract = NoOne /\ env'.keys = b
  BY <1>1 DEF File
<1>4. Running(b) /\ SetupShapes'
  BY <1>1, <1>2, <1>3 DEF SetupIInv, SetupShapes, Running
<1>5. FileOK(env)'
  BY <1>1, <1>3 DEF SetupIInv, Doing, FileOK
<1>6. Doing(b, x)' /\ Alone(b, x)'
  BY <1>2 DEF Doing, Alone
<1>7. ASSUME ~overlapped PROVE EnvIsWhole'
  <2>1. env = NoFile \/ env \in backups
    BY <1>1, <1>7 DEF SetupIInv, Alone
  <2>2. \A file \in written : (\E kept \in backups : kept.keys = file.keys) \/ file.keys = NoOne
    BY <1>7, <2>1 DEF SetupIInv, EnvIsWhole, NoFile
  <2> QED
    BY <1>1, <1>3, <2>2 DEF EnvIsWhole
<1> QED
  BY <1>1, <1>2, <1>4, <1>5, <1>6, <1>7, RunSteps

-----------------------------------------------------------------------------
(* deploy-marketplace-escrow.                                              *)
LEMMA FundStep ==
  ASSUME SetupIInv, NEW d \in Deploys, FundDeployer(d)
  PROVE  SetupIInv'
<1>1. /\ d \in Runs /\ run[d].at = "fund" /\ run' = [run EXCEPT ![d] = [run[d] EXCEPT !.at = "build"]]
      /\ UNCHANGED <<env, backups, contracts, wasm, edits, written, overlapped>>
      /\ funded \subseteq funded'
  BY DEF FundDeployer, Step, Runs
<1>2. PICK x \in Progress : x = [run[d] EXCEPT !.at = "build"] /\ x.at = "build"
  <2>1. run[d] \in Progress
    BY <1>1 DEF SetupIInv, SetupShapes
  <2> QED
    BY <1>1, <2>1, Advances
<1>3. Running(d) /\ SetupShapes'
  BY <1>1, <1>2 DEF SetupIInv, SetupShapes, Running
<1>4. FileOK(env)'
  <2>1. \A c \in Runs : run[c].at = "over" => run'[c].at = "over"
    BY <1>1 DEF SetupIInv, SetupShapes
  <2> QED
    BY <1>1, <2>1 DEF SetupIInv, SetupShapes, FileOK, File, Runs
<1>5. Doing(d, x)' /\ Alone(d, x)'
  BY <1>2 DEF Doing, Alone
<1>6. ~overlapped => EnvIsWhole'
  BY <1>1 DEF SetupIInv, EnvIsWhole, Issuer
<1> QED
  BY <1>1, <1>2, <1>3, <1>4, <1>5, <1>6, RunSteps

LEMMA BuildStep ==
  ASSUME SetupIInv, NEW d \in Deploys, Build(d)
  PROVE  SetupIInv'
<1>1. /\ d \in Runs /\ run[d].at = "build" /\ run' = [run EXCEPT ![d] = [at |-> "optimize", source |-> edits]]
      /\ UNCHANGED <<env, backups, funded, contracts, edits, written, overlapped>>
      /\ wasm' = [wasm EXCEPT !.built = edits]
  BY DEF Build, Runs
<1>2. PICK x \in Progress : x = [at |-> "optimize", source |-> edits] /\ x.at = "optimize" /\ x.source = edits
  <2>1. edits \in Code
    BY DEF Code, SetupIInv, SetupShapes
  <2>2. [at |-> "optimize", source |-> edits] \in Progress
    BY <2>1 DEF Progress
  <2> QED
    BY <2>2
<1>3. wasm' \in [built : Code, optimized : Code] /\ wasm'.built = edits
  BY <1>1 DEF Code, SetupIInv, SetupShapes
<1>4. Running(d) /\ SetupShapes'
  BY <1>1, <1>2, <1>3 DEF SetupIInv, SetupShapes, Running
<1>5. FileOK(env)'
  <2>1. \A c \in Runs : run[c].at = "over" => run'[c].at = "over"
    BY <1>1 DEF SetupIInv, SetupShapes
  <2> QED
    BY <1>1, <2>1 DEF SetupIInv, SetupShapes, FileOK, File, Runs
<1>6. Doing(d, x)' /\ Alone(d, x)'
  BY <1>2, <1>3 DEF Doing, Alone
<1>7. ~overlapped => EnvIsWhole'
  BY <1>1 DEF SetupIInv, EnvIsWhole, Issuer
<1> QED
  BY <1>1, <1>2, <1>4, <1>5, <1>6, <1>7, RunSteps

LEMMA OptimizeStep ==
  ASSUME SetupIInv, NEW d \in Deploys, Optimize(d)
  PROVE  SetupIInv'
<1>0. PICK works \in BOOLEAN :
        /\ wasm' = IF works THEN [wasm EXCEPT !.optimized = wasm.built] ELSE wasm
        /\ run' = [run EXCEPT ![d] = [at |-> "deploy", source |-> run[d].source, optimized |-> works]]
  BY DEF Optimize, SetupIInv, SetupShapes, Runs
<1>1. /\ d \in Runs /\ run[d].at = "optimize" /\ run' = [run EXCEPT ![d] = [at |-> "deploy", source |-> run[d].source, optimized |-> works]]
      /\ UNCHANGED <<env, backups, funded, contracts, edits, written, overlapped>>
  BY <1>0 DEF Optimize, Runs
<1>2. run[d] \in Progress /\ run[d].source \in Code
  BY <1>1 DEF Progress, SetupIInv, SetupShapes
<1>3. PICK x \in Progress : x = [at |-> "deploy", source |-> run[d].source, optimized |-> works] /\ x.at = "deploy" /\ x.source = run[d].source /\ x.optimized = works
  <2>1. [at |-> "deploy", source |-> run[d].source, optimized |-> works] \in Progress
    BY <1>0, <1>2 DEF Progress
  <2> QED
    BY <2>1
<1>4. /\ wasm' \in [built : Code, optimized : Code] /\ wasm'.built = wasm.built
      /\ works => wasm'.optimized = wasm.built
  BY <1>0 DEF SetupIInv, SetupShapes
<1>5. Running(d) /\ SetupShapes'
  BY <1>1, <1>3, <1>4 DEF SetupIInv, SetupShapes, Running
<1>6. FileOK(env)'
  <2>1. \A c \in Runs : run[c].at = "over" => run'[c].at = "over"
    BY <1>1 DEF SetupIInv, SetupShapes
  <2> QED
    BY <1>1, <2>1 DEF SetupIInv, SetupShapes, FileOK, File, Runs
<1>7. Doing(d, x)'
  BY <1>3 DEF Doing
<1>8. ASSUME ~overlapped PROVE Alone(d, x)' /\ EnvIsWhole'
  <2>1. wasm.built = run[d].source
    BY <1>1, <1>8 DEF SetupIInv, Alone
  <2>2. Alone(d, x)'
    BY <1>3, <1>4, <2>1 DEF Alone
  <2>3. EnvIsWhole'
    BY <1>1, <1>8 DEF SetupIInv, EnvIsWhole, Issuer
  <2> QED
    BY <2>2, <2>3
<1> QED
  BY <1>1, <1>3, <1>5, <1>6, <1>7, <1>8, RunSteps

LEMMA DeployStep ==
  ASSUME SetupIInv, NEW d \in Deploys, DeployContract(d)
  PROVE  SetupIInv'
<1>1. /\ d \in Runs /\ run[d].at = "deploy" /\ run' = [run EXCEPT ![d] = [run[d] EXCEPT !.at = "resolve"]]
      /\ UNCHANGED <<env, backups, funded, wasm, edits, written, overlapped>>
      /\ contracts' = [contracts EXCEPT ![d].code = WasmToUse]
  BY DEF DeployContract, Step, Runs
<1>2. PICK x \in Progress : /\ x = [run[d] EXCEPT !.at = "resolve"] /\ x.at = "resolve"
                            /\ x.source = run[d].source /\ x.optimized = run[d].optimized
  <2>1. run[d] \in Progress
    BY <1>1 DEF SetupIInv, SetupShapes
  <2> QED
    BY <1>1, <2>1, AdvancesOn
<1>3. /\ WasmToUse \in Code
      /\ contracts' \in [Deploys -> [code : Code, issuer : Usdc \cup {NoOne}]]
      /\ contracts'[d].code = WasmToUse
      /\ \A c \in Deploys : contracts'[c].issuer = contracts[c].issuer
      /\ \A c \in Deploys : c # d => contracts'[c] = contracts[c]
  <2>1. WasmToUse \in Code
    BY DEF WasmToUse, SetupIInv, SetupShapes
  <2> QED
    BY <1>1, <2>1 DEF SetupIInv, SetupShapes
<1>4. Running(d) /\ SetupShapes'
  BY <1>1, <1>2, <1>3 DEF SetupIInv, SetupShapes, Running
<1>5. FileOK(env)'
  <2>1. \A c \in Runs : run[c].at = "over" => run'[c].at = "over"
    BY <1>1 DEF SetupIInv, SetupShapes
  <2> QED
    BY <1>1, <1>3, <2>1 DEF SetupIInv, SetupShapes, FileOK, File, Runs
<1>6. Doing(d, x)'
  BY <1>2 DEF Doing
<1>7. ASSUME ~overlapped PROVE Alone(d, x)' /\ EnvIsWhole'
  <2>1. /\ wasm.built = run[d].source
        /\ run[d].optimized => wasm.optimized = run[d].source
    BY <1>1, <1>7 DEF SetupIInv, Alone
  <2>2. run[d].optimized => WasmToUse = run[d].source
    BY <2>1 DEF WasmToUse
  <2>3. Alone(d, x)'
    BY <1>2, <1>3, <2>2 DEF Alone
  <2>4. EnvIsWhole'
    BY <1>1, <1>3, <1>7 DEF SetupIInv, SetupShapes, File, EnvIsWhole, Issuer
  <2> QED
    BY <2>3, <2>4
<1> QED
  BY <1>1, <1>2, <1>3, <1>4, <1>5, <1>6, <1>7, RunSteps

\* What the code of a contract is, is kept while its run goes on.
LEMMA ResolveStep ==
  ASSUME SetupIInv, NEW d \in Deploys, Resolve(d)
  PROVE  SetupIInv'
<1>1. /\ d \in Runs /\ run[d].at = "resolve"
      /\ run' = [run EXCEPT ![d] = [at |-> "init", source |-> run[d].source, optimized |-> run[d].optimized, usdc |-> Issuer(env)]]
      /\ UNCHANGED <<env, backups, funded, contracts, wasm, edits, written, overlapped>>
  BY DEF Resolve, SetupIInv, SetupShapes, Runs
<1>2. Issuer(env) \in Usdc
  BY DEF SetupIInv, SetupShapes, File, Issuer, Usdc
<1>3. PICK x \in Progress :
        /\ x = [at |-> "init", source |-> run[d].source, optimized |-> run[d].optimized, usdc |-> Issuer(env)]
        /\ x.at = "init" /\ x.source = run[d].source /\ x.optimized = run[d].optimized /\ x.usdc = Issuer(env)
  <2>1. run[d] \in Progress
    BY <1>1 DEF SetupIInv, SetupShapes
  <2>2. run[d].source \in Code /\ run[d].optimized \in BOOLEAN
    BY <1>1, <2>1 DEF Progress
  <2>3. [at |-> "init", source |-> run[d].source, optimized |-> run[d].optimized, usdc |-> Issuer(env)] \in Progress
    BY <1>2, <2>2 DEF Progress
  <2> QED
    BY <2>3
<1>4. Running(d) /\ SetupShapes'
  BY <1>1, <1>3 DEF SetupIInv, SetupShapes, Running
<1>5. FileOK(env)'
  <2>1. \A c \in Runs : run[c].at = "over" => run'[c].at = "over"
    BY <1>1 DEF SetupIInv, SetupShapes
  <2> QED
    BY <1>1, <2>1 DEF SetupIInv, SetupShapes, FileOK, File, Runs
<1>6. Doing(d, x)'
  BY <1>3 DEF Doing
<1>7. ASSUME ~overlapped PROVE Alone(d, x)' /\ EnvIsWhole'
  <2>1. run[d].optimized => contracts[d].code = run[d].source
    BY <1>1, <1>7 DEF SetupIInv, Alone
  <2>2. Issuer(env)' = Issuer(env)
    BY <1>1 DEF Issuer
  <2>3. Alone(d, x)'
    BY <1>1, <1>3, <2>1, <2>2 DEF Alone
  <2>4. EnvIsWhole'
    BY <1>1, <1>7, <2>2 DEF SetupIInv, EnvIsWhole
  <2> QED
    BY <2>3, <2>4
<1> QED
  BY <1>1, <1>3, <1>4, <1>5, <1>6, <1>7, RunSteps

LEMMA InitStep ==
  ASSUME SetupIInv, NEW d \in Deploys, InitDeployed(d)
  PROVE  SetupIInv'
<1>1. /\ d \in Runs /\ run[d].at = "init" /\ run' = [run EXCEPT ![d] = [run[d] EXCEPT !.at = "patch"]]
      /\ UNCHANGED <<env, backups, funded, wasm, edits, written, overlapped>>
      /\ contracts' = [contracts EXCEPT ![d].issuer = run[d].usdc]
  BY DEF InitDeployed, Step, Runs
<1>2. PICK x \in Progress : /\ x = [run[d] EXCEPT !.at = "patch"] /\ x.at = "patch"
                            /\ x.source = run[d].source /\ x.optimized = run[d].optimized
  <2>1. run[d] \in Progress
    BY <1>1 DEF SetupIInv, SetupShapes
  <2> QED
    BY <1>1, <2>1, AdvancesOn
<1>3. run[d].usdc \in Usdc /\ run[d].usdc # NoOne
  <2>1. run[d] \in Progress
    BY <1>1 DEF SetupIInv, SetupShapes
  <2>2. run[d].usdc \in Usdc
    BY <1>1, <2>1 DEF Progress
  <2> QED
    BY <2>2, SetupAssumption DEF Usdc, Runs
<1>4. /\ contracts' \in [Deploys -> [code : Code, issuer : Usdc \cup {NoOne}]]
      /\ contracts'[d].code = contracts[d].code /\ contracts'[d].issuer = run[d].usdc
      /\ \A c \in Deploys : c # d => contracts'[c] = contracts[c]
  BY <1>1, <1>3 DEF SetupIInv, SetupShapes
<1>5. Running(d) /\ SetupShapes'
  BY <1>1, <1>2, <1>4 DEF SetupIInv, SetupShapes, Running
<1>6. FileOK(env)'
  <2>1. \A c \in Runs : run[c].at = "over" => run'[c].at = "over"
    BY <1>1 DEF SetupIInv, SetupShapes
  <2> QED
    BY <1>1, <1>3, <1>4, <2>1 DEF SetupIInv, SetupShapes, FileOK, File, Runs
<1>7. Doing(d, x)'
  BY <1>2, <1>3, <1>4 DEF Doing
<1>8. ASSUME ~overlapped PROVE Alone(d, x)' /\ EnvIsWhole'
  <2>1. /\ run[d].optimized => contracts[d].code = run[d].source
        /\ run[d].usdc = Issuer(env)
    BY <1>1, <1>8 DEF SetupIInv, Alone
  <2>2. Issuer(env)' = Issuer(env)
    BY <1>1 DEF Issuer
  <2>3. Alone(d, x)'
    BY <1>2, <1>4, <2>1, <2>2 DEF Alone
  <2>4. env.contract # NoOne => contracts'[env.contract] = contracts[env.contract]
    BY <1>1, <1>4 DEF SetupIInv, SetupShapes, FileOK, File
  <2>5. EnvIsWhole'
    BY <1>1, <1>8, <2>2, <2>4 DEF SetupIInv, EnvIsWhole
  <2> QED
    BY <2>3, <2>5
<1> QED
  BY <1>1, <1>2, <1>4, <1>5, <1>6, <1>7, <1>8, RunSteps

LEMMA ReadStep ==
  ASSUME SetupIInv, NEW d \in Deploys, ReadEnv(d)
  PROVE  SetupIInv'
<1>1. /\ d \in Runs /\ run[d].at = "patch"
      /\ run' = [run EXCEPT ![d] = [at |-> "rewrite", source |-> run[d].source, optimized |-> run[d].optimized, content |-> env]]
      /\ UNCHANGED <<env, backups, funded, contracts, wasm, edits, written, overlapped>>
  BY DEF ReadEnv, SetupIInv, SetupShapes, Runs
<1>2. PICK x \in Progress :
        /\ x = [at |-> "rewrite", source |-> run[d].source, optimized |-> run[d].optimized, content |-> env]
        /\ x.at = "rewrite" /\ x.source = run[d].source /\ x.optimized = run[d].optimized /\ x.content = env
  <2>1. run[d] \in Progress /\ env \in File
    BY <1>1 DEF SetupIInv, SetupShapes
  <2>2. run[d].source \in Code /\ run[d].optimized \in BOOLEAN
    BY <1>1, <2>1 DEF Progress
  <2>3. [at |-> "rewrite", source |-> run[d].source, optimized |-> run[d].optimized, content |-> env] \in Progress
    BY <2>1, <2>2 DEF Progress
  <2> QED
    BY <2>3
<1>3. Running(d) /\ SetupShapes'
  BY <1>1, <1>2 DEF SetupIInv, SetupShapes, Running
<1>4. FileOK(env)'
  <2>1. \A c \in Runs : run[c].at = "over" => run'[c].at = "over"
    BY <1>1 DEF SetupIInv, SetupShapes
  <2> QED
    BY <1>1, <2>1 DEF SetupIInv, SetupShapes, FileOK, File, Runs
<1>5. Doing(d, x)'
  <2>1. contracts[d].issuer # NoOne
    BY <1>1 DEF SetupIInv, Doing
  <2>2. FileOK(x.content)'
    BY <1>1, <1>2, <1>4
  <2> QED
    BY <1>1, <1>2, <2>1, <2>2 DEF Doing
<1>6. ASSUME ~overlapped PROVE Alone(d, x)' /\ EnvIsWhole'
  <2>1. /\ run[d].optimized => contracts[d].code = run[d].source
        /\ contracts[d].issuer = Issuer(env)
    BY <1>1, <1>6 DEF SetupIInv, Alone
  <2>2. Issuer(env)' = Issuer(env)
    BY <1>1 DEF Issuer
  <2>3. Alone(d, x)'
    BY <1>1, <1>2, <2>1, <2>2 DEF Alone
  <2>4. EnvIsWhole'
    BY <1>1, <1>6, <2>2 DEF SetupIInv, EnvIsWhole
  <2> QED
    BY <2>3, <2>4
<1> QED
  BY <1>1, <1>2, <1>3, <1>4, <1>5, <1>6, RunSteps

LEMMA RewriteStep ==
  ASSUME SetupIInv, NEW d \in Deploys, Rewrite(d)
  PROVE  SetupIInv'
<1>1. /\ d \in Runs /\ run[d].at = "rewrite" /\ run' = [run EXCEPT ![d] = [run[d] EXCEPT !.at = "over"]]
      /\ UNCHANGED <<backups, funded, contracts, wasm, edits, overlapped>>
      /\ env' = [run[d].content EXCEPT !.contract = d] /\ written' = written \cup {env'}
  BY DEF Rewrite, Write, Step, Runs
<1>2. PICK x \in Progress : x = [run[d] EXCEPT !.at = "over"] /\ x.at = "over"
  <2>1. run[d] \in Progress
    BY <1>1 DEF SetupIInv, SetupShapes
  <2> QED
    BY <1>1, <2>1, AdvancesOn
<1>3. run[d].content \in File
  <2>1. run[d] \in Progress
    BY <1>1 DEF SetupIInv, SetupShapes
  <2> QED
    BY <1>1, <2>1 DEF Progress
<1>4. env' \in File /\ env'.contract = d /\ env'.keys = run[d].content.keys
  BY <1>1, <1>3 DEF File
<1>5. Running(d) /\ SetupShapes'
  BY <1>1, <1>2, <1>4 DEF SetupIInv, SetupShapes, Running
<1>6. FileOK(env)'
  <2>1. FileOK(run[d].content) /\ contracts[d].issuer # NoOne
    BY <1>1 DEF SetupIInv, Doing
  <2>2. run'[d].at = "over"
    BY <1>1, <1>2 DEF SetupIInv, SetupShapes
  <2> QED
    BY <1>1, <1>4, <2>1, <2>2 DEF FileOK
<1>7. Doing(d, x)' /\ Alone(d, x)'
  BY <1>2 DEF Doing, Alone
<1>8. ASSUME ~overlapped PROVE EnvIsWhole'
  <2>1. run[d].content = env /\ contracts[d].issuer = Issuer(env)
    BY <1>1, <1>8 DEF SetupIInv, Alone
  <2>2. Issuer(env)' = Issuer(env) /\ env'.keys = env.keys
    BY <1>4, <2>1 DEF Issuer
  <2>3. \A file \in written' : (\E kept \in backups' \cup {env'} : kept.keys = file.keys) \/ file.keys = NoOne
    BY <1>1, <1>8, <2>2 DEF SetupIInv, EnvIsWhole
  <2> QED
    BY <1>1, <1>4, <2>1, <2>2, <2>3 DEF EnvIsWhole
<1> QED
  BY <1>1, <1>2, <1>5, <1>6, <1>7, <1>8, RunSteps

-----------------------------------------------------------------------------
LEMMA InitSetupStep == InitSetup => SetupIInv
<1> SUFFICES ASSUME InitSetup PROVE SetupIInv
  OBVIOUS
<1>1. \A r \in Runs : run[r] = [at |-> "idle"] /\ run[r].at = "idle"
  BY DEF InitSetup
<1>2. SetupShapes
  BY DEF InitSetup, SetupShapes, NoFile, File, Progress, Code
<1>3. FileOK(env) /\ EnvIsWhole
  BY DEF InitSetup, FileOK, NoFile, EnvIsWhole
<1>4. \A r \in Runs : Doing(r, run[r]) /\ Alone(r, run[r]) /\ ~Running(r)
  BY <1>1 DEF Doing, Alone, Running
<1> QED
  BY <1>2, <1>3, <1>4 DEF SetupIInv

LEMMA NextSetupStep == SetupIInv /\ [NextSetup]_setupVars => SetupIInv'
<1> SUFFICES ASSUME SetupIInv, [NextSetup]_setupVars PROVE SetupIInv'
  OBVIOUS
<1>1. ASSUME NEW r \in Runs, StartRun(r) \/ Dies(r) PROVE SetupIInv'
  BY <1>1, StartStep, DiesStep
<1>2. ASSUME NEW b \in Bootstraps, BackUp(b) \/ WaitForAccounts(b) \/ WriteEnv(b) PROVE SetupIInv'
  BY <1>2, BackUpStep, WaitStep, WriteStep
<1>3. ASSUME NEW d \in Deploys, FundDeployer(d) \/ Build(d) \/ Optimize(d) \/ DeployContract(d) PROVE SetupIInv'
  BY <1>3, FundStep, BuildStep, OptimizeStep, DeployStep
<1>4. ASSUME NEW d \in Deploys, Resolve(d) \/ InitDeployed(d) \/ ReadEnv(d) \/ Rewrite(d) PROVE SetupIInv'
  BY <1>4, ResolveStep, InitStep, ReadStep, RewriteStep
<1>5. CASE EditContract \/ UNCHANGED setupVars \/ \E b \in Bootstraps, role \in Roles : Friendbot(b, role)
  BY <1>5, StillSetup
<1> QED
  BY <1>1, <1>2, <1>3, <1>4, <1>5 DEF NextSetup

\* Whichever scripts run, in which order, and wherever they die: the keys in .env are
\* funded, the contract it names is initialised, and unless two ran at once it trades in
\* the issuer of .env, no file of keys is lost and what is deployed is what was built.
THEOREM SetupIsWhole == InitSetup /\ [][NextSetup]_setupVars => []SetupInv
<1>1. SetupIInv => SetupInv
  <2> SUFFICES ASSUME SetupIInv PROVE SetupInv
    OBVIOUS
  <2>1. EnvIsFunded
    BY DEF SetupIInv, FileOK, EnvIsFunded
  <2>2. EnvNamesEscrow
    BY DEF SetupIInv, FileOK, EnvIsWhole, EnvNamesEscrow
  <2>3. NoKeysLost
    BY DEF SetupIInv, EnvIsWhole, NoKeysLost
  <2>4. DeployedIsBuilt
    BY DEF SetupIInv, Alone, DeployedIsBuilt, Runs
  <2> QED
    BY <2>1, <2>2, <2>3, <2>4 DEF SetupInv
<1> QED
  BY <1>1, InitSetupStep, NextSetupStep, PTL

-----------------------------------------------------------------------------
(* The pages that list and act.                                            *)

Kinds == {"none", "upgrade", "buy", "cancel", "join", "place", "register", "leave", "list", "found", "create"}
Act == [at : {"idle", "asked", "done", "refused"}, heard : {"no", "ok", "error"}, kind : Kinds,
        thing : Things \cup {Nothing}, from : 0..MaxTier, shown : 0..MaxTier, alone : BOOLEAN, charged : Nat]
World == [open : SUBSET Things, mine : [Things -> 0..MaxTier], purse : 0..Credits]
Roster == [id : Nat, of : Things \cup {Nothing}]
Screen == [loading : BOOLEAN, open : SUBSET Things, mine : [Things -> 0..MaxTier], seen : SUBSET Nat, last : Nat,
           credits : 0..Credits, creditsSeen : SUBSET Nat, lastMe : Nat, tab : {"browse", "mine"},
           busy : [Things -> Nat], remade : SUBSET Things, leaving : Nat,
           dialog : [open : BOOLEAN, busy : Nat], selected : Things \cup {Nothing},
           wanted : Roster, fetching : SUBSET Roster, detail : Roster]
Load == [id : Nat, what : {"page", "me"}, after : BOOLEAN, leaving : BOOLEAN, chosen : BOOLEAN,
         got : SUBSET {"list", "mine", "me"}, seen : SUBSET Nat, open : SUBSET Things,
         mine : [Things -> 0..MaxTier], credits : 0..Credits]
Counts == [reads : Nat, tabs : Nat, changes : Nat, misses : Nat]

PagesShapes ==
  /\ page \in WebPages /\ world \in World /\ acts \in [ActIds -> Act] /\ screen \in Screen
  /\ reads \subseteq Load /\ counts \in Counts

\* A call is of a thing; an upgrade is the garage's only call.
ActOK(x) ==
  /\ x.at = "idle" => x = Idle
  /\ x.at # "idle" => x.thing \in Things /\ x.kind # "none" /\ (x.kind = "upgrade" <=> page = "garage")
  /\ x.heard = "ok" => x.at = "done"
  /\ (x.alone \/ x.charged > 0) => x.kind = "upgrade"
  /\ x.kind = "leave" => page = "factions"
ActsOK == \A a \in ActIds : ActOK(acts[a])

\* What a load has read it has read with all that was answered before the load was asked for.
ReadOK(l) ==
  /\ l.id <= counts.reads /\ l.seen \subseteq Effected
  /\ l.id = counts.reads /\ l.got # {} => Granted \subseteq l.seen
  /\ l.what = "me" => This.me
  /\ l.leaving => page = "factions"
  /\ l.got \subseteq Wanted(l)
ReadsOK ==
  /\ \A l \in reads : ReadOK(l)
  /\ screen.last <= counts.reads /\ screen.lastMe <= counts.reads /\ screen.seen \subseteq Effected
  /\ ToldIsShown

\* The tiers of the slots whose upgrades have all been seen are those of now.
Matches(tiers, seen) ==
  \A i \in Things : (\A a \in Effected : acts[a].thing = i => a \in seen) => tiers[i] = world.mine[i]
TiersMatch == page = "garage" =>
  /\ Matches(screen.mine, screen.seen)
  /\ \A l \in reads : l.what = "page" /\ l.got # {} => Matches(l.mine, l.seen)

\* An upgrade that was asked for alone finds the tier that was shown.
AloneOK ==
  \A a \in ActIds : acts[a].alone /\ acts[a].at = "asked" =>
    /\ world.mine[acts[a].thing] = acts[a].shown
    /\ \A b \in ActIds \ {a} : acts[b].thing = acts[a].thing => acts[b].at # "asked"

\* A busy button is its own call's.
Ordinary(a) == acts[a].kind \notin {This.new, "leave"}
ButtonsOK ==
  /\ \A i \in Things : screen.busy[i] # 0 =>
       \E a \in ActIds : screen.busy[i] = a /\ Out(a) /\ acts[a].thing = i /\ Ordinary(a)
  /\ screen.dialog.busy # 0 => \E a \in ActIds : screen.dialog.busy = a /\ Out(a) /\ acts[a].kind = This.new
  /\ screen.leaving # 0 =>
       \E a \in ActIds : screen.leaving = a /\ acts[a].kind = "leave" /\ (Out(a) \/ \E l \in reads : l.leaving)

\* A call that is out has its button, unless the card was made anew or the flag has passed.
Excused(i) == i \in screen.remade \/ (page = "garage" /\ \E c \in ActIds : acts[c].thing \notin {Nothing, i})
CallsOK ==
  \A a \in ActIds, i \in Things :
    Out(a) /\ Ordinary(a) /\ acts[a].thing = i => screen.busy[i] = a \/ Excused(i)

\* A roster has the number it was fetched under.
RosterOK ==
  /\ \A d \in screen.fetching \cup {screen.detail} :
       d.id <= screen.wanted.id /\ (d.id = screen.wanted.id => d = screen.wanted)

PagesIInv ==
  /\ PagesShapes /\ ActsOK /\ ReadsOK /\ TiersMatch
  /\ AloneOK /\ BilledAsShown /\ ButtonsOK /\ CallsOK /\ RosterOK

-----------------------------------------------------------------------------
LEMMA SiteFacts ==
  ASSUME page \in WebPages
  PROVE  /\ This.new \in {"none", "list", "found", "create"}
         /\ (This.me <=> page = "garage") /\ (This.oneFlag <=> page = "garage")
         /\ "list" \in This.reads /\ This.reads \subseteq {"list", "mine"}
         /\ page = "garage" => This.reads = {"list"} /\ This.new = "none"
         /\ This.others => page # "garage"
         /\ page \in {"market", "factions", "tournaments"} => This.new # "none"
<1> DEFINE Pages5 == {"garage", "market", "factions", "betting", "tournaments", "board"}
<1>1. WebPages = Pages5
  BY DEF WebPages, Sites
<1>2. CASE page = "garage"
  BY <1>2 DEF This, Sites, GaragePage, Board
<1>3. CASE page = "market"
  BY <1>3 DEF This, Sites, MarketPage, Board
<1>4. CASE page = "factions"
  BY <1>4 DEF This, Sites, FactionsPage, Board
<1>5. CASE page = "betting"
  BY <1>5 DEF This, Sites, BettingPage, Board
<1>6. CASE page = "tournaments"
  BY <1>6 DEF This, Sites, TournamentsPage, Board
<1>7. CASE page = "board"
  BY <1>7 DEF This, Sites, Board
<1> QED
  BY <1>1, <1>2, <1>3, <1>4, <1>5, <1>6, <1>7

\* What a page keeps of its cards when they change.
LEMMA KeptFields ==
  ASSUME NEW s \in Screen
  PROVE  LET t == Kept(s)
         IN /\ t \in Screen
            /\ t.seen = s.seen /\ t.mine = s.mine /\ t.last = s.last /\ t.creditsSeen = s.creditsSeen /\ t.lastMe = s.lastMe
            /\ t.dialog = s.dialog /\ t.leaving = s.leaving /\ t.wanted = s.wanted /\ t.fetching = s.fetching
            /\ t.detail = s.detail /\ t.selected = s.selected
            /\ s.remade \subseteq t.remade
            /\ \A i \in Things : t.busy[i] = s.busy[i] \/ (t.busy[i] = 0 /\ i \in t.remade)
<1>1. PICK gone \in SUBSET Things :
        Kept(s) = [s EXCEPT !.busy = [i \in Things |-> IF i \in gone THEN 0 ELSE s.busy[i]], !.remade = s.remade \cup gone]
  BY DEF Kept
<1>2. PICK busy \in [Things -> Nat] : busy = [i \in Things |-> IF i \in gone THEN 0 ELSE s.busy[i]]
  BY DEF Screen
<1>3. PICK remade \in SUBSET Things : remade = s.remade \cup gone
  BY DEF Screen
<1>4. PICK t : t = Kept(s) /\ t = [s EXCEPT !.busy = busy, !.remade = remade]
  BY <1>1, <1>2, <1>3
<1>5. t \in Screen
  BY <1>4 DEF Screen
<1>6. /\ t.seen = s.seen /\ t.mine = s.mine /\ t.last = s.last /\ t.creditsSeen = s.creditsSeen /\ t.lastMe = s.lastMe
      /\ t.dialog = s.dialog /\ t.leaving = s.leaving /\ t.wanted = s.wanted /\ t.fetching = s.fetching
      /\ t.detail = s.detail /\ t.selected = s.selected
  BY <1>4 DEF Screen
<1>7. t.busy = busy /\ t.remade = remade
  BY <1>4 DEF Screen
<1> QED
  BY <1>2, <1>3, <1>4, <1>5, <1>6, <1>7

-----------------------------------------------------------------------------
(* What stays, piece by piece.                                             *)

LEMMA ActIdsStay ==
  ASSUME UNCHANGED page
  PROVE  ActIds' = ActIds /\ This' = This
BY DEF ActIds, This

LEMMA ActsStay ==
  ASSUME PagesIInv, UNCHANGED <<page, world, acts>>
  PROVE  /\ ActIds' = ActIds /\ This' = This /\ Effected' = Effected /\ Granted' = Granted
         /\ ActsOK' /\ AloneOK' /\ BilledAsShown'
<1>1. ActIds' = ActIds /\ This' = This
  BY ActIdsStay
<1>2. Effected' = Effected /\ Granted' = Granted
  BY <1>1 DEF Effected, Granted
<1>3. ActsOK' /\ AloneOK'
  BY <1>1 DEF PagesIInv, ActsOK, ActOK, AloneOK
<1>4. BilledAsShown'
  BY <1>2 DEF PagesIInv, BilledAsShown
<1> QED
  BY <1>1, <1>2, <1>3, <1>4

LEMMA RosterStays ==
  ASSUME RosterOK, screen'.wanted = screen.wanted, screen'.fetching = screen.fetching, screen'.detail = screen.detail
  PROVE  RosterOK'
BY DEF RosterOK

\* No call is made or answered; a card may be made anew, a dialog closed, LEAVE be over.
LEMMA ButtonsStay ==
  ASSUME PagesIInv, UNCHANGED <<page, acts>>, screen' \in Screen, screen.remade \subseteq screen'.remade,
         \A i \in Things : screen'.busy[i] = screen.busy[i] \/ (screen'.busy[i] = 0 /\ i \in screen'.remade),
         screen'.dialog.busy \in {0, screen.dialog.busy},
         screen'.leaving = 0 \/ (screen'.leaving = screen.leaving /\ \A l \in reads : l.leaving => \E m \in reads' : m.leaving)
  PROVE  ButtonsOK' /\ CallsOK'
<1>1. ActIds' = ActIds /\ This' = This
  BY ActIdsStay
<1>2. \A i \in Things : Excused(i) => Excused(i)'
  BY <1>1 DEF Excused
<1>3. \A a \in ActIds : (Ordinary(a)' <=> Ordinary(a)) /\ (Out(a)' <=> Out(a))
  BY <1>1 DEF Ordinary, Out
<1>4. CallsOK'
  <2> SUFFICES ASSUME NEW a \in ActIds, NEW i \in Things, Out(a), Ordinary(a), acts[a].thing = i
               PROVE  screen'.busy[i] = a \/ Excused(i)'
    BY <1>1, <1>3 DEF CallsOK
  <2>1. screen.busy[i] = a \/ Excused(i)
    BY DEF PagesIInv, CallsOK
  <2>2. i \in screen'.remade => Excused(i)'
    BY DEF Excused
  <2> QED
    BY <1>2, <2>1, <2>2
<1>5. ButtonsOK'
  <2>1. ASSUME NEW i \in Things, screen'.busy[i] # 0
        PROVE  \E a \in ActIds : screen'.busy[i] = a /\ Out(a)' /\ acts[a].thing = i /\ Ordinary(a)'
    <3>1. screen'.busy[i] = screen.busy[i]
      BY <2>1
    <3> QED
      BY <1>3, <2>1, <3>1 DEF PagesIInv, ButtonsOK
  <2>2. ASSUME screen'.dialog.busy # 0
        PROVE  \E a \in ActIds : screen'.dialog.busy = a /\ Out(a)' /\ acts[a].kind = This.new
    <3>1. screen'.dialog.busy = screen.dialog.busy
      BY <2>2
    <3> QED
      BY <1>3, <2>2, <3>1 DEF PagesIInv, ButtonsOK
  <2>3. ASSUME screen'.leaving # 0
        PROVE  \E a \in ActIds : screen'.leaving = a /\ acts[a].kind = "leave" /\ (Out(a)' \/ \E l \in reads' : l.leaving)
    <3>1. screen'.leaving = screen.leaving
      BY <2>3
    <3> QED
      BY <1>3, <2>3, <3>1 DEF PagesIInv, ButtonsOK
  <2> QED
    BY <1>1, <2>1, <2>2, <2>3 DEF ButtonsOK
<1> QED
  BY <1>4, <1>5

\* What the page shows is new, or what is loaded has been read further.
LEMMA ShownMoves ==
  ASSUME PagesIInv, UNCHANGED <<page, world, acts>>, counts'.reads = counts.reads,
         screen'.last <= counts.reads, screen'.lastMe <= counts.reads, screen'.seen \subseteq Effected,
         screen'.last = counts.reads => Granted \subseteq screen'.seen,
         page = "garage" /\ screen'.lastMe = counts.reads => Granted \subseteq screen'.creditsSeen,
         page = "garage" => Matches(screen'.mine, screen'.seen),
         \A l \in reads' : l \in reads \/ (ReadOK(l) /\ (page = "garage" /\ l.what = "page" /\ l.got # {} =>
                                                        Matches(l.mine, l.seen)))
  PROVE  ReadsOK' /\ TiersMatch'
<1>1. ActIds' = ActIds /\ This' = This /\ Effected' = Effected /\ Granted' = Granted
  BY ActsStay
<1>2. \A l \in reads' : ReadOK(l) /\ (page = "garage" /\ l.what = "page" /\ l.got # {} => Matches(l.mine, l.seen))
  BY DEF PagesIInv, ReadsOK, TiersMatch
<1>3. ReadsOK'
  BY <1>1, <1>2 DEF ReadsOK, ReadOK, ToldIsShown, Wanted
<1>4. TiersMatch'
  <2>1. \A m, seen : Matches(m, seen)' <=> Matches(m, seen)
    BY <1>1 DEF Matches
  <2> QED
    BY <1>2, <2>1 DEF TiersMatch
<1> QED
  BY <1>3, <1>4

LEMMA ShownStays ==
  ASSUME PagesIInv, UNCHANGED <<page, world, acts>>, counts'.reads = counts.reads,
         screen'.seen = screen.seen, screen'.mine = screen.mine, screen'.last = screen.last,
         screen'.creditsSeen = screen.creditsSeen, screen'.lastMe = screen.lastMe,
         \A l \in reads' : l \in reads \/ (ReadOK(l) /\ (page = "garage" /\ l.what = "page" /\ l.got # {} =>
                                                        Matches(l.mine, l.seen)))
  PROVE  ReadsOK' /\ TiersMatch'
<1>1. /\ screen.last <= counts.reads /\ screen.lastMe <= counts.reads /\ screen.seen \subseteq Effected
      /\ screen.last = counts.reads => Granted \subseteq screen.seen
      /\ page = "garage" /\ screen.lastMe = counts.reads => Granted \subseteq screen.creditsSeen
      /\ page = "garage" => Matches(screen.mine, screen.seen)
  BY DEF PagesIInv, ReadsOK, ToldIsShown, TiersMatch
<1> QED
  BY <1>1, ShownMoves

\* A load is asked for.
LEMMA LoadStarts ==
  ASSUME PagesIInv, NEW after \in BOOLEAN, NEW leaving \in BOOLEAN, StartLoad(after, leaving),
         UNCHANGED <<page, world>>, Effected' = Effected, \A a \in ActIds : acts'[a].thing = acts[a].thing,
         screen'.seen = screen.seen, screen'.mine = screen.mine, screen'.last = screen.last,
         screen'.creditsSeen = screen.creditsSeen, screen'.lastMe = screen.lastMe,
         leaving => page = "factions"
  PROVE  /\ ReadsOK' /\ TiersMatch' /\ reads' \subseteq Load /\ counts' \in Counts
         /\ reads \subseteq reads' /\ (leaving => \E l \in reads' : l.leaving)
<1>0. counts \in Counts /\ reads \subseteq Load /\ screen \in Screen
  BY DEF PagesIInv, PagesShapes
<1>1. PICK n \in Nat, chosen \in BOOLEAN : n = counts.reads /\ (chosen <=> screen.selected # Nothing)
  BY <1>0 DEF Counts
<1>2. PICK l : l = [id |-> n + 1, what |-> "page", after |-> after, leaving |-> leaving, chosen |-> chosen,
                    got |-> {}, seen |-> {}, open |-> {}, mine |-> Nobodys, credits |-> 0]
  OBVIOUS
<1>3. l \in Load /\ l.id = n + 1 /\ l.what = "page" /\ l.got = {} /\ l.seen = {} /\ l.leaving = leaving
  <2>1. Nobodys \in [Things -> 0..MaxTier] /\ 0 \in 0..Credits
    BY PagesAssumption DEF Nobodys
  <2> QED
    BY <1>2, <2>1 DEF Load
<1>4. reads' = reads \cup {l} /\ counts' = [counts EXCEPT !.reads = n + 1]
  <2>1. chosen = (screen.selected # Nothing)
    BY <1>1
  <2> QED
    BY <1>1, <1>2, <2>1 DEF StartLoad
<1>5. counts' \in Counts /\ counts'.reads = n + 1
  BY <1>0, <1>4 DEF Counts
<1>6. ActIds' = ActIds /\ This' = This
  BY ActIdsStay
<1>7. ReadsOK'
  <2>1. \A m \in reads : m.id \in Nat /\ m.id <= n /\ m.seen \subseteq Effected /\ (m.what = "me" => This.me)
                          /\ (m.leaving => page = "factions") /\ m.got \subseteq Wanted(m)
    BY <1>0, <1>1 DEF PagesIInv, ReadsOK, ReadOK, Load
  <2>2. \A m \in reads : ReadOK(m)'
    BY <1>1, <1>5, <1>6, <2>1 DEF ReadOK, Wanted
  <2>3. ReadOK(l)'
    BY <1>1, <1>3, <1>5, <1>6 DEF ReadOK, Wanted
  <2>4. screen.last \in Nat /\ screen.lastMe \in Nat /\ screen.last <= n /\ screen.lastMe <= n /\ screen.seen \subseteq Effected
    BY <1>0, <1>1 DEF Screen, PagesIInv, ReadsOK
  <2>5. ToldIsShown'
    BY <1>1, <1>5, <2>4 DEF ToldIsShown
  <2> QED
    BY <1>1, <1>4, <1>5, <2>2, <2>3, <2>4, <2>5 DEF ReadsOK
<1>8. TiersMatch'
  <2>1. \A m, seen : Matches(m, seen) => Matches(m, seen)'
    BY <1>6 DEF Matches, Effected
  <2> QED
    BY <1>3, <1>4, <2>1 DEF PagesIInv, TiersMatch
<1> QED
  BY <1>0, <1>3, <1>4, <1>5, <1>7, <1>8

-----------------------------------------------------------------------------
(* One lemma per action, or per few that are alike.                        *)

LEMMA GrantedIsEffected ==
  ASSUME PagesIInv
  PROVE  Granted \subseteq Effected /\ Effected \subseteq Nat
<1>1. \A a \in ActIds : ActOK(acts[a])
  BY DEF PagesIInv, ActsOK
<1>2. ActIds \subseteq Nat
  BY DEF ActIds
<1> QED
  BY <1>1, <1>2 DEF Granted, Effected, ActOK

LEMMA MissCounted ==
  ASSUME counts \in Counts, counts' = [counts EXCEPT !.misses = @ + 1]
  PROVE  counts' \in Counts /\ counts'.reads = counts.reads
BY DEF Counts

LEMMA ReadingStep ==
  ASSUME PagesIInv, NEW l \in reads,
         (\E part \in {"list", "mine", "me"} : Read(l, part)) \/ MissMine(l)
  PROVE  PagesIInv'
<1>0. /\ l \in Load /\ world \in World /\ counts \in Counts /\ reads \subseteq Load /\ screen \in Screen
      /\ page \in WebPages /\ acts \in [ActIds -> Act] /\ ReadOK(l)
  BY DEF PagesIInv, PagesShapes, ReadsOK
<1>1. PICK part \in {"list", "mine", "me"} : Read(l, part) \/ (part = "mine" /\ MissMine(l))
  OBVIOUS
<1>2. /\ part \in Wanted(l) /\ part \notin l.got /\ UNCHANGED <<page, world, acts, screen>>
      /\ counts' \in Counts /\ counts'.reads = counts.reads
  <2>1. CASE Read(l, part)
    BY <1>0, <2>1 DEF Read
  <2>2. CASE part = "mine" /\ MissMine(l)
    BY <1>0, <2>2, MissCounted DEF MissMine
  <2> QED
    BY <1>1, <2>1, <2>2
<1>3. PICK seen \in SUBSET Nat : seen = (IF l.got = {} THEN Effected ELSE l.seen)
  BY <1>0, GrantedIsEffected DEF Load
<1>4. PICK got \in SUBSET {"list", "mine", "me"} : got = l.got \cup {part}
  BY <1>0 DEF Load
<1>5. OwnNow \in [Things -> 0..MaxTier] /\ (page = "garage" => \A i \in Things : OwnNow[i] = world.mine[i])
  <2>1. world.mine \in [Things -> 0..MaxTier] /\ 0 \in 0..MaxTier
    BY <1>0, PagesAssumption DEF World
  <2> QED
    BY <2>1 DEF OwnNow
<1>6. PICK m \in Load : /\ reads' = (reads \ {l}) \cup {m} /\ m.id = l.id /\ m.what = l.what /\ m.leaving = l.leaving
                        /\ m.got = got /\ m.seen = seen
                        /\ page = "garage" => m.mine = OwnNow
  <2>1. CASE Read(l, part)
    <3>1. PICK open \in SUBSET Things : open = (IF part = "list" THEN world.open ELSE l.open)
      BY <1>0 DEF Load, World
    <3>2. PICK mine \in [Things -> 0..MaxTier] : mine = (IF part = "mine" \/ page = "garage" THEN OwnNow ELSE l.mine)
      BY <1>0, <1>5 DEF Load
    <3>3. PICK credits \in 0..Credits : credits = (IF part = "me" THEN world.purse ELSE l.credits)
      BY <1>0 DEF Load, World
    <3>4. PICK m : m = [l EXCEPT !.got = got, !.seen = seen, !.open = open, !.mine = mine, !.credits = credits]
      OBVIOUS
    <3>5. reads' = (reads \ {l}) \cup {m}
      BY <1>3, <1>4, <2>1, <3>1, <3>2, <3>3, <3>4 DEF Read
    <3>6. m \in Load /\ m.id = l.id /\ m.what = l.what /\ m.leaving = l.leaving /\ m.got = got /\ m.seen = seen /\ m.mine = mine
      BY <1>0, <3>4 DEF Load
    <3> QED
      BY <3>2, <3>5, <3>6
  <2>2. CASE part = "mine" /\ MissMine(l)
    <3>1. PICK m : m = [l EXCEPT !.got = got, !.seen = seen]
      OBVIOUS
    <3>2. reads' = (reads \ {l}) \cup {m}
      BY <1>3, <1>4, <2>2, <3>1 DEF MissMine
    <3>3. m \in Load /\ m.id = l.id /\ m.what = l.what /\ m.leaving = l.leaving /\ m.got = got /\ m.seen = seen
      BY <1>0, <3>1 DEF Load
    <3>4. page # "garage"
      BY <1>0, <1>2, <2>2, SiteFacts DEF Wanted
    <3> QED
      BY <3>2, <3>3, <3>4
  <2> QED
    BY <1>1, <2>1, <2>2
<1>7. ReadOK(m)
  <2>1. got \subseteq Wanted(m)
    BY <1>0, <1>2, <1>4, <1>6 DEF ReadOK, Wanted
  <2>2. seen \subseteq Effected /\ (l.id = counts.reads => Granted \subseteq seen)
    BY <1>0, <1>3, GrantedIsEffected DEF ReadOK
  <2> QED
    BY <1>0, <1>6, <2>1, <2>2 DEF ReadOK
<1>8. page = "garage" /\ m.what = "page" => Matches(m.mine, m.seen)
  BY <1>5, <1>6 DEF Matches
<1>9. ReadsOK' /\ TiersMatch'
  BY <1>2, <1>6, <1>7, <1>8, ShownStays
<1>10. PagesShapes'
  BY <1>0, <1>2, <1>6, ActsStay DEF PagesShapes
<1>11. ButtonsOK' /\ CallsOK'
  <2>1. \A k \in reads : k.leaving => \E h \in reads' : h.leaving
    BY <1>6
  <2> QED
    BY <1>0, <1>2, <2>1, ButtonsStay
<1>12. RosterOK'
  BY <1>2, RosterStays DEF PagesIInv
<1> QED
  BY <1>2, <1>9, <1>10, <1>11, <1>12, ActsStay DEF PagesIInv

LEMMA PollPageStep ==
  ASSUME PagesIInv, PollPage
  PROVE  PagesIInv'
<1>1. StartLoad(FALSE, FALSE) /\ UNCHANGED <<page, world, acts, screen>>
  BY DEF PollPage
<1>2. ReadsOK' /\ TiersMatch' /\ reads' \subseteq Load /\ counts' \in Counts /\ reads \subseteq reads'
  BY <1>1, LoadStarts, ActsStay
<1>3. PagesShapes'
  BY <1>1, <1>2, ActsStay DEF PagesIInv, PagesShapes
<1>4. ButtonsOK' /\ CallsOK'
  BY <1>1, <1>2, ButtonsStay DEF PagesIInv, PagesShapes
<1>5. RosterOK'
  BY <1>1, RosterStays DEF PagesIInv
<1> QED
  BY <1>1, <1>2, <1>3, <1>4, <1>5, ActsStay DEF PagesIInv

SameShow(s, t) == t.seen = s.seen /\ t.mine = s.mine /\ t.last = s.last /\ t.creditsSeen = s.creditsSeen /\ t.lastMe = s.lastMe
SameButtons(s, t) == t.busy = s.busy /\ t.remade = s.remade /\ t.dialog = s.dialog /\ t.leaving = s.leaving
SameRoster(s, t) == t.wanted = s.wanted /\ t.fetching = s.fetching /\ t.detail = s.detail

LEMMA LeaveOverFields ==
  ASSUME NEW s \in Screen, NEW l \in Load
  PROVE  LET t == LeaveOver(l, s)
         IN /\ t \in Screen /\ SameShow(s, t) /\ SameRoster(s, t) /\ t.busy = s.busy /\ t.remade = s.remade
            /\ t.dialog = s.dialog /\ t.leaving \in {0, s.leaving} /\ (l.leaving => t.leaving = 0)
<1>1. CASE l.leaving
  <2>1. PICK t : t = LeaveOver(l, s) /\ t = [s EXCEPT !.leaving = 0]
    BY <1>1 DEF LeaveOver
  <2>2. t \in Screen
    BY <2>1 DEF Screen
  <2>3. SameShow(s, t) /\ SameRoster(s, t)
    BY <2>1 DEF Screen, SameShow, SameRoster
  <2>4. t.busy = s.busy /\ t.remade = s.remade /\ t.dialog = s.dialog /\ t.leaving = 0
    BY <2>1 DEF Screen
  <2> QED
    BY <2>1, <2>2, <2>3, <2>4
<1>2. CASE ~l.leaving
  <2>1. LeaveOver(l, s) = s
    BY <1>2 DEF LeaveOver
  <2> QED
    BY <1>2, <2>1 DEF SameShow, SameRoster
<1> QED
  BY <1>1, <1>2

LEMMA GoneOn ==
  ASSUME PagesIInv, NEW l \in reads, GoOn(l)
  PROVE  /\ reads' \subseteq Load /\ reads \ {l} \subseteq reads'
         /\ \A m \in reads' : m \in reads \/ (ReadOK(m) /\ m.what = "me")
<1>0. l \in Load /\ reads \subseteq Load /\ ReadOK(l)
  BY DEF PagesIInv, PagesShapes, ReadsOK
<1>1. CASE l.what = "page" /\ This.me /\ l.after
  <2>1. PICK m : m = [l EXCEPT !.what = "me", !.got = {}, !.seen = {}]
    OBVIOUS
  <2>2. reads' = (reads \ {l}) \cup {m}
    BY <1>1, <2>1 DEF GoOn
  <2>3. m \in Load /\ m.id = l.id /\ m.what = "me" /\ m.got = {} /\ m.seen = {} /\ m.leaving = l.leaving
    BY <1>0, <2>1 DEF Load
  <2>4. ReadOK(m)
    BY <1>0, <1>1, <2>3 DEF ReadOK
  <2> QED
    BY <1>0, <2>2, <2>3, <2>4
<1>2. CASE ~(l.what = "page" /\ This.me /\ l.after)
  <2>1. reads' = reads \ {l}
    BY <1>2 DEF GoOn
  <2> QED
    BY <1>0, <2>1
<1> QED
  BY <1>1, <1>2

LEMMA ApplyPageStep ==
  ASSUME PagesIInv, NEW l \in reads, ApplyPage(l)
  PROVE  PagesIInv'
<1>0. /\ l \in Load /\ counts \in Counts /\ reads \subseteq Load /\ screen \in Screen
      /\ page \in WebPages /\ ReadOK(l)
  BY DEF PagesIInv, PagesShapes, ReadsOK
<1>1. /\ l.what = "page" /\ l.got = Wanted(l) /\ GoOn(l) /\ UNCHANGED <<page, world, acts, counts>>
  BY DEF ApplyPage
<1>2. PICK i \in Things \cup {Nothing} :
        screen' = LeaveOver(l, Kept([screen EXCEPT !.loading = FALSE, !.open = l.open, !.mine = l.mine,
                                             !.seen = l.seen, !.last = l.id, !.selected = i]))
  <2>1. Selections(l) \subseteq Things \cup {Nothing}
    BY <1>0 DEF Selections, Load, Screen
  <2> QED
    BY <2>1 DEF ApplyPage
<1>3. PICK s : s = [screen EXCEPT !.loading = FALSE, !.open = l.open, !.mine = l.mine,
                                  !.seen = l.seen, !.last = l.id, !.selected = i]
  OBVIOUS
<1>4. s \in Screen
  <2>1. /\ l.open \in SUBSET Things /\ l.mine \in [Things -> 0..MaxTier] /\ l.seen \in SUBSET Nat /\ l.id \in Nat
    BY <1>0 DEF Load
  <2> QED
    BY <1>0, <1>3, <2>1 DEF Screen
<1>5. s.seen = l.seen /\ s.mine = l.mine /\ s.last = l.id /\ s.creditsSeen = screen.creditsSeen /\ s.lastMe = screen.lastMe
  BY <1>0, <1>3 DEF Screen
<1>6. SameButtons(screen, s) /\ SameRoster(screen, s)
  BY <1>0, <1>3 DEF Screen, SameButtons, SameRoster
<1>7. PICK t : t = Kept(s)
  OBVIOUS
<1>8. /\ t \in Screen /\ SameShow(s, t) /\ SameRoster(s, t) /\ t.dialog = s.dialog /\ t.leaving = s.leaving
      /\ s.remade \subseteq t.remade /\ \A k \in Things : t.busy[k] = s.busy[k] \/ (t.busy[k] = 0 /\ k \in t.remade)
  BY <1>4, <1>7, KeptFields DEF SameShow, SameRoster
<1>9. screen' = LeaveOver(l, t)
  BY <1>2, <1>3, <1>7
<1>10. /\ screen' \in Screen /\ SameShow(t, screen') /\ SameRoster(t, screen') /\ screen'.busy = t.busy
       /\ screen'.remade = t.remade /\ screen'.dialog = t.dialog /\ screen'.leaving \in {0, t.leaving}
       /\ (l.leaving => screen'.leaving = 0)
  BY <1>0, <1>8, <1>9, LeaveOverFields
<1>11. /\ reads' \subseteq Load /\ reads \ {l} \subseteq reads'
       /\ \A m \in reads' : m \in reads \/ (ReadOK(m) /\ m.what = "me")
  BY <1>1, GoneOn
<1>12. ReadsOK' /\ TiersMatch'
  <2>1. /\ screen'.seen = l.seen /\ screen'.mine = l.mine /\ screen'.last = l.id
        /\ screen'.creditsSeen = screen.creditsSeen /\ screen'.lastMe = screen.lastMe
    BY <1>5, <1>8, <1>10 DEF SameShow
  <2>2. l.got # {}
    BY <1>0, <1>1, SiteFacts DEF Wanted
  <2>3. /\ l.id <= counts.reads /\ l.seen \subseteq Effected /\ (l.id = counts.reads => Granted \subseteq l.seen)
        /\ (page = "garage" => Matches(l.mine, l.seen))
    BY <1>0, <1>1, <2>2 DEF ReadOK, PagesIInv, TiersMatch
  <2>4. screen.lastMe <= counts.reads /\ (page = "garage" /\ screen.lastMe = counts.reads => Granted \subseteq screen.creditsSeen)
    BY DEF PagesIInv, ReadsOK, ToldIsShown
  <2>5. \A m \in reads' : m \in reads \/ (ReadOK(m) /\ m.what # "page")
    BY <1>11
  <2> QED
    BY <1>1, <2>1, <2>3, <2>4, <2>5, ShownMoves
<1>13. ButtonsOK' /\ CallsOK'
  <2>1. \A k \in Things : screen'.busy[k] = screen.busy[k] \/ (screen'.busy[k] = 0 /\ k \in screen'.remade)
    BY <1>6, <1>8, <1>10 DEF SameButtons
  <2>2. screen.remade \subseteq screen'.remade /\ screen'.dialog.busy \in {0, screen.dialog.busy}
    BY <1>6, <1>8, <1>10 DEF SameButtons
  <2>3. screen'.leaving = 0 \/ (screen'.leaving = screen.leaving /\ \A k \in reads : k.leaving => \E m \in reads' : m.leaving)
    BY <1>6, <1>8, <1>10, <1>11 DEF SameButtons
  <2> QED
    BY <1>1, <1>10, <2>1, <2>2, <2>3, ButtonsStay
<1>14. RosterOK'
  BY <1>6, <1>8, <1>10, RosterStays DEF SameRoster, PagesIInv
<1>15. PagesShapes'
  BY <1>1, <1>10, <1>11, ActsStay DEF PagesIInv, PagesShapes
<1> QED
  BY <1>1, <1>12, <1>13, <1>14, <1>15, ActsStay DEF PagesIInv

LEMMA ApplyMeStep ==
  ASSUME PagesIInv, NEW l \in reads, ApplyMe(l)
  PROVE  PagesIInv'
<1>0. /\ l \in Load /\ reads \subseteq Load /\ screen \in Screen /\ page \in WebPages /\ ReadOK(l)
  BY DEF PagesIInv, PagesShapes, ReadsOK
<1>1. /\ l.what = "me" /\ l.got = {"me"} /\ reads' = reads \ {l} /\ UNCHANGED <<page, world, acts, counts>>
      /\ screen' = [screen EXCEPT !.credits = l.credits, !.creditsSeen = l.seen, !.lastMe = l.id]
  BY DEF ApplyMe
<1>2. l.credits \in 0..Credits /\ l.seen \in SUBSET Nat /\ l.id \in Nat
  BY <1>0 DEF Load
<1>3. screen' \in Screen
  BY <1>0, <1>1, <1>2 DEF Screen
<1>4. /\ screen'.seen = screen.seen /\ screen'.mine = screen.mine /\ screen'.last = screen.last
      /\ screen'.creditsSeen = l.seen /\ screen'.lastMe = l.id
  BY <1>0, <1>1 DEF Screen
<1>5. SameButtons(screen, screen') /\ SameRoster(screen, screen')
  BY <1>0, <1>1 DEF Screen, SameButtons, SameRoster
<1>6. ReadsOK' /\ TiersMatch'
  <2>1. l.id <= counts.reads /\ (l.id = counts.reads => Granted \subseteq l.seen)
    BY <1>0, <1>1 DEF ReadOK
  <2>2. /\ screen.last <= counts.reads /\ screen.seen \subseteq Effected
        /\ (screen.last = counts.reads => Granted \subseteq screen.seen)
        /\ (page = "garage" => Matches(screen.mine, screen.seen))
    BY DEF PagesIInv, ReadsOK, ToldIsShown, TiersMatch
  <2> QED
    BY <1>1, <1>4, <2>1, <2>2, ShownMoves
<1>7. ButtonsOK' /\ CallsOK'
  <2>1. ~l.leaving
    BY <1>0, <1>1, SiteFacts DEF ReadOK
  <2>2. \A k \in reads : k.leaving => \E m \in reads' : m.leaving
    BY <1>1, <2>1
  <2> QED
    BY <1>1, <1>3, <1>5, <2>2, ButtonsStay DEF SameButtons
<1>8. RosterOK'
  BY <1>5, RosterStays DEF SameRoster, PagesIInv
<1>9. PagesShapes'
  BY <1>0, <1>1, <1>3, ActsStay DEF PagesIInv, PagesShapes
<1> QED
  BY <1>1, <1>6, <1>7, <1>8, <1>9, ActsStay DEF PagesIInv

LEMMA MissListStep ==
  ASSUME PagesIInv, NEW l \in reads, MissList(l)
  PROVE  PagesIInv'
<1>0. /\ l \in Load /\ reads \subseteq Load /\ screen \in Screen /\ counts \in Counts
  BY DEF PagesIInv, PagesShapes, ReadsOK
<1>1. /\ GoOn(l) /\ UNCHANGED <<page, world, acts>> /\ counts' = [counts EXCEPT !.misses = @ + 1]
      /\ screen' = LeaveOver(l, [screen EXCEPT !.loading = FALSE])
  BY DEF MissList
<1>2. PICK s : s = [screen EXCEPT !.loading = FALSE]
  OBVIOUS
<1>3. s \in Screen
  BY <1>0, <1>2 DEF Screen
<1>4. SameShow(screen, s) /\ SameButtons(screen, s) /\ SameRoster(screen, s)
  BY <1>0, <1>2 DEF Screen, SameShow, SameButtons, SameRoster
<1>5. screen' = LeaveOver(l, s)
  BY <1>1, <1>2
<1>6. /\ screen' \in Screen /\ SameShow(s, screen') /\ SameRoster(s, screen') /\ screen'.busy = s.busy
      /\ screen'.remade = s.remade /\ screen'.dialog = s.dialog /\ screen'.leaving \in {0, s.leaving}
      /\ (l.leaving => screen'.leaving = 0)
  BY <1>0, <1>3, <1>5, LeaveOverFields
<1>7. /\ reads' \subseteq Load /\ reads \ {l} \subseteq reads'
      /\ \A m \in reads' : m \in reads \/ (ReadOK(m) /\ m.what = "me")
  BY <1>1, GoneOn
<1>8. counts' \in Counts /\ counts'.reads = counts.reads
  BY <1>0, <1>1, MissCounted
<1>9. ReadsOK' /\ TiersMatch'
  <2>1. \A m \in reads' : m \in reads \/ (ReadOK(m) /\ m.what # "page")
    BY <1>7
  <2> QED
    BY <1>1, <1>4, <1>6, <1>8, <2>1, ShownStays DEF SameShow
<1>10. ButtonsOK' /\ CallsOK'
  <2>1. screen'.leaving = 0 \/ (screen'.leaving = screen.leaving /\ \A k \in reads : k.leaving => \E m \in reads' : m.leaving)
    BY <1>4, <1>6, <1>7 DEF SameButtons
  <2> QED
    BY <1>1, <1>4, <1>6, <2>1, ButtonsStay DEF SameButtons
<1>11. RosterOK'
  BY <1>4, <1>6, RosterStays DEF SameRoster, PagesIInv
<1>12. PagesShapes'
  BY <1>1, <1>6, <1>7, <1>8, ActsStay DEF PagesIInv, PagesShapes
<1> QED
  BY <1>1, <1>9, <1>10, <1>11, <1>12, ActsStay DEF PagesIInv

\* Nothing but the cards, the dialog or the roster is touched.
LEMMA ScreenStep ==
  ASSUME PagesIInv, UNCHANGED <<page, world, acts, reads>>, counts' \in Counts, counts'.reads = counts.reads,
         screen' \in Screen, SameShow(screen, screen'), screen.remade \subseteq screen'.remade,
         \A i \in Things : screen'.busy[i] = screen.busy[i] \/ (screen'.busy[i] = 0 /\ i \in screen'.remade),
         screen'.dialog.busy \in {0, screen.dialog.busy}, screen'.leaving = screen.leaving,
         RosterOK'
  PROVE  PagesIInv'
<1>1. ReadsOK' /\ TiersMatch'
  BY ShownStays DEF SameShow
<1>2. ButtonsOK' /\ CallsOK'
  BY ButtonsStay
<1>3. PagesShapes'
  BY ActsStay DEF PagesIInv, PagesShapes
<1> QED
  BY <1>1, <1>2, <1>3, ActsStay DEF PagesIInv

LEMMA DialogStep ==
  ASSUME PagesIInv, OpenDialog \/ CloseDialog
  PROVE  PagesIInv'
<1>0. screen \in Screen /\ counts \in Counts
  BY DEF PagesIInv, PagesShapes
<1>1. PICK d \in [open : BOOLEAN, busy : Nat] : d.busy = 0 /\ screen' = [screen EXCEPT !.dialog = d]
  BY DEF OpenDialog, CloseDialog, NoDialog
<1>2. UNCHANGED <<page, world, acts, reads, counts>>
  BY DEF OpenDialog, CloseDialog
<1>3. screen' \in Screen
  BY <1>0, <1>1 DEF Screen
<1>4. SameShow(screen, screen') /\ SameRoster(screen, screen')
  BY <1>0, <1>1 DEF Screen, SameShow, SameRoster
<1>5. screen'.busy = screen.busy /\ screen'.remade = screen.remade /\ screen'.leaving = screen.leaving /\ screen'.dialog.busy = 0
  BY <1>0, <1>1 DEF Screen
<1>6. RosterOK'
  BY <1>4, RosterStays DEF SameRoster, PagesIInv
<1> QED
  BY <1>0, <1>2, <1>3, <1>4, <1>5, <1>6, ScreenStep

LEMMA SwitchTabStep ==
  ASSUME PagesIInv, SwitchTab
  PROVE  PagesIInv'
<1>0. screen \in Screen /\ counts \in Counts
  BY DEF PagesIInv, PagesShapes
<1>1. PICK tab \in {"browse", "mine"} : tab = (IF screen.tab = "mine" THEN "browse" ELSE "mine")
  OBVIOUS
<1>2. PICK s : s = [screen EXCEPT !.tab = tab]
  OBVIOUS
<1>3. UNCHANGED <<page, world, acts, reads>> /\ counts' = [counts EXCEPT !.tabs = counts.tabs + 1] /\ screen' = Kept(s)
  BY <1>1, <1>2 DEF SwitchTab
<1>4. counts' \in Counts /\ counts'.reads = counts.reads
  BY <1>0, <1>3 DEF Counts
<1>5. s \in Screen /\ SameShow(screen, s) /\ SameButtons(screen, s) /\ SameRoster(screen, s)
  <2>1. s \in Screen
    BY <1>0, <1>2 DEF Screen
  <2>2. SameShow(screen, s) /\ SameButtons(screen, s) /\ SameRoster(screen, s)
    BY <1>0, <1>2 DEF Screen, SameShow, SameButtons, SameRoster
  <2> QED
    BY <2>1, <2>2
<1>6. PICK t : t = Kept(s)
  OBVIOUS
<1>7. /\ t \in Screen /\ SameShow(s, t) /\ SameRoster(s, t) /\ t.dialog = s.dialog /\ t.leaving = s.leaving
      /\ s.remade \subseteq t.remade /\ \A k \in Things : t.busy[k] = s.busy[k] \/ (t.busy[k] = 0 /\ k \in t.remade)
  BY <1>5, <1>6, KeptFields DEF SameShow, SameRoster
<1>8. SameShow(screen, screen') /\ SameRoster(screen, screen')
  BY <1>3, <1>5, <1>6, <1>7 DEF SameShow, SameRoster
<1>9. RosterOK'
  BY <1>8, RosterStays DEF SameRoster, PagesIInv
<1>10. /\ screen.remade \subseteq screen'.remade
       /\ screen'.dialog.busy \in {0, screen.dialog.busy} /\ screen'.leaving = screen.leaving
       /\ \A k \in Things : screen'.busy[k] = screen.busy[k] \/ (screen'.busy[k] = 0 /\ k \in screen'.remade)
  BY <1>3, <1>5, <1>6, <1>7 DEF SameButtons
<1> QED
  BY <1>3, <1>4, <1>6, <1>7, <1>8, <1>9, <1>10, ScreenStep

LEMMA SelectFactionStep ==
  ASSUME PagesIInv, NEW i \in Things, SelectFaction(i)
  PROVE  PagesIInv'
<1>0. screen \in Screen /\ counts \in Counts
  BY DEF PagesIInv, PagesShapes
<1>1. UNCHANGED <<page, world, acts, reads, counts>> /\ screen' = [screen EXCEPT !.selected = i]
  BY DEF SelectFaction
<1>2. screen' \in Screen
  BY <1>0, <1>1 DEF Screen
<1>3. SameShow(screen, screen') /\ SameButtons(screen, screen') /\ SameRoster(screen, screen')
  BY <1>0, <1>1 DEF Screen, SameShow, SameButtons, SameRoster
<1>4. RosterOK'
  BY <1>3, RosterStays DEF SameRoster, PagesIInv
<1> QED
  BY <1>0, <1>1, <1>2, <1>3, <1>4, ScreenStep DEF SameButtons

LEMMA FetchDetailStep ==
  ASSUME PagesIInv, FetchDetail
  PROVE  PagesIInv'
<1>0. screen \in Screen /\ counts \in Counts
  BY DEF PagesIInv, PagesShapes
<1>1. PICK n \in Nat, i \in Things \cup {Nothing} : n = screen.wanted.id /\ i = screen.selected
  BY <1>0 DEF Screen, Roster
<1>2. PICK d \in Roster : d = [id |-> n + 1, of |-> i]
  <2>1. [id |-> n + 1, of |-> i] \in Roster
    BY DEF Roster
  <2> QED
    BY <2>1
<1>3. UNCHANGED <<page, world, acts, reads, counts>> /\ screen' = [screen EXCEPT !.wanted = d, !.fetching = screen.fetching \cup {d}]
  BY <1>1, <1>2 DEF FetchDetail
<1>4. PICK fetching \in SUBSET Roster : fetching = screen.fetching \cup {d}
  BY <1>0 DEF Screen
<1>5. screen' = [screen EXCEPT !.wanted = d, !.fetching = fetching]
  BY <1>3, <1>4
<1>6. screen' \in Screen
  BY <1>0, <1>5 DEF Screen
<1>7. SameShow(screen, screen') /\ SameButtons(screen, screen')
  BY <1>0, <1>5 DEF Screen, SameShow, SameButtons
<1>8. screen'.wanted = d /\ screen'.fetching = fetching /\ screen'.detail = screen.detail
  BY <1>0, <1>5 DEF Screen
<1>9. \A x \in screen.fetching \cup {screen.detail} : x.id \in Nat /\ x.id <= n
  BY <1>0, <1>1 DEF Screen, Roster, PagesIInv, RosterOK
<1>10. d.id = n + 1
  BY <1>2
<1>11. RosterOK'
  <2> SUFFICES ASSUME NEW x \in fetching \cup {screen.detail}
               PROVE  x.id <= d.id /\ (x.id = d.id => x = d)
    BY <1>8 DEF RosterOK
  <2>1. CASE x = d
    BY <1>10, <2>1
  <2>2. CASE x # d
    BY <1>4, <1>9, <1>10, <2>2
  <2> QED
    BY <2>1, <2>2
<1> QED
  BY <1>0, <1>3, <1>6, <1>7, <1>11, ScreenStep DEF SameButtons

LEMMA DetailStep ==
  ASSUME PagesIInv, NEW d \in screen.fetching, ShowDetail(d) \/ MissDetail(d)
  PROVE  PagesIInv'
<1>0. screen \in Screen /\ counts \in Counts /\ d \in Roster
  BY DEF PagesIInv, PagesShapes, Screen
<1>1. UNCHANGED <<page, world, acts, reads>> /\ counts' \in Counts /\ counts'.reads = counts.reads
  <2>1. CASE ShowDetail(d)
    BY <1>0, <2>1 DEF ShowDetail
  <2>2. CASE MissDetail(d)
    BY <1>0, <2>2, MissCounted DEF MissDetail
  <2> QED
    BY <2>1, <2>2
<1>2. PICK fetching \in SUBSET Roster : fetching = screen.fetching \ {d}
  BY <1>0 DEF Screen
<1>3. PICK detail \in Roster : detail \in {d, screen.detail} /\ screen' = [screen EXCEPT !.fetching = fetching, !.detail = detail]
  <2>1. CASE ShowDetail(d)
    BY <1>0, <1>2, <2>1 DEF ShowDetail
  <2>2. CASE MissDetail(d)
    <3>1. screen' = [screen EXCEPT !.fetching = fetching]
      BY <1>2, <2>2 DEF MissDetail
    <3>2. PICK x \in Roster : x = screen.detail
      BY <1>0 DEF Screen
    <3>3. screen' = [screen EXCEPT !.fetching = fetching, !.detail = x]
      BY <1>0, <3>1, <3>2 DEF Screen
    <3> QED
      BY <3>2, <3>3
  <2> QED
    BY <2>1, <2>2
<1>4. screen' \in Screen
  BY <1>0, <1>3 DEF Screen
<1>5. SameShow(screen, screen') /\ SameButtons(screen, screen')
  BY <1>0, <1>3 DEF Screen, SameShow, SameButtons
<1>6. screen'.wanted = screen.wanted /\ screen'.fetching = fetching /\ screen'.detail = detail
  BY <1>0, <1>3 DEF Screen
<1>7. RosterOK'
  BY <1>2, <1>3, <1>6 DEF PagesIInv, RosterOK
<1> QED
  BY <1>1, <1>4, <1>5, <1>7, ScreenStep DEF SameButtons

\* The act a is now a call of kind for the thing i; every other act's call is as it was.
CallMade(a, kind, i) ==
  /\ ActIds' = ActIds /\ This' = This /\ acts' \in [ActIds -> Act]
  /\ acts[a].at = "idle" /\ acts[a].thing = Nothing
  /\ acts'[a].at = "asked" /\ acts'[a].heard = "no" /\ acts'[a].kind = kind /\ acts'[a].thing = i
  /\ \A b \in ActIds \ {a} : acts'[b].at = acts[b].at /\ acts'[b].heard = acts[b].heard
                             /\ acts'[b].kind = acts[b].kind /\ acts'[b].thing = acts[b].thing

\* What is shown and loaded stays right when no more of the acts are known to be over.
LEMMA ShownKept ==
  ASSUME PagesIInv, UNCHANGED <<page, reads>>, counts'.reads = counts.reads, SameShow(screen, screen'),
         Effected \subseteq Effected', Granted' = Granted,
         page = "garage" => \A m, seen : seen \subseteq Effected /\ Matches(m, seen) => Matches(m, seen)'
  PROVE  ReadsOK' /\ TiersMatch'
<1>1. ActIds' = ActIds /\ This' = This
  BY ActIdsStay
<1>2. \A l \in reads : ReadOK(l)'
  BY <1>1 DEF PagesIInv, ReadsOK, ReadOK, Wanted
<1>3. ReadsOK'
  BY <1>1, <1>2 DEF PagesIInv, ReadsOK, SameShow, ToldIsShown
<1>4. TiersMatch'
  BY DEF PagesIInv, TiersMatch, SameShow, ReadsOK, ReadOK
<1> QED
  BY <1>3, <1>4

LEMMA AskFacts ==
  ASSUME PagesIInv, NEW a \in ActIds, NEW kind \in Kinds \ {"none"}, NEW i \in Things, Ask(a, kind, i),
         kind = "upgrade" <=> page = "garage", kind = "leave" => page = "factions",
         UNCHANGED <<page, world, reads, counts>>, SameShow(screen, screen')
  PROVE  /\ CallMade(a, kind, i) /\ ActsOK' /\ AloneOK' /\ BilledAsShown' /\ ReadsOK' /\ TiersMatch'
<1>0. /\ acts \in [ActIds -> Act] /\ world.mine \in [Things -> 0..MaxTier] /\ screen.mine \in [Things -> 0..MaxTier]
      /\ \A b \in ActIds : ActOK(acts[b])
  BY DEF PagesIInv, PagesShapes, World, Screen, ActsOK
<1>1. ActIds' = ActIds /\ This' = This
  BY ActIdsStay
<1>2. acts[a].at = "idle" /\ acts[a] = Idle
  BY <1>0 DEF Ask, ActOK
<1>3. PICK from \in 0..MaxTier, told \in 0..MaxTier, alone \in BOOLEAN :
        /\ kind = "upgrade" => from = world.mine[i] /\ told = screen.mine[i] /\ (alone <=> UpToDate(i))
        /\ kind # "upgrade" => from = 0 /\ told = 0 /\ alone = FALSE
  <2>1. CASE kind = "upgrade"
    <3>1. world.mine[i] \in 0..MaxTier /\ screen.mine[i] \in 0..MaxTier
      BY <1>0
    <3>2. PICK alone \in BOOLEAN : alone <=> UpToDate(i)
      OBVIOUS
    <3> QED
      BY <2>1, <3>1, <3>2
  <2>2. CASE kind # "upgrade"
    <3>1. 0 \in 0..MaxTier
      BY PagesAssumption
    <3> QED
      BY <2>2, <3>1
  <2> QED
    BY <2>1, <2>2
<1>4. PICK x : x = [at |-> "asked", heard |-> "no", kind |-> kind, thing |-> i, from |-> from, shown |-> told,
                    alone |-> alone, charged |-> 0]
  OBVIOUS
<1>5. /\ x \in Act /\ x.at = "asked" /\ x.heard = "no" /\ x.kind = kind /\ x.thing = i /\ x.from = from /\ x.shown = told
      /\ x.charged = 0
  BY <1>4 DEF Act
<1>6. x.alone = alone
  BY <1>4
<1>7. acts'[a] = x
  <2>0. PICK no \in BOOLEAN : no = FALSE
    OBVIOUS
  <2>idle. Idle = [at |-> "idle", heard |-> "no", kind |-> "none", thing |-> Nothing, from |-> 0, shown |-> 0,
                alone |-> no, charged |-> 0]
    BY <2>0, Zenon DEF Idle
  <2>asked. PICK asked : asked = [Idle EXCEPT !.at = "asked", !.kind = kind, !.thing = i]
    OBVIOUS
  <2>1. asked = [at |-> "asked", heard |-> "no", kind |-> kind, thing |-> i, from |-> 0, shown |-> 0,
                 alone |-> no, charged |-> 0]
    BY <2>idle, <2>asked
  <2>now. acts'[a] = Asked(kind, i)
    BY DEF Ask
  <2>2. CASE kind = "upgrade"
    <3>1. acts'[a] = [asked EXCEPT !.from = world.mine[i], !.shown = screen.mine[i], !.alone = UpToDate(i)]
      BY <2>asked, <2>now, <2>2, Zenon DEF Asked
    <3>2. alone = UpToDate(i)
      BY <1>3, <2>2 DEF UpToDate
    <3>3. acts'[a] = [asked EXCEPT !.from = from, !.shown = told, !.alone = alone]
      BY <1>3, <2>2, <3>1, <3>2, Zenon
    <3> QED
      BY <1>4, <2>1, <3>3
  <2>3. CASE kind # "upgrade"
    <3>1. acts'[a] = asked
      BY <2>asked, <2>now, <2>3, Zenon DEF Asked
    <3>2. from = 0 /\ told = 0 /\ alone = no
      BY <1>3, <2>0, <2>3
    <3> QED
      BY <1>4, <2>1, <3>1, <3>2
  <2> QED
    BY <2>2, <2>3
<1>8. ASSUME NEW b \in ActIds \ {a}
      PROVE  /\ acts'[b] \in Act
             /\ (acts[b].thing = i /\ acts[b].at = "asked") \/ acts'[b] = acts[b]
             /\ acts'[b].at = acts[b].at /\ acts'[b].heard = acts[b].heard /\ acts'[b].kind = acts[b].kind
             /\ acts'[b].thing = acts[b].thing /\ acts'[b].shown = acts[b].shown /\ acts'[b].charged = acts[b].charged
             /\ acts'[b] = acts[b] \/ acts'[b].alone = FALSE
             /\ (acts[b].thing = i /\ acts[b].at = "asked") => acts'[b].alone = FALSE
  <2>1. acts[b] \in Act
    BY <1>0
  <2>2. CASE acts[b].thing = i /\ acts[b].at = "asked"
    <3>1. acts'[b] = [acts[b] EXCEPT !.alone = FALSE]
      BY <2>2 DEF Ask
    <3> QED
      BY <2>1, <2>2, <3>1 DEF Act
  <2>3. CASE ~(acts[b].thing = i /\ acts[b].at = "asked")
    <3>1. acts'[b] = acts[b]
      BY <2>3 DEF Ask
    <3> QED
      BY <2>1, <2>3, <3>1
  <2> QED
    BY <2>2, <2>3
<1>9. acts' \in [ActIds -> Act]
  <2>1. PICK f : f = acts' /\ DOMAIN f = ActIds /\ f = [b \in ActIds |-> f[b]]
    BY DEF Ask
  <2>2. \A b \in ActIds : f[b] \in Act
    BY <1>5, <1>7, <1>8, <2>1
  <2> QED
    BY <2>1, <2>2
<1>10. CallMade(a, kind, i)
  <2>1. acts[a].thing = Nothing
    BY <1>2 DEF Idle
  <2>2. acts'[a].at = "asked" /\ acts'[a].heard = "no" /\ acts'[a].kind = kind /\ acts'[a].thing = i
    BY <1>5, <1>7
  <2> QED
    BY <1>1, <1>2, <1>8, <1>9, <2>1, <2>2 DEF CallMade
<1>11. ActsOK'
  <2>2. ASSUME NEW b \in ActIds \ {a}
        PROVE  ActOK(acts[b]) /\ acts'[b].at = "idle" => acts'[b] = Idle
    BY <1>8, <1>2 DEF ActOK
  <2>3. ASSUME NEW b \in ActIds \ {a}
        PROVE  ActOK(acts'[b])
    <3>1. ActOK(acts[b]) /\ (acts'[b].at = "idle" => acts'[b] = Idle)
      BY <1>0, <2>2
    <3> QED
      BY <1>8, <3>1 DEF ActOK
  <2>5. ActOK(x)
    BY <1>3, <1>5, <1>6 DEF ActOK
  <2>6. \A b \in ActIds : ActOK(acts'[b])
    BY <1>7, <2>3, <2>5
  <2> QED
    BY <1>1, <2>6 DEF ActsOK, ActOK
<1>12. Effected' = Effected /\ Granted' = Granted
  <2>1. \A b \in ActIds \ {a} : acts'[b].at = acts[b].at /\ acts'[b].heard = acts[b].heard
    BY <1>8
  <2>2. acts[a].at = "idle" /\ acts[a].heard = "no" /\ acts'[a].at = "asked" /\ acts'[a].heard = "no"
    BY <1>2, <1>5, <1>7 DEF Idle
  <2> QED
    BY <1>1, <2>1, <2>2 DEF Effected, Granted
<1>13. ReadsOK' /\ TiersMatch'
  <2>0. \A b \in Effected : acts'[b].thing = acts[b].thing
    BY <1>2, <1>8 DEF Effected
  <2>1. \A m, seen : Matches(m, seen) => Matches(m, seen)'
    BY <1>12, <2>0 DEF Matches
  <2> QED
    BY <1>12, <2>1, ShownKept
<1>14. BilledAsShown'
  <2> SUFFICES ASSUME NEW b \in Effected, acts'[b].charged > 0, acts'[b].alone
               PROVE  acts'[b].charged = acts'[b].shown + 1
    BY <1>12 DEF BilledAsShown
  <2>1. b \in ActIds \ {a} /\ acts[b].at = "done"
    BY <1>2 DEF Effected
  <2>2. acts'[b] = acts[b]
    BY <1>8, <2>1
  <2> QED
    BY <2>2 DEF PagesIInv, BilledAsShown
<1>15. AloneOK'
  <2> SUFFICES ASSUME NEW b \in ActIds, acts'[b].alone, acts'[b].at = "asked"
               PROVE  /\ world.mine[acts'[b].thing] = acts'[b].shown
                      /\ \A c \in ActIds \ {b} : acts'[c].thing = acts'[b].thing => acts'[c].at # "asked"
    BY <1>1 DEF AloneOK
  <2>1. CASE b = a
    <3>1. kind = "upgrade" /\ UpToDate(i) /\ acts'[b].shown = screen.mine[i] /\ acts'[b].thing = i
      BY <1>3, <1>5, <1>6, <1>7, <2>1
    <3>2. \A c \in ActIds : acts[c].thing = i => acts[c].at = "refused" \/ (c \in screen.seen /\ ~Out(c))
      BY <3>1 DEF UpToDate
    <3>3. Matches(screen.mine, screen.seen) /\ screen.seen \subseteq Effected
      BY <3>1 DEF PagesIInv, TiersMatch, ReadsOK
    <3>4. screen.mine[i] = world.mine[i]
      BY <3>2, <3>3 DEF Matches, Effected
    <3>5. ASSUME NEW c \in ActIds \ {b}, acts'[c].thing = i
          PROVE  acts'[c].at # "asked"
      <4>1. acts[c].thing = i /\ acts'[c].at = acts[c].at
        BY <1>8, <2>1, <3>5
      <4>2. \A d \in screen.seen : acts[d].at = "done"
        BY <3>3 DEF Effected
      <4>3. acts[c].at = "refused" \/ acts[c].at = "done"
        BY <3>2, <4>1, <4>2
      <4> QED
        BY <4>1, <4>3
    <3> QED
      BY <3>1, <3>4, <3>5
  <2>2. CASE b # a
    <3>1. acts'[b] = acts[b] /\ ~(acts[b].thing = i /\ acts[b].at = "asked")
      BY <1>8, <2>2
    <3>2. /\ world.mine[acts[b].thing] = acts[b].shown
          /\ \A c \in ActIds \ {b} : acts[c].thing = acts[b].thing => acts[c].at # "asked"
      BY <3>1 DEF PagesIInv, AloneOK
    <3>3. ASSUME NEW c \in ActIds \ {b}, acts'[c].thing = acts'[b].thing
          PROVE  acts'[c].at # "asked"
      <4>1. c # a
        BY <1>5, <1>7, <3>1, <3>3
      <4>2. acts'[c].thing = acts[c].thing /\ acts'[c].at = acts[c].at
        BY <1>8, <4>1
      <4>3. acts[c].thing = acts[b].thing
        BY <3>1, <3>3, <4>2
      <4> QED
        BY <3>2, <4>2, <4>3
    <3> QED
      BY <3>1, <3>2, <3>3
  <2> QED
    BY <2>1, <2>2
<1> QED
  BY <1>10, <1>11, <1>13, <1>14, <1>15

\* A call not made yet is of no kind.
LEMMA NoKindYet ==
  ASSUME PagesIInv, NEW a \in ActIds, acts[a].at = "idle"
  PROVE  acts[a].kind = "none"
<1>1. acts[a] = Idle
  BY DEF PagesIInv, ActsOK, ActOK
<1> QED
  BY <1>1 DEF Idle

\* A call is asked for: its button, or the dialog, or LEAVE, is busy with it.
LEMMA ButtonsAsked ==
  ASSUME PagesIInv, NEW a \in ActIds, NEW kind \in Kinds \ {"none"}, NEW i \in Things, CallMade(a, kind, i),
         UNCHANGED <<page, reads>>, screen'.remade = screen.remade,
         \A j \in Things : \/ screen'.busy[j] = screen.busy[j]
                           \/ j = i /\ screen'.busy[j] = a /\ kind \notin {This.new, "leave"}
                           \/ j # i /\ page = "garage" /\ screen'.busy[j] = 0,
         kind \notin {This.new, "leave"} => Free(i) /\ screen'.busy[i] = a,
         screen'.dialog.busy = screen.dialog.busy \/ (screen'.dialog.busy = a /\ kind = This.new),
         screen'.leaving = screen.leaving \/ (screen'.leaving = a /\ kind = "leave")
  PROVE  ButtonsOK' /\ CallsOK'
<1>1. ActIds' = ActIds /\ This' = This
  BY DEF CallMade
<1>2. Out(a)' /\ ~Out(a) /\ acts'[a].thing = i /\ (Ordinary(a)' <=> kind \notin {This.new, "leave"})
  BY DEF CallMade, Out, Ordinary
<1>3. \A b \in ActIds \ {a} : /\ (Out(b)' <=> Out(b)) /\ (Ordinary(b)' <=> Ordinary(b)) /\ acts'[b].thing = acts[b].thing
                              /\ acts'[b].kind = acts[b].kind
  BY DEF CallMade, Out, Ordinary
<1>4. \A b \in ActIds : b # 0
  BY DEF ActIds
<1>5. \A j \in Things : Excused(j) => Excused(j)'
  <2>1. acts[a].thing = Nothing
    BY DEF CallMade
  <2> QED
    BY <1>1, <1>3, <2>1 DEF Excused
<1>6. page = "garage" => \A j \in Things \ {i} : Excused(j)'
  <2>1. i # Nothing
    BY PagesAssumption
  <2> QED
    BY <1>1, <1>2, <2>1 DEF Excused
<1>7. CallsOK'
  <2> SUFFICES ASSUME NEW b \in ActIds, NEW j \in Things, Out(b)', Ordinary(b)', acts'[b].thing = j
               PROVE  screen'.busy[j] = b \/ Excused(j)'
    BY <1>1 DEF CallsOK
  <2>1. CASE b = a
    BY <1>2, <2>1
  <2>2. CASE b # a
    <3>1. screen.busy[j] = b \/ Excused(j)
      BY <1>3, <2>2 DEF PagesIInv, CallsOK
    <3>2. CASE j = i
      <4>1. CASE kind \notin {This.new, "leave"}
        BY <1>4, <1>5, <3>1, <3>2, <4>1 DEF Free
      <4>2. CASE kind \in {This.new, "leave"}
        BY <1>5, <3>1, <3>2, <4>2
      <4> QED
        BY <4>1, <4>2
    <3>3. CASE j # i
      BY <1>5, <1>6, <3>1, <3>3
    <3> QED
      BY <3>2, <3>3
  <2> QED
    BY <2>1, <2>2
<1>8. ButtonsOK'
  <2>1. ASSUME NEW j \in Things, screen'.busy[j] # 0
        PROVE  \E b \in ActIds : screen'.busy[j] = b /\ Out(b)' /\ acts'[b].thing = j /\ Ordinary(b)'
    <3>1. CASE screen'.busy[j] = screen.busy[j]
      <4>1. PICK b \in ActIds : screen.busy[j] = b /\ Out(b) /\ acts[b].thing = j /\ Ordinary(b)
        BY <2>1, <3>1 DEF PagesIInv, ButtonsOK
      <4> QED
        BY <1>2, <1>3, <3>1, <4>1
    <3>2. CASE j = i /\ screen'.busy[j] = a /\ kind \notin {This.new, "leave"}
      BY <1>2, <3>2
    <3> QED
      BY <2>1, <3>1, <3>2
  <2>2. ASSUME screen'.dialog.busy # 0
        PROVE  \E b \in ActIds : screen'.dialog.busy = b /\ Out(b)' /\ acts'[b].kind = This.new
    <3>1. CASE screen'.dialog.busy = screen.dialog.busy
      <4>1. PICK b \in ActIds : screen.dialog.busy = b /\ Out(b) /\ acts[b].kind = This.new
        BY <2>2, <3>1 DEF PagesIInv, ButtonsOK
      <4> QED
        BY <1>2, <1>3, <3>1, <4>1
    <3>2. CASE screen'.dialog.busy = a /\ kind = This.new
      <4>1. acts'[a].kind = kind
        BY DEF CallMade
      <4> QED
        BY <1>2, <3>2, <4>1
    <3> QED
      BY <3>1, <3>2
  <2>3. ASSUME screen'.leaving # 0
        PROVE  \E b \in ActIds : screen'.leaving = b /\ acts'[b].kind = "leave" /\ (Out(b)' \/ \E l \in reads' : l.leaving)
    <3>1. CASE screen'.leaving = screen.leaving
      <4>1. PICK b \in ActIds : screen.leaving = b /\ acts[b].kind = "leave" /\ (Out(b) \/ \E l \in reads : l.leaving)
        BY <2>3, <3>1 DEF PagesIInv, ButtonsOK
      <4>2. b # a
        BY <4>1, NoKindYet DEF CallMade
      <4> QED
        BY <1>3, <3>1, <4>1, <4>2
    <3>2. CASE screen'.leaving = a /\ kind = "leave"
      <4>1. acts'[a].kind = kind
        BY DEF CallMade
      <4> QED
        BY <1>2, <3>2, <4>1
    <3> QED
      BY <3>1, <3>2
  <2> QED
    BY <1>1, <2>1, <2>2, <2>3 DEF ButtonsOK
<1> QED
  BY <1>7, <1>8

\* A call is answered: its button is let go of.
LEMMA ButtonsHeard ==
  ASSUME PagesIInv, NEW a \in ActIds, Out(a), ~Out(a)', UNCHANGED page,
         \A b \in ActIds \ {a} : Out(b)' <=> Out(b),
         \A b \in ActIds : acts'[b].kind = acts[b].kind /\ acts'[b].thing = acts[b].thing,
         screen'.remade = screen.remade,
         \A j \in Things : \/ screen'.busy[j] = screen.busy[j]
                           \/ screen'.busy[j] = 0 /\ Ordinary(a) /\ (screen.busy[j] = a \/ page = "garage"),
         Ordinary(a) => \A j \in Things : screen'.busy[j] # a,
         screen'.dialog.busy \in {0, screen.dialog.busy}, acts[a].kind = This.new => screen'.dialog.busy # a,
         screen'.leaving \in {0, screen.leaving},
         acts[a].kind = "leave" /\ screen'.leaving = a => \E l \in reads' : l.leaving,
         \A l \in reads : l.leaving => \E m \in reads' : m.leaving
  PROVE  ButtonsOK' /\ CallsOK'
<1>1. ActIds' = ActIds /\ This' = This
  BY ActIdsStay
<1>2. \A b \in ActIds : Ordinary(b)' <=> Ordinary(b)
  BY <1>1 DEF Ordinary
<1>3. \A j \in Things : Excused(j) => Excused(j)'
  BY <1>1 DEF Excused
<1>4. acts[a].thing \in Things /\ \A b \in ActIds : b # 0
  <2>1. acts[a].at # "idle" /\ ActOK(acts[a])
    BY DEF Out, PagesIInv, ActsOK
  <2> QED
    BY <2>1 DEF ActOK, ActIds
<1>5. CallsOK'
  <2> SUFFICES ASSUME NEW b \in ActIds, NEW j \in Things, Out(b)', Ordinary(b)', acts'[b].thing = j
               PROVE  screen'.busy[j] = b \/ Excused(j)'
    BY <1>1 DEF CallsOK
  <2>1. b # a /\ Out(b) /\ Ordinary(b) /\ acts[b].thing = j
    BY <1>2
  <2>2. screen.busy[j] = b \/ Excused(j)
    BY <2>1 DEF PagesIInv, CallsOK
  <2>3. CASE screen'.busy[j] = screen.busy[j]
    BY <1>3, <2>2, <2>3
  <2>4. CASE Excused(j)
    BY <1>3, <2>4
  <2>5. CASE screen.busy[j] = b /\ Ordinary(a) /\ page = "garage"
    <3>1. CASE acts[a].thing = j
      <4>1. screen.busy[j] = a \/ Excused(j)
        BY <2>5, <3>1 DEF PagesIInv, CallsOK
      <4> QED
        BY <1>3, <2>1, <2>5, <4>1
    <3>2. CASE acts[a].thing # j
      <4>1. acts[a].thing # Nothing
        BY <1>4, PagesAssumption
      <4>2. Excused(j)
        BY <2>5, <3>2, <4>1 DEF Excused
      <4> QED
        BY <1>3, <4>2
    <3> QED
      BY <3>1, <3>2
  <2> QED
    BY <2>1, <2>2, <2>3, <2>4, <2>5
<1>6. ButtonsOK'
  <2>1. ASSUME NEW j \in Things, screen'.busy[j] # 0
        PROVE  \E b \in ActIds : screen'.busy[j] = b /\ Out(b)' /\ acts'[b].thing = j /\ Ordinary(b)'
    <3>1. screen'.busy[j] = screen.busy[j]
      BY <2>1
    <3>2. PICK b \in ActIds : screen.busy[j] = b /\ Out(b) /\ acts[b].thing = j /\ Ordinary(b)
      BY <2>1, <3>1 DEF PagesIInv, ButtonsOK
    <3>3. b # a
      BY <3>1, <3>2
    <3> QED
      BY <1>2, <3>1, <3>2, <3>3
  <2>2. ASSUME screen'.dialog.busy # 0
        PROVE  \E b \in ActIds : screen'.dialog.busy = b /\ Out(b)' /\ acts'[b].kind = This.new
    <3>1. screen'.dialog.busy = screen.dialog.busy
      BY <2>2
    <3>2. PICK b \in ActIds : screen.dialog.busy = b /\ Out(b) /\ acts[b].kind = This.new
      BY <2>2, <3>1 DEF PagesIInv, ButtonsOK
    <3>3. b # a
      BY <3>1, <3>2
    <3> QED
      BY <3>1, <3>2, <3>3
  <2>3. ASSUME screen'.leaving # 0
        PROVE  \E b \in ActIds : screen'.leaving = b /\ acts'[b].kind = "leave" /\ (Out(b)' \/ \E l \in reads' : l.leaving)
    <3>1. screen'.leaving = screen.leaving
      BY <2>3
    <3>2. PICK b \in ActIds : screen.leaving = b /\ acts[b].kind = "leave" /\ (Out(b) \/ \E l \in reads : l.leaving)
      BY <2>3, <3>1 DEF PagesIInv, ButtonsOK
    <3>3. CASE b = a
      BY <3>1, <3>2, <3>3
    <3>4. CASE b # a
      BY <3>1, <3>2, <3>4
    <3> QED
      BY <3>3, <3>4
  <2> QED
    BY <1>1, <2>1, <2>2, <2>3 DEF ButtonsOK
<1> QED
  BY <1>5, <1>6

\* The API serves or refuses a call: nobody on the page notices.
LEMMA ButtonsServed ==
  ASSUME PagesIInv, UNCHANGED <<page, screen, reads>>,
         \A b \in ActIds : /\ (Out(b)' <=> Out(b)) /\ acts'[b].kind = acts[b].kind /\ acts'[b].thing = acts[b].thing
  PROVE  ButtonsOK' /\ CallsOK' /\ RosterOK'
<1>1. ActIds' = ActIds /\ This' = This
  BY ActIdsStay
<1>2. \A b \in ActIds : Ordinary(b)' <=> Ordinary(b)
  BY <1>1 DEF Ordinary
<1>3. \A j \in Things : Excused(j) => Excused(j)'
  BY <1>1 DEF Excused
<1>4. CallsOK'
  BY <1>1, <1>2, <1>3 DEF PagesIInv, CallsOK
<1>5. ButtonsOK'
  BY <1>1, <1>2 DEF PagesIInv, ButtonsOK
<1>6. RosterOK'
  BY RosterStays DEF PagesIInv
<1> QED
  BY <1>4, <1>5, <1>6

LEMMA AskStep ==
  ASSUME PagesIInv, NEW a \in ActIds, NEW kind \in Kinds \ {"none"}, NEW i \in Things, Ask(a, kind, i),
         kind = "upgrade" <=> page = "garage", kind = "leave" => page = "factions",
         UNCHANGED <<page, world, reads, counts>>, screen' \in Screen,
         SameShow(screen, screen'), SameRoster(screen, screen'), screen'.remade = screen.remade,
         \A j \in Things : \/ screen'.busy[j] = screen.busy[j]
                           \/ j = i /\ screen'.busy[j] = a /\ kind \notin {This.new, "leave"}
                           \/ j # i /\ page = "garage" /\ screen'.busy[j] = 0,
         kind \notin {This.new, "leave"} => Free(i) /\ screen'.busy[i] = a,
         screen'.dialog.busy = screen.dialog.busy \/ (screen'.dialog.busy = a /\ kind = This.new),
         screen'.leaving = screen.leaving \/ (screen'.leaving = a /\ kind = "leave")
  PROVE  PagesIInv'
<1>1. CallMade(a, kind, i) /\ ActsOK' /\ AloneOK' /\ BilledAsShown' /\ ReadsOK' /\ TiersMatch'
  BY AskFacts
<1>2. ButtonsOK' /\ CallsOK'
  BY <1>1, ButtonsAsked
<1>3. RosterOK'
  BY RosterStays DEF SameRoster, PagesIInv
<1>4. PagesShapes'
  BY <1>1 DEF PagesIInv, PagesShapes, CallMade
<1> QED
  BY <1>1, <1>2, <1>3, <1>4 DEF PagesIInv

LEMMA ClickButtonStep ==
  ASSUME PagesIInv, NEW a \in ActIds, NEW i \in Things,
         NEW kind \in {"upgrade", "buy", "cancel", "join", "place", "register"}, ClickButton(a, kind, i)
  PROVE  PagesIInv'
<1>0. screen \in Screen /\ page \in WebPages /\ a \in Nat
  BY DEF PagesIInv, PagesShapes, ActIds
<1>1. Free(i) /\ Ask(a, kind, i) /\ UNCHANGED <<page, world, reads, counts>>
  BY DEF ClickButton
<1>2. kind \in Kinds \ {"none"} /\ kind \notin {This.new, "leave"}
  BY <1>0, SiteFacts DEF Kinds
<1>3. kind = "upgrade" <=> page = "garage"
  <2>1. CASE kind = "upgrade"
    BY <2>1 DEF ClickButton, Offered, UpgradeOffered
  <2>2. CASE kind = "buy"
    BY <2>2 DEF ClickButton, Offered, BuyOffered
  <2>3. CASE kind = "cancel"
    BY <2>3 DEF ClickButton, Offered, CancelOffered
  <2>4. CASE kind = "join"
    BY <2>4 DEF ClickButton, Offered, JoinOffered
  <2>5. CASE kind = "place"
    BY <2>5 DEF ClickButton, Offered, BetOffered
  <2>6. CASE kind = "register"
    BY <2>6 DEF ClickButton, Offered, RegisterOffered
  <2> QED
    BY <2>1, <2>2, <2>3, <2>4, <2>5, <2>6
<1>4. PICK before \in [Things -> Nat] : before = (IF This.oneFlag THEN Resting ELSE screen.busy)
  <2>1. Resting \in [Things -> Nat] /\ screen.busy \in [Things -> Nat]
    BY <1>0 DEF Resting, Screen
  <2> QED
    BY <2>1
<1>5. PICK busy \in [Things -> Nat] : busy = [before EXCEPT ![i] = a]
  BY <1>0
<1>6. screen' = [screen EXCEPT !.busy = busy]
  BY <1>4, <1>5 DEF ClickButton
<1>7. screen' \in Screen
  BY <1>0, <1>6 DEF Screen
<1>8. SameShow(screen, screen') /\ SameRoster(screen, screen')
  BY <1>0, <1>6 DEF Screen, SameShow, SameRoster
<1>9. screen'.busy = busy /\ screen'.remade = screen.remade /\ screen'.dialog = screen.dialog /\ screen'.leaving = screen.leaving
  BY <1>0, <1>6 DEF Screen
<1>10. busy[i] = a
  BY <1>5
<1>11. \A j \in Things \ {i} : busy[j] = screen.busy[j] \/ (page = "garage" /\ busy[j] = 0)
  BY <1>0, <1>4, <1>5, SiteFacts DEF Resting
<1> QED
  BY <1>1, <1>2, <1>3, <1>7, <1>8, <1>9, <1>10, <1>11, AskStep

LEMMA LeaveStep ==
  ASSUME PagesIInv, NEW a \in ActIds, NEW i \in Things, Leave(a, i)
  PROVE  PagesIInv'
<1>0. screen \in Screen /\ a \in Nat
  BY DEF PagesIInv, PagesShapes, ActIds
<1>1. /\ page = "factions" /\ Ask(a, "leave", i) /\ UNCHANGED <<page, world, reads, counts>>
      /\ screen' = [screen EXCEPT !.leaving = a]
  BY DEF Leave
<1>2. screen' \in Screen
  BY <1>0, <1>1 DEF Screen
<1>3. SameShow(screen, screen') /\ SameRoster(screen, screen')
  BY <1>0, <1>1 DEF Screen, SameShow, SameRoster
<1>4. screen'.busy = screen.busy /\ screen'.remade = screen.remade /\ screen'.dialog = screen.dialog /\ screen'.leaving = a
  BY <1>0, <1>1 DEF Screen
<1>5. "leave" \in Kinds \ {"none"}
  BY DEF Kinds
<1> QED
  BY <1>1, <1>2, <1>3, <1>4, <1>5, AskStep

LEMMA SubmitStep ==
  ASSUME PagesIInv, NEW a \in ActIds, NEW i \in Things, Submit(a, i), page \in {"market", "factions", "tournaments"}
  PROVE  PagesIInv'
<1>0. screen \in Screen /\ a \in Nat /\ page \in WebPages
  BY DEF PagesIInv, PagesShapes, ActIds
<1>1. PICK kind : kind = This.new
  OBVIOUS
<1>2. Ask(a, kind, i) /\ UNCHANGED <<page, world, reads, counts>> /\ screen' = [screen EXCEPT !.dialog.busy = a]
  BY <1>1 DEF Submit
<1>3. kind \in Kinds \ {"none"} /\ kind \notin {"upgrade", "leave"} /\ page # "garage"
  BY <1>0, <1>1, SiteFacts DEF Kinds
<1>4. PICK d \in [open : BOOLEAN, busy : Nat] : d = [screen.dialog EXCEPT !.busy = a] /\ d.busy = a
  <2>1. PICK e \in [open : BOOLEAN, busy : Nat] : e = screen.dialog
    BY <1>0 DEF Screen
  <2>2. PICK d : d = [e EXCEPT !.busy = a]
    OBVIOUS
  <2>3. d \in [open : BOOLEAN, busy : Nat] /\ d.busy = a
    BY <1>0, <2>2
  <2> QED
    BY <2>1, <2>2, <2>3
<1>5. screen' = [screen EXCEPT !.dialog = d]
  BY <1>2, <1>4
<1>6. screen' \in Screen
  BY <1>0, <1>5 DEF Screen
<1>7. SameShow(screen, screen') /\ SameRoster(screen, screen')
  BY <1>0, <1>5 DEF Screen, SameShow, SameRoster
<1>8. screen'.busy = screen.busy /\ screen'.remade = screen.remade /\ screen'.dialog = d /\ screen'.leaving = screen.leaving
  BY <1>0, <1>5 DEF Screen
<1> QED
  BY <1>1, <1>2, <1>3, <1>4, <1>6, <1>7, <1>8, AskStep

\* The API serves a call that is not an upgrade: no tier moves.
LEMMA ServeStep ==
  ASSUME PagesIInv, NEW a \in ActIds, Serve(a)
  PROVE  PagesIInv'
<1>0. /\ acts \in [ActIds -> Act] /\ world \in World /\ ActOK(acts[a])
      /\ \A b \in ActIds : ActOK(acts[b])
  BY DEF PagesIInv, PagesShapes, ActsOK
<1>1. /\ acts[a].at = "asked" /\ acts[a].kind # "upgrade" /\ UNCHANGED <<page, screen, reads, counts>>
      /\ acts' = [acts EXCEPT ![a].at = "done"] /\ world.purse >= Cost(acts[a].kind, 0)
  BY DEF Serve
<1>2. page # "garage" /\ acts[a].thing \in Things
  BY <1>0, <1>1 DEF ActOK
<1>3. ActIds' = ActIds /\ This' = This
  BY <1>1, ActIdsStay
<1>4. PICK x \in Act : x = acts[a]
  BY <1>0
<1>5. PICK y : y = [x EXCEPT !.at = "done"]
  OBVIOUS
<1>6. /\ y \in Act /\ y.at = "done" /\ y.heard = x.heard /\ y.kind = x.kind /\ y.thing = x.thing
      /\ y.charged = x.charged
  BY <1>5 DEF Act
<1>7. y.alone <=> x.alone
  BY <1>5 DEF Act
<1>8. acts' = [acts EXCEPT ![a] = y]
  BY <1>1, <1>4, <1>5
<1>9. acts'[a] = y /\ acts' \in [ActIds -> Act] /\ \A b \in ActIds \ {a} : acts'[b] = acts[b]
  BY <1>0, <1>6, <1>8
<1>10. \A b \in ActIds : ActOK(acts'[b])
  <2>1. ActOK(y)
    <3>1. ActOK(x)
      BY <1>0, <1>4
    <3>2. x.at = "asked"
      BY <1>1, <1>4
    <3> QED
      BY <1>6, <1>7, <3>1, <3>2 DEF ActOK
  <2> QED
    BY <1>0, <1>9, <2>1
<1>11. ActsOK'
  BY <1>1, <1>3, <1>10 DEF ActsOK, ActOK
<1>12. \A b \in ActIds : ~acts'[b].alone /\ ~(acts'[b].charged > 0)
  BY <1>2, <1>10 DEF ActOK, Idle
<1>13. AloneOK' /\ BilledAsShown'
  BY <1>3, <1>12 DEF AloneOK, BilledAsShown, Effected
<1>14. \A b \in ActIds : /\ (Out(b)' <=> Out(b)) /\ acts'[b].kind = acts[b].kind /\ acts'[b].thing = acts[b].thing
                         /\ acts'[b].heard = acts[b].heard
  BY <1>1, <1>4, <1>6, <1>9 DEF Out
<1>15. ButtonsOK' /\ CallsOK' /\ RosterOK'
  BY <1>1, <1>14, ButtonsServed
<1>16. Granted' = Granted
  BY <1>3, <1>14 DEF Granted
<1>17. Effected \subseteq Effected'
  BY <1>1, <1>3, <1>9 DEF Effected
<1>18. ReadsOK' /\ TiersMatch'
  BY <1>1, <1>2, <1>16, <1>17, ShownKept DEF SameShow
<1>19. world' \in World
  <2>1. PICK i \in Things, kind \in Kinds : i = acts[a].thing /\ kind = acts[a].kind
    BY <1>0, <1>2 DEF Act
  <2>2. PICK left \in 0..Credits : left = world.purse - Cost(kind, 0)
    <3>1. Cost(kind, 0) \in {0, 1}
      BY <1>1, <2>1 DEF Cost
    <3>2. world.purse \in 0..Credits
      BY <1>0 DEF World
    <3> QED
      BY <1>1, <2>1, <3>1, <3>2, PagesAssumption
  <2>3. PICK open \in SUBSET Things :
          open = (CASE kind \in {"buy", "cancel"} -> world.open \ {i}
                    [] kind \in {"list", "found", "create"} -> world.open \cup {i}
                    [] OTHER -> world.open)
    <3>1. world.open \in SUBSET Things
      BY <1>0 DEF World
    <3>2. CASE kind \in {"buy", "cancel"}
      BY <3>1, <3>2
    <3>3. CASE kind \in {"list", "found", "create"}
      BY <2>1, <3>1, <3>3
    <3>4. CASE kind \notin {"buy", "cancel", "list", "found", "create"}
      BY <3>1, <3>4
    <3> QED
      BY <3>2, <3>3, <3>4
  <2>4. PICK has \in 0..MaxTier :
          has = (CASE kind \in {"list", "join", "found", "register", "place"} -> 1
                   [] kind = "leave" -> 0
                   [] OTHER -> world.mine[i])
    <3>1. world.mine[i] \in 0..MaxTier /\ 0 \in 0..MaxTier /\ 1 \in 0..MaxTier
      BY <1>0, <2>1, PagesAssumption DEF World
    <3> QED
      BY <3>1
  <2>5. PICK mine \in [Things -> 0..MaxTier] : mine = [world.mine EXCEPT ![i] = has]
    BY <1>0, <2>1 DEF World
  <2>6. world' = [world EXCEPT !.purse = left, !.open = open, !.mine = mine]
    BY <2>1, <2>2, <2>3, <2>4, <2>5 DEF Serve
  <2> QED
    BY <1>0, <2>6 DEF World
<1> QED
  BY <1>1, <1>3, <1>9, <1>11, <1>13, <1>15, <1>18, <1>19 DEF PagesIInv, PagesShapes

\* An upgrade is the next tier above one the slot had while the call ran, and asked for alone it is
\* the next above the tier shown.
LEMMA BuyTierStep ==
  ASSUME PagesIInv, NEW a \in ActIds, BuyTier(a)
  PROVE  PagesIInv'
<1>0. /\ acts \in [ActIds -> Act] /\ world \in World /\ screen \in Screen /\ reads \subseteq Load
      /\ \A b \in ActIds : ActOK(acts[b])
  BY DEF PagesIInv, PagesShapes, ActsOK
<1>1. /\ acts[a].at = "asked" /\ acts[a].kind = "upgrade" /\ UNCHANGED <<page, screen, reads, counts>>
  BY DEF BuyTier
<1>2. PICK x \in Act : x = acts[a]
  BY <1>0
<1>3. PICK i \in Things : i = acts[a].thing
  BY <1>0, <1>1 DEF ActOK
<1>4. page = "garage"
  BY <1>0, <1>1 DEF ActOK
<1>5. ActIds' = ActIds /\ This' = This
  BY <1>1, ActIdsStay
<1>6. world.mine \in [Things -> 0..MaxTier] /\ world.mine[i] \in 0..MaxTier /\ world.purse \in 0..Credits /\ x.from \in 0..MaxTier
  BY <1>0, <1>2, <1>3 DEF World, Act
<1>7. PICK tier \in x.from..world.mine[i] :
        LET cost == IF tier = world.mine[i] THEN Cost("upgrade", tier) ELSE 0
        IN /\ tier < MaxTier /\ cost <= world.purse
           /\ world' = [world EXCEPT !.mine[i] = tier + 1, !.purse = world.purse - cost]
           /\ acts' = [acts EXCEPT ![a].at = "done", ![a].charged = IF cost = 0 THEN 0 ELSE tier + 1]
  BY <1>2, <1>3 DEF BuyTier
<1>8. PICK cost \in Nat : cost = (IF tier = world.mine[i] THEN Cost("upgrade", tier) ELSE 0)
  BY <1>6, PagesAssumption DEF Cost
<1>9. tier \in Nat /\ tier < MaxTier /\ cost <= world.purse /\ MaxTier \in Nat
  BY <1>6, <1>7, <1>8, PagesAssumption
<1>10. PICK left \in 0..Credits : left = world.purse - cost
  BY <1>6, <1>8, <1>9, PagesAssumption
<1>11. PICK charged \in Nat : charged = (IF cost = 0 THEN 0 ELSE tier + 1)
  BY <1>9
<1>12. PICK mine \in [Things -> 0..MaxTier] : mine = [world.mine EXCEPT ![i] = tier + 1]
  <2>1. PICK next \in 0..MaxTier : next = tier + 1
    BY <1>9
  <2>2. [world.mine EXCEPT ![i] = next] \in [Things -> 0..MaxTier]
    BY <1>6
  <2> QED
    BY <2>1, <2>2
<1>13. world' = [world EXCEPT !.mine = mine, !.purse = left]
  BY <1>7, <1>8, <1>10, <1>12
<1>14. world' \in World /\ world'.mine = mine
  BY <1>0, <1>13 DEF World
<1>15. PICK y : y = [x EXCEPT !.at = "done", !.charged = charged]
  OBVIOUS
<1>16. /\ y \in Act /\ y.at = "done" /\ y.heard = x.heard /\ y.kind = x.kind /\ y.thing = x.thing
       /\ y.charged = charged /\ y.shown = x.shown
  BY <1>15 DEF Act
<1>17. y.alone <=> x.alone
  BY <1>15 DEF Act
<1>18. acts' = [acts EXCEPT ![a] = y]
  BY <1>2, <1>7, <1>8, <1>11, <1>15
<1>19. acts'[a] = y /\ acts' \in [ActIds -> Act] /\ \A b \in ActIds \ {a} : acts'[b] = acts[b]
  BY <1>0, <1>16, <1>18
<1>20. ActsOK'
  <2>1. ActOK(y)
    <3>1. ActOK(x) /\ x.at = "asked" /\ x.kind = "upgrade"
      BY <1>0, <1>1, <1>2
    <3> QED
      BY <1>16, <1>17, <3>1 DEF ActOK
  <2>2. \A b \in ActIds : ActOK(acts'[b])
    BY <1>0, <1>19, <2>1
  <2> QED
    BY <1>1, <1>5, <2>2 DEF ActsOK, ActOK
<1>21. \A b \in ActIds : /\ (Out(b)' <=> Out(b)) /\ acts'[b].kind = acts[b].kind /\ acts'[b].thing = acts[b].thing
                         /\ acts'[b].heard = acts[b].heard
  BY <1>1, <1>2, <1>16, <1>19 DEF Out
<1>22. ButtonsOK' /\ CallsOK' /\ RosterOK'
  BY <1>1, <1>21, ButtonsServed
<1>23. Granted' = Granted
  BY <1>5, <1>21 DEF Granted
<1>24. Effected' = Effected \cup {a} /\ a \notin Effected
  BY <1>1, <1>5, <1>16, <1>19 DEF Effected
<1>25. \A j \in Things \ {i} : world'.mine[j] = world.mine[j]
  BY <1>6, <1>12, <1>14
<1>26. ReadsOK' /\ TiersMatch'
  <2>1. ASSUME NEW m, NEW seen, seen \subseteq Effected, Matches(m, seen)
        PROVE  Matches(m, seen)'
    <3> SUFFICES ASSUME NEW j \in Things, \A b \in Effected' : acts'[b].thing = j => b \in seen
                 PROVE  m[j] = world'.mine[j]
      BY DEF Matches
    <3>1. j # i
      BY <1>3, <1>21, <1>24, <2>1
    <3>2. \A b \in Effected : acts[b].thing = j => b \in seen
      BY <1>21, <1>24 DEF Effected
    <3> QED
      BY <1>25, <2>1, <3>1, <3>2 DEF Matches
  <2> QED
    BY <1>1, <1>23, <1>24, <2>1, ShownKept DEF SameShow
<1>27. x.alone => world.mine[i] = x.shown /\ \A b \in ActIds \ {a} : acts[b].thing = i => acts[b].at # "asked"
  BY <1>1, <1>2, <1>3 DEF PagesIInv, AloneOK
<1>28. BilledAsShown'
  <2> SUFFICES ASSUME NEW b \in Effected', acts'[b].charged > 0, acts'[b].alone
               PROVE  acts'[b].charged = acts'[b].shown + 1
    BY DEF BilledAsShown
  <2>1. CASE b = a
    <3>1. y.charged > 0 /\ y.alone
      BY <1>19, <2>1
    <3>2. charged > 0 /\ x.alone
      BY <1>16, <1>17, <3>1
    <3>3. charged = tier + 1 /\ tier = world.mine[i]
      BY <1>8, <1>11, <3>2
    <3> QED
      BY <1>16, <1>19, <1>27, <2>1, <3>2, <3>3
  <2>2. CASE b # a
    <3>1. b \in Effected /\ acts'[b] = acts[b]
      BY <1>19, <1>24, <2>2 DEF Effected
    <3> QED
      BY <3>1 DEF PagesIInv, BilledAsShown
  <2> QED
    BY <2>1, <2>2
<1>29. AloneOK'
  <2> SUFFICES ASSUME NEW b \in ActIds, acts'[b].alone, acts'[b].at = "asked"
               PROVE  /\ world'.mine[acts'[b].thing] = acts'[b].shown
                      /\ \A c \in ActIds \ {b} : acts'[c].thing = acts'[b].thing => acts'[c].at # "asked"
    BY <1>5 DEF AloneOK
  <2>1. b # a
    BY <1>16, <1>19
  <2>2. acts'[b] = acts[b]
    BY <1>19, <2>1
  <2>3. /\ world.mine[acts[b].thing] = acts[b].shown
        /\ \A c \in ActIds \ {b} : acts[c].thing = acts[b].thing => acts[c].at # "asked"
    BY <2>2 DEF PagesIInv, AloneOK
  <2>4. acts[b].thing # i
    BY <1>1, <1>3, <2>1, <2>3
  <2>5. acts[b].thing \in Things
    <3>1. ActOK(acts[b]) /\ acts[b].at # "idle"
      BY <1>0, <2>2
    <3> QED
      BY <3>1 DEF ActOK
  <2>6. \A c \in ActIds : acts'[c].at = acts[c].at \/ acts'[c].at = "done"
    BY <1>16, <1>19
  <2>7. \A c \in ActIds \ {b} : acts'[c].thing = acts'[b].thing => acts'[c].at # "asked"
    BY <1>21, <2>2, <2>3, <2>6
  <2>8. world'.mine[acts[b].thing] = world.mine[acts[b].thing]
    BY <1>25, <2>4, <2>5
  <2> QED
    BY <2>2, <2>3, <2>7, <2>8
<1>30. PagesShapes'
  BY <1>1, <1>5, <1>14, <1>19 DEF PagesIInv, PagesShapes
<1> QED
  BY <1>20, <1>22, <1>26, <1>28, <1>29, <1>30 DEF PagesIInv

\* A call that is over or refused: what is changed of it is how far it is, or what the page heard.
LEMMA CallMoves ==
  ASSUME PagesIInv, NEW a \in ActIds, NEW y \in Act, acts' = [acts EXCEPT ![a] = y],
         UNCHANGED <<page, world>>, ActOK(y),
         y.at = acts[a].at \/ (acts[a].at = "asked" /\ y.at = "refused"),
         y.kind = acts[a].kind, y.thing = acts[a].thing, y.shown = acts[a].shown, y.charged = acts[a].charged,
         y.alone <=> acts[a].alone
  PROVE  /\ ActIds' = ActIds /\ This' = This /\ acts' \in [ActIds -> Act] /\ ActsOK' /\ AloneOK' /\ BilledAsShown'
         /\ Effected' = Effected /\ acts'[a] = y
         /\ \A b \in ActIds : acts'[b].kind = acts[b].kind /\ acts'[b].thing = acts[b].thing
         /\ \A b \in ActIds \ {a} : acts'[b] = acts[b]
<1>0. acts \in [ActIds -> Act] /\ \A b \in ActIds : ActOK(acts[b])
  BY DEF PagesIInv, PagesShapes, ActsOK
<1>1. ActIds' = ActIds /\ This' = This
  BY ActIdsStay
<1>2. acts' \in [ActIds -> Act] /\ acts'[a] = y /\ \A b \in ActIds \ {a} : acts'[b] = acts[b]
  BY <1>0
<1>3. \A b \in ActIds : ActOK(acts'[b])
  BY <1>0, <1>2
<1>4. ActsOK'
  BY <1>1, <1>3 DEF ActsOK, ActOK
<1>5. \A b \in ActIds : /\ acts'[b].kind = acts[b].kind /\ acts'[b].thing = acts[b].thing /\ acts'[b].shown = acts[b].shown
                        /\ acts'[b].charged = acts[b].charged
  BY <1>2
<1>6. \A b \in ActIds : acts'[b].at = acts[b].at \/ (acts[b].at = "asked" /\ acts'[b].at = "refused")
  BY <1>2
<1>7. \A b \in ActIds : acts'[b].alone <=> acts[b].alone
  BY <1>2
<1>8. Effected' = Effected
  BY <1>1, <1>6 DEF Effected
<1>9. BilledAsShown'
  BY <1>5, <1>7, <1>8 DEF PagesIInv, BilledAsShown, Effected
<1>10. AloneOK'
  BY <1>1, <1>5, <1>6, <1>7 DEF PagesIInv, AloneOK
<1> QED
  BY <1>1, <1>2, <1>4, <1>5, <1>8, <1>9, <1>10

LEMMA RefuseStep ==
  ASSUME PagesIInv, NEW a \in ActIds, Refuse(a)
  PROVE  PagesIInv'
<1>0. acts[a] \in Act /\ ActOK(acts[a])
  BY DEF PagesIInv, PagesShapes, ActsOK
<1>1. /\ acts[a].at = "asked" /\ UNCHANGED <<page, world, screen, reads, counts>>
      /\ acts' = [acts EXCEPT ![a].at = "refused"]
  BY DEF Refuse
<1>2. PICK x \in Act : x = acts[a]
  BY <1>0
<1>3. PICK y : y = [x EXCEPT !.at = "refused"]
  OBVIOUS
<1>4. /\ y \in Act /\ y.at = "refused" /\ y.heard = x.heard /\ y.kind = x.kind /\ y.thing = x.thing
      /\ y.charged = x.charged /\ y.shown = x.shown
  BY <1>3 DEF Act
<1>5. y.alone <=> x.alone
  BY <1>3 DEF Act
<1>6. ActOK(y)
  <2>1. ActOK(x) /\ x.at = "asked"
    BY <1>0, <1>1, <1>2
  <2> QED
    BY <1>4, <1>5, <2>1 DEF ActOK
<1>7. acts' = [acts EXCEPT ![a] = y]
  BY <1>1, <1>2, <1>3
<1>8. /\ ActIds' = ActIds /\ This' = This /\ acts' \in [ActIds -> Act] /\ ActsOK' /\ AloneOK' /\ BilledAsShown'
      /\ Effected' = Effected /\ acts'[a] = y
      /\ \A b \in ActIds : acts'[b].kind = acts[b].kind /\ acts'[b].thing = acts[b].thing
      /\ \A b \in ActIds \ {a} : acts'[b] = acts[b]
  BY <1>1, <1>2, <1>4, <1>5, <1>6, <1>7, CallMoves
<1>9. \A b \in ActIds : (Out(b)' <=> Out(b)) /\ acts'[b].heard = acts[b].heard
  BY <1>1, <1>2, <1>4, <1>8 DEF Out
<1>10. ButtonsOK' /\ CallsOK' /\ RosterOK'
  BY <1>1, <1>8, <1>9, ButtonsServed
<1>11. Granted' = Granted
  BY <1>8, <1>9 DEF Granted
<1>12. ReadsOK' /\ TiersMatch'
  <2>1. \A m, seen : Matches(m, seen) => Matches(m, seen)'
    BY <1>1, <1>8 DEF Matches, Effected
  <2> QED
    BY <1>1, <1>8, <1>11, <2>1, ShownKept DEF SameShow
<1>13. PagesShapes'
  BY <1>1, <1>8 DEF PagesIInv, PagesShapes
<1> QED
  BY <1>8, <1>10, <1>12, <1>13 DEF PagesIInv

LEMMA ChangesStep ==
  ASSUME PagesIInv, Changes
  PROVE  PagesIInv'
<1>0. world \in World /\ counts \in Counts
  BY DEF PagesIInv, PagesShapes
<1>1. UNCHANGED <<page, acts, screen, reads>> /\ counts' = [counts EXCEPT !.changes = counts.changes + 1]
  BY DEF Changes
<1>2. PICK i \in Things : world' = [world EXCEPT !.open = world.open \ {i}]
  BY <1>0 DEF Changes, World
<1>3. PICK open \in SUBSET Things : open = world.open \ {i}
  BY <1>0 DEF World
<1>4. world' = [world EXCEPT !.open = open]
  BY <1>2, <1>3
<1>5. world' \in World /\ world'.mine = world.mine
  BY <1>0, <1>4 DEF World
<1>6. counts' \in Counts /\ counts'.reads = counts.reads
  BY <1>0, <1>1 DEF Counts
<1>7. ActIds' = ActIds /\ This' = This
  BY <1>1, ActIdsStay
<1>8. Effected' = Effected /\ Granted' = Granted
  BY <1>1, <1>7 DEF Effected, Granted
<1>9. ActsOK' /\ AloneOK' /\ BilledAsShown'
  <2>1. ActsOK'
    BY <1>1, <1>7 DEF PagesIInv, ActsOK, ActOK
  <2>2. AloneOK'
    BY <1>1, <1>5, <1>7 DEF PagesIInv, AloneOK
  <2>3. BilledAsShown'
    BY <1>1, <1>8 DEF PagesIInv, BilledAsShown
  <2> QED
    BY <2>1, <2>2, <2>3
<1>10. ReadsOK' /\ TiersMatch'
  <2>1. \A m, seen : Matches(m, seen) => Matches(m, seen)'
    BY <1>1, <1>5, <1>8 DEF Matches
  <2> QED
    BY <1>1, <1>6, <1>8, <2>1, ShownKept DEF SameShow
<1>11. ButtonsOK' /\ CallsOK' /\ RosterOK'
  <2>1. \A b \in ActIds : Out(b)' <=> Out(b)
    BY <1>1 DEF Out
  <2> QED
    BY <1>1, <2>1, ButtonsServed
<1>12. PagesShapes'
  BY <1>1, <1>5, <1>6, <1>7 DEF PagesIInv, PagesShapes
<1> QED
  BY <1>9, <1>10, <1>11, <1>12 DEF PagesIInv

\* The card's flag, or the garage's one, is let go of.
LEMMA FreedFields ==
  ASSUME PagesIInv, NEW a \in ActIds
  PROVE  LET t == Freed(a)
         IN /\ t \in Screen /\ SameShow(screen, t) /\ SameRoster(screen, t) /\ t.remade = screen.remade
            /\ t.dialog = screen.dialog /\ t.leaving = screen.leaving
            /\ \A j \in Things : /\ t.busy[j] # a
                                 /\ t.busy[j] = screen.busy[j] \/ (t.busy[j] = 0 /\ (screen.busy[j] = a \/ page = "garage"))
<1>0. screen \in Screen /\ page \in WebPages
  BY DEF PagesIInv, PagesShapes
<1>1. screen.busy \in [Things -> Nat] /\ a # 0
  BY <1>0 DEF Screen, ActIds
<1>2. PICK busy \in [Things -> Nat] : busy = [i \in Things |-> IF screen.busy[i] = a \/ This.oneFlag THEN 0 ELSE screen.busy[i]]
  BY <1>1
<1>3. PICK t : t = Freed(a) /\ t = [screen EXCEPT !.busy = busy]
  BY <1>2 DEF Freed
<1>4. t \in Screen
  BY <1>0, <1>3 DEF Screen
<1>5. SameShow(screen, t) /\ SameRoster(screen, t)
  BY <1>0, <1>3 DEF Screen, SameShow, SameRoster
<1>6. t.remade = screen.remade /\ t.dialog = screen.dialog /\ t.leaving = screen.leaving /\ t.busy = busy
  BY <1>0, <1>3 DEF Screen
<1>7. \A j \in Things : /\ busy[j] # a
                        /\ busy[j] = screen.busy[j] \/ (busy[j] = 0 /\ (screen.busy[j] = a \/ page = "garage"))
  BY <1>0, <1>1, <1>2, SiteFacts
<1> QED
  BY <1>3, <1>4, <1>5, <1>6, <1>7

\* What the page does of its own when a call's answer is there.
AnswerShown(a) ==
  /\ screen' \in Screen /\ SameShow(screen, screen') /\ SameRoster(screen, screen') /\ screen'.remade = screen.remade
  /\ \A j \in Things : \/ screen'.busy[j] = screen.busy[j]
                       \/ screen'.busy[j] = 0 /\ Ordinary(a) /\ (screen.busy[j] = a \/ page = "garage")
  /\ Ordinary(a) => \A j \in Things : screen'.busy[j] # a
  /\ screen'.dialog.busy \in {0, screen.dialog.busy}
  /\ acts[a].kind = This.new => screen'.dialog.busy # a
  /\ screen'.leaving \in {0, screen.leaving}

LEMMA FreedShown ==
  ASSUME PagesIInv, NEW a \in ActIds, screen' = Freed(a), Ordinary(a)
  PROVE  AnswerShown(a)
<1>1. PICK t : t = Freed(a)
  OBVIOUS
<1>2. /\ t \in Screen /\ SameShow(screen, t) /\ SameRoster(screen, t) /\ t.remade = screen.remade
      /\ t.dialog = screen.dialog /\ t.leaving = screen.leaving
      /\ \A j \in Things : /\ t.busy[j] # a
                           /\ t.busy[j] = screen.busy[j] \/ (t.busy[j] = 0 /\ (screen.busy[j] = a \/ page = "garage"))
  BY <1>1, FreedFields
<1>3. acts[a].kind # This.new
  BY DEF Ordinary
<1> QED
  BY <1>1, <1>2, <1>3 DEF AnswerShown

LEMMA HeardMoves ==
  ASSUME PagesIInv, NEW a \in ActIds, NEW answer \in {"ok", "error"}, Out(a), answer = "ok" => acts[a].at = "done",
         acts' = [acts EXCEPT ![a].heard = answer], UNCHANGED <<page, world>>
  PROVE  /\ ActIds' = ActIds /\ This' = This /\ acts' \in [ActIds -> Act] /\ ActsOK' /\ AloneOK' /\ BilledAsShown'
         /\ Effected' = Effected /\ ~Out(a)' /\ acts'[a].heard = answer
         /\ \A b \in ActIds : acts'[b].kind = acts[b].kind /\ acts'[b].thing = acts[b].thing
         /\ \A b \in ActIds \ {a} : acts'[b] = acts[b]
<1>0. acts[a] \in Act /\ ActOK(acts[a])
  BY DEF PagesIInv, PagesShapes, ActsOK
<1>1. PICK x \in Act : x = acts[a]
  BY <1>0
<1>2. PICK y : y = [x EXCEPT !.heard = answer]
  OBVIOUS
<1>3. /\ y \in Act /\ y.at = x.at /\ y.heard = answer /\ y.kind = x.kind /\ y.thing = x.thing
      /\ y.charged = x.charged /\ y.shown = x.shown
  BY <1>2 DEF Act
<1>4. y.alone <=> x.alone
  BY <1>2 DEF Act
<1>5. ActOK(y)
  <2>1. ActOK(x) /\ x.at # "idle" /\ (answer = "ok" => x.at = "done")
    BY <1>0, <1>1 DEF Out
  <2> QED
    BY <1>3, <1>4, <2>1 DEF ActOK
<1>6. acts' = [acts EXCEPT ![a] = y]
  BY <1>1, <1>2
<1>7. /\ ActIds' = ActIds /\ This' = This /\ acts' \in [ActIds -> Act] /\ ActsOK' /\ AloneOK' /\ BilledAsShown'
      /\ Effected' = Effected /\ acts'[a] = y
      /\ \A b \in ActIds : acts'[b].kind = acts[b].kind /\ acts'[b].thing = acts[b].thing
      /\ \A b \in ActIds \ {a} : acts'[b] = acts[b]
  BY <1>1, <1>3, <1>4, <1>5, <1>6, CallMoves
<1>8. ~Out(a)'
  BY <1>3, <1>7 DEF Out
<1> QED
  BY <1>3, <1>7, <1>8

LEMMA AnsweredStep ==
  ASSUME PagesIInv, NEW a \in ActIds, Answered(a)
  PROVE  PagesIInv'
<1>0. screen \in Screen /\ page \in WebPages /\ ActOK(acts[a]) /\ a # 0
  BY DEF PagesIInv, PagesShapes, ActsOK, ActIds
<1>1. /\ acts[a].at = "done" /\ Out(a) /\ UNCHANGED <<page, world>>
      /\ acts' = [acts EXCEPT ![a].heard = "ok"]
  BY DEF Answered
<1>2. /\ ActIds' = ActIds /\ This' = This /\ acts' \in [ActIds -> Act] /\ ActsOK' /\ AloneOK' /\ BilledAsShown'
      /\ Effected' = Effected /\ ~Out(a)'
      /\ \A b \in ActIds : acts'[b].kind = acts[b].kind /\ acts'[b].thing = acts[b].thing
      /\ \A b \in ActIds \ {a} : acts'[b] = acts[b]
  BY <1>1, HeardMoves
<1>3. PICK leaving \in BOOLEAN : leaving <=> acts[a].kind = "leave"
  OBVIOUS
<1>4. StartLoad(TRUE, leaving)
  <2>1. leaving = (acts[a].kind = "leave")
    BY <1>3
  <2>2. StartLoad(TRUE, acts[a].kind = "leave")
    BY DEF Answered, ReloadPage
  <2> QED
    BY <2>1, <2>2, Zenon
<1>5. AnswerShown(a)
  <2>1. CASE acts[a].kind = "leave"
    <3>1. screen' = screen /\ ~Ordinary(a) /\ acts[a].kind # This.new
      BY <1>0, <2>1, SiteFacts DEF Answered, Ordinary
    <3> QED
      BY <1>0, <3>1 DEF AnswerShown, SameShow, SameRoster
  <2>2. CASE acts[a].kind = This.new
    <3>1. acts[a].kind # "leave" /\ ~Ordinary(a)
      BY <1>0, <2>2, SiteFacts DEF Ordinary
    <3>2. PICK d \in [open : BOOLEAN, busy : Nat] : d = NoDialog /\ d.busy = 0
      <4>1. NoDialog \in [open : BOOLEAN, busy : Nat] /\ NoDialog.busy = 0
        BY DEF NoDialog
      <4> QED
        BY <4>1
    <3>3. screen' = [screen EXCEPT !.dialog = d]
      BY <2>2, <3>1, <3>2 DEF Answered
    <3>4. screen' \in Screen
      BY <1>0, <3>3 DEF Screen
    <3>5. SameShow(screen, screen') /\ SameRoster(screen, screen')
      BY <1>0, <3>3 DEF Screen, SameShow, SameRoster
    <3>6. screen'.busy = screen.busy /\ screen'.remade = screen.remade /\ screen'.leaving = screen.leaving /\ screen'.dialog = d
      BY <1>0, <3>3 DEF Screen
    <3> QED
      BY <1>0, <3>1, <3>2, <3>4, <3>5, <3>6 DEF AnswerShown
  <2>3. CASE acts[a].kind \notin {This.new, "leave"}
    <3>1. screen' = Freed(a) /\ Ordinary(a)
      BY <2>3 DEF Answered, Ordinary
    <3> QED
      BY <3>1, FreedShown
  <2> QED
    BY <2>1, <2>2, <2>3
<1>6. /\ ReadsOK' /\ TiersMatch' /\ reads' \subseteq Load /\ counts' \in Counts
      /\ reads \subseteq reads' /\ (leaving => \E l \in reads' : l.leaving)
  <2>1. leaving => page = "factions"
    BY <1>0, <1>3 DEF ActOK
  <2> QED
    BY <1>1, <1>2, <1>4, <1>5, <2>1, LoadStarts DEF AnswerShown, SameShow
<1>7. ButtonsOK' /\ CallsOK'
  <2>1. \A b \in ActIds \ {a} : Out(b)' <=> Out(b)
    BY <1>2 DEF Out
  <2>2. acts[a].kind = "leave" /\ screen'.leaving = a => \E l \in reads' : l.leaving
    BY <1>3, <1>6
  <2>3. \A l \in reads : l.leaving => \E m \in reads' : m.leaving
    BY <1>6
  <2> QED
    BY <1>1, <1>2, <1>5, <2>1, <2>2, <2>3, ButtonsHeard DEF AnswerShown
<1>8. RosterOK'
  BY <1>5, RosterStays DEF AnswerShown, SameRoster, PagesIInv
<1>9. PagesShapes'
  BY <1>1, <1>2, <1>5, <1>6 DEF PagesIInv, PagesShapes, AnswerShown
<1> QED
  BY <1>2, <1>6, <1>7, <1>8, <1>9 DEF PagesIInv

LEMMA CallFailsStep ==
  ASSUME PagesIInv, NEW a \in ActIds, CallFails(a)
  PROVE  PagesIInv'
<1>0. screen \in Screen /\ page \in WebPages /\ ActOK(acts[a]) /\ a # 0 /\ counts \in Counts
  BY DEF PagesIInv, PagesShapes, ActsOK, ActIds
<1>1. /\ Out(a) /\ UNCHANGED <<page, world, reads>>
      /\ acts' = [acts EXCEPT ![a].heard = "error"]
  BY DEF CallFails
<1>2. /\ ActIds' = ActIds /\ This' = This /\ acts' \in [ActIds -> Act] /\ ActsOK' /\ AloneOK' /\ BilledAsShown'
      /\ Effected' = Effected /\ ~Out(a)' /\ acts'[a].heard = "error"
      /\ \A b \in ActIds : acts'[b].kind = acts[b].kind /\ acts'[b].thing = acts[b].thing
      /\ \A b \in ActIds \ {a} : acts'[b] = acts[b]
  BY <1>1, HeardMoves
<1>3. counts' \in Counts /\ counts'.reads = counts.reads
  <2>1. CASE acts[a].at = "refused"
    BY <1>0, <2>1 DEF CallFails
  <2>2. CASE acts[a].at # "refused"
    BY <1>0, <2>2, MissCounted DEF CallFails
  <2> QED
    BY <2>1, <2>2
<1>4. Granted' = Granted
  <2>1. acts[a].heard = "no"
    BY <1>1 DEF Out
  <2> QED
    BY <1>2, <2>1 DEF Granted
<1>5. AnswerShown(a) /\ (acts[a].kind = "leave" => screen'.leaving = 0)
  <2>1. CASE acts[a].kind = "leave"
    <3>1. screen' = [screen EXCEPT !.leaving = 0] /\ ~Ordinary(a) /\ acts[a].kind # This.new
      BY <1>0, <2>1, SiteFacts DEF CallFails, Ordinary
    <3>2. screen' \in Screen
      BY <1>0, <3>1 DEF Screen
    <3>3. SameShow(screen, screen') /\ SameRoster(screen, screen')
      BY <1>0, <3>1 DEF Screen, SameShow, SameRoster
    <3>4. screen'.busy = screen.busy /\ screen'.remade = screen.remade /\ screen'.leaving = 0 /\ screen'.dialog = screen.dialog
      BY <1>0, <3>1 DEF Screen
    <3> QED
      BY <3>1, <3>2, <3>3, <3>4 DEF AnswerShown
  <2>2. CASE acts[a].kind = This.new /\ screen.dialog.busy = a
    <3>1. acts[a].kind # "leave" /\ ~Ordinary(a)
      BY <1>0, <2>2, SiteFacts DEF Ordinary
    <3>2. PICK d \in [open : BOOLEAN, busy : Nat] : d = [screen.dialog EXCEPT !.busy = 0] /\ d.busy = 0
      <4>1. PICK e \in [open : BOOLEAN, busy : Nat] : e = screen.dialog
        BY <1>0 DEF Screen
      <4>2. PICK d : d = [e EXCEPT !.busy = 0]
        OBVIOUS
      <4>3. d \in [open : BOOLEAN, busy : Nat] /\ d.busy = 0
        BY <4>2
      <4> QED
        BY <4>1, <4>2, <4>3
    <3>3. screen' = [screen EXCEPT !.dialog = d]
      BY <2>2, <3>1, <3>2 DEF CallFails
    <3>4. screen' \in Screen
      BY <1>0, <3>3 DEF Screen
    <3>5. SameShow(screen, screen') /\ SameRoster(screen, screen')
      BY <1>0, <3>3 DEF Screen, SameShow, SameRoster
    <3>6. screen'.busy = screen.busy /\ screen'.remade = screen.remade /\ screen'.leaving = screen.leaving /\ screen'.dialog = d
      BY <1>0, <3>3 DEF Screen
    <3> QED
      BY <1>0, <3>1, <3>2, <3>4, <3>5, <3>6 DEF AnswerShown
  <2>3. CASE acts[a].kind = This.new /\ screen.dialog.busy # a
    <3>1. acts[a].kind # "leave" /\ ~Ordinary(a)
      BY <1>0, <2>3, SiteFacts DEF Ordinary
    <3>2. screen' = screen
      BY <2>3, <3>1 DEF CallFails
    <3> QED
      BY <1>0, <2>3, <3>1, <3>2 DEF AnswerShown, SameShow, SameRoster
  <2>4. CASE acts[a].kind \notin {This.new, "leave"}
    <3>1. screen' = Freed(a) /\ Ordinary(a)
      BY <2>4 DEF CallFails, Ordinary
    <3> QED
      BY <2>4, <3>1, FreedShown
  <2> QED
    BY <2>1, <2>2, <2>3, <2>4
<1>6. ReadsOK' /\ TiersMatch'
  <2>1. \A m, seen : Matches(m, seen) => Matches(m, seen)'
    BY <1>1, <1>2 DEF Matches, Effected
  <2> QED
    BY <1>1, <1>2, <1>3, <1>4, <1>5, <2>1, ShownKept DEF AnswerShown
<1>7. ButtonsOK' /\ CallsOK'
  <2>1. \A b \in ActIds \ {a} : Out(b)' <=> Out(b)
    BY <1>2 DEF Out
  <2>2. acts[a].kind = "leave" /\ screen'.leaving = a => \E l \in reads' : l.leaving
    BY <1>0, <1>5
  <2>3. \A l \in reads : l.leaving => \E m \in reads' : m.leaving
    BY <1>1
  <2> QED
    BY <1>1, <1>2, <1>5, <2>1, <2>2, <2>3, ButtonsHeard DEF AnswerShown
<1>8. RosterOK'
  BY <1>5, RosterStays DEF AnswerShown, SameRoster, PagesIInv
<1>9. PagesShapes'
  BY <1>1, <1>2, <1>3, <1>5 DEF PagesIInv, PagesShapes, AnswerShown
<1> QED
  BY <1>2, <1>6, <1>7, <1>8, <1>9 DEF PagesIInv

LEMMA PagesStart ==
  ASSUME InitPages
  PROVE  PagesIInv
<1>0. Nobodys \in [Things -> 0..MaxTier] /\ Resting \in [Things -> Nat] /\ 0 \in 0..MaxTier /\ 1 \in 0..MaxTier
      /\ 0 \in 0..Credits /\ Credits \in 0..Credits
  BY PagesAssumption DEF Nobodys, Resting
<1>1. page \in WebPages /\ acts = [a \in ActIds |-> Idle]
  BY DEF InitPages
<1>2. PICK open \in SUBSET Things, mine \in [Things -> 0..MaxTier] :
        /\ world = [open |-> open, mine |-> mine, purse |-> Credits]
        /\ page = "garage" => mine = Nobodys
  <2>1. PICK open \in SUBSET Things, mine \in [Things -> 0..1] :
          /\ world = [open |-> open, mine |-> mine, purse |-> Credits]
          /\ page = "garage" => mine = Nobodys
    BY DEF InitPages
  <2>2. mine \in [Things -> 0..MaxTier]
    BY <1>0, PagesAssumption
  <2> QED
    BY <2>1, <2>2
<1>3. world \in World /\ world.mine = mine
  BY <1>0, <1>2 DEF World
<1>4. Idle \in Act /\ Idle.at = "idle" /\ Idle.heard = "no" /\ Idle.kind = "none" /\ Idle.charged = 0
  <2>1. PICK no \in BOOLEAN : no = FALSE
    OBVIOUS
  <2>2. Idle = [at |-> "idle", heard |-> "no", kind |-> "none", thing |-> Nothing, from |-> 0, shown |-> 0,
                alone |-> no, charged |-> 0]
    BY <2>1, Zenon DEF Idle
  <2> QED
    BY <1>0, <2>2 DEF Act, Kinds
<1>5. ~Idle.alone
  BY DEF Idle
<1>6. acts \in [ActIds -> Act] /\ \A a \in ActIds : acts[a] = Idle
  BY <1>1, <1>4
<1>7. Effected = {} /\ Granted = {}
  BY <1>4, <1>6 DEF Effected, Granted
<1>8. PICK d \in Roster : d = [id |-> 0, of |-> Nothing]
  <2>1. [id |-> 0, of |-> Nothing] \in Roster
    BY DEF Roster
  <2> QED
    BY <2>1
<1>9. PICK n \in [open : BOOLEAN, busy : Nat] : n = NoDialog /\ n.busy = 0
  <2>1. NoDialog \in [open : BOOLEAN, busy : Nat] /\ NoDialog.busy = 0
    BY DEF NoDialog
  <2> QED
    BY <2>1
<1>10. PICK yes \in BOOLEAN : yes = TRUE
  OBVIOUS
<1>11. screen = [loading |-> yes, open |-> {}, mine |-> Nobodys, seen |-> {}, last |-> 0,
                 credits |-> Credits, creditsSeen |-> {}, lastMe |-> 0, tab |-> "browse", busy |-> Resting, remade |-> {},
                 leaving |-> 0, dialog |-> n, selected |-> Nothing, wanted |-> d, fetching |-> {}, detail |-> d]
  BY <1>8, <1>9, <1>10, Zenon DEF InitPages
<1>12. screen \in Screen
  BY <1>0, <1>11 DEF Screen
<1>13. /\ screen.mine = Nobodys /\ screen.seen = {} /\ screen.last = 0 /\ screen.lastMe = 0 /\ screen.busy = Resting
       /\ screen.leaving = 0 /\ screen.dialog = n /\ screen.wanted = d /\ screen.fetching = {} /\ screen.detail = d
  BY <1>11
<1>14. counts = [reads |-> 1, tabs |-> 0, changes |-> 0, misses |-> 0]
  BY DEF InitPages
<1>15. counts \in Counts /\ counts.reads = 1
  BY <1>14 DEF Counts
<1>16. PICK no \in BOOLEAN : no = FALSE
  OBVIOUS
<1>17. PICK l : l = [id |-> 1, what |-> "page", after |-> no, leaving |-> no, chosen |-> no, got |-> {}, seen |-> {},
                     open |-> {}, mine |-> Nobodys, credits |-> 0]
  OBVIOUS
<1>18. reads = {l}
  BY <1>16, <1>17, Zenon DEF InitPages
<1>19. l \in Load /\ l.id = 1 /\ l.what = "page" /\ l.leaving = no /\ l.got = {} /\ l.seen = {}
  BY <1>0, <1>17 DEF Load
<1>20. PagesShapes
  BY <1>1, <1>3, <1>6, <1>12, <1>15, <1>18, <1>19 DEF PagesShapes
<1>21. ActsOK
  BY <1>4, <1>5, <1>6 DEF ActsOK, ActOK
<1>22. ReadsOK
  <2>1. ReadOK(l)
    BY <1>7, <1>15, <1>16, <1>19 DEF ReadOK
  <2>2. ToldIsShown
    BY <1>13, <1>15 DEF ToldIsShown
  <2> QED
    BY <1>13, <1>15, <1>18, <2>1, <2>2 DEF ReadsOK
<1>23. TiersMatch
  BY <1>2, <1>3, <1>13, <1>18, <1>19 DEF TiersMatch, Matches
<1>24. AloneOK /\ BilledAsShown
  BY <1>5, <1>6, <1>7 DEF AloneOK, BilledAsShown
<1>25. ButtonsOK
  BY <1>9, <1>13 DEF ButtonsOK, Resting
<1>26. CallsOK
  BY <1>4, <1>6 DEF CallsOK, Out
<1>27. RosterOK
  BY <1>8, <1>13 DEF RosterOK
<1> QED
  BY <1>20, <1>21, <1>22, <1>23, <1>24, <1>25, <1>26, <1>27 DEF PagesIInv

LEMMA PagesStays ==
  ASSUME PagesIInv, UNCHANGED pageVars
  PROVE  PagesIInv'
<1>0. UNCHANGED <<page, world, acts, screen, reads, counts>>
  BY DEF pageVars
<1>1. counts' \in Counts /\ screen' \in Screen
  BY <1>0 DEF PagesIInv, PagesShapes
<1>2. RosterOK'
  BY <1>0, RosterStays DEF PagesIInv
<1> QED
  BY <1>0, <1>1, <1>2, ScreenStep DEF SameShow

LEMMA PagesStep ==
  ASSUME PagesIInv, NextPages
  PROVE  PagesIInv'
<1>1. CASE \E l \in reads : \/ (\E part \in {"list", "mine", "me"} : Read(l, part)) \/ MissMine(l)
                            \/ ApplyPage(l) \/ ApplyMe(l) \/ MissList(l)
  BY <1>1, ReadingStep, ApplyPageStep, ApplyMeStep, MissListStep
<1>2. CASE PollPage \/ OpenDialog \/ CloseDialog \/ SwitchTab \/ Changes
  BY <1>2, PollPageStep, DialogStep, SwitchTabStep, ChangesStep
<1>3. CASE \E a \in ActIds, i \in Things :
             \/ \E kind \in {"upgrade", "buy", "cancel", "join", "place", "register"} : ClickButton(a, kind, i)
             \/ Leave(a, i) \/ ListCar(a, i) \/ FoundFaction(a, i) \/ CreateTournament(a, i)
  <2>1. PICK a \in ActIds, i \in Things :
          \/ \E kind \in {"upgrade", "buy", "cancel", "join", "place", "register"} : ClickButton(a, kind, i)
          \/ Leave(a, i) \/ ListCar(a, i) \/ FoundFaction(a, i) \/ CreateTournament(a, i)
    BY <1>3
  <2>2. CASE \E kind \in {"upgrade", "buy", "cancel", "join", "place", "register"} : ClickButton(a, kind, i)
    BY <2>2, ClickButtonStep
  <2>3. CASE Leave(a, i)
    BY <2>3, LeaveStep
  <2>4. CASE ListCar(a, i) \/ FoundFaction(a, i) \/ CreateTournament(a, i)
    BY <2>4, SubmitStep DEF ListCar, FoundFaction, CreateTournament
  <2> QED
    BY <2>1, <2>2, <2>3, <2>4
<1>4. CASE \E a \in ActIds : Serve(a) \/ BuyTier(a) \/ Refuse(a) \/ Answered(a) \/ CallFails(a)
  BY <1>4, ServeStep, BuyTierStep, RefuseStep, AnsweredStep, CallFailsStep
<1>5. CASE \E i \in Things : SelectFaction(i)
  BY <1>5, SelectFactionStep
<1>6. CASE FetchDetail
  BY <1>6, FetchDetailStep
<1>7. CASE \E d \in screen.fetching : ShowDetail(d) \/ MissDetail(d)
  BY <1>7, DetailStep
<1> QED
  BY <1>1, <1>2, <1>3, <1>4, <1>5, <1>6, <1>7 DEF NextPages

LEMMA PagesIInvIsEnough ==
  ASSUME PagesIInv
  PROVE  PagesInv
<1>1. PagesTypeOK
  BY DEF PagesIInv, PagesShapes, World, Screen, ReadsOK, PagesTypeOK
<1>2. ToldIsShown /\ BilledAsShown
  BY DEF PagesIInv, ReadsOK
<1>3. OneCall
  <2> SUFFICES ASSUME NEW a \in ActIds, NEW b \in ActIds, a < b, Out(a), Out(b), acts[a].thing = acts[b].thing,
                      {acts[a].kind, acts[b].kind} \cap {This.new, "leave"} = {}
               PROVE  \/ acts[a].thing \in screen.remade
                      \/ page = "garage" /\ \E c \in ActIds : acts[c].thing \notin {Nothing, acts[a].thing}
    BY DEF OneCall
  <2>apart. a # b
    <3>1. a \in Nat /\ b \in Nat
      BY DEF ActIds
    <3> QED
      BY <3>1
  <2>ordinary. Ordinary(a) /\ Ordinary(b)
    <3>1. acts[a].kind \notin {This.new, "leave"} /\ acts[b].kind \notin {This.new, "leave"}
      OBVIOUS
    <3> QED
      BY <3>1 DEF Ordinary
  <2>1. Ordinary(a) /\ Ordinary(b) /\ a # b
    BY <2>apart, <2>ordinary
  <2>2. acts[a].thing \in Things
    <3>1. ActOK(acts[a]) /\ acts[a].at # "idle"
      BY DEF PagesIInv, ActsOK, Out
    <3> QED
      BY <3>1 DEF ActOK
  <2>3. screen.busy[acts[a].thing] = a \/ Excused(acts[a].thing)
    BY <2>1, <2>2 DEF PagesIInv, CallsOK
  <2>4. screen.busy[acts[a].thing] = b \/ Excused(acts[a].thing)
    BY <2>1, <2>2 DEF PagesIInv, CallsOK
  <2> QED
    BY <2>1, <2>3, <2>4 DEF Excused
<1>4. NoStuckButton
  BY DEF PagesIInv, ButtonsOK, NoStuckButton
<1>5. RosterIsSelected
  BY DEF PagesIInv, RosterOK, RosterIsSelected
<1> QED
  BY <1>1, <1>2, <1>3, <1>4, <1>5 DEF PagesInv

\* However calls, loads, polls and tabs overlap on whichever page: what was answered is shown by the
\* load it started, a tier is billed as its button named it, a card has one call out, no button
\* stays off and the roster is the selected faction's, for any things, tiers, credits and bounds.
THEOREM PagesKeepUp == InitPages /\ [][NextPages]_pageVars => []PagesInv
<1>1. PagesIInv /\ [NextPages]_pageVars => PagesIInv'
  BY PagesStep, PagesStays
<1>2. InitPages => PagesIInv
  BY PagesStart
<1>3. PagesIInv => PagesInv
  BY PagesIInvIsEnough
<1> QED
  BY <1>1, <1>2, <1>3, PTL
=============================================================================
