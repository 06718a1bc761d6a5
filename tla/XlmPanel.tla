------------------------------ MODULE XlmPanel ------------------------------
(***************************************************************************)
(* The wallet page (apps/web/src/app/wallet, components/wallet): the panel *)
(* that connects the player's own Stellar wallet, shows its balance and    *)
(* sends payments, and the page around it, that mirrors the address for    *)
(* the escrow panel.  Every await ends a step, and what was asked first    *)
(* need not be answered first.  External: the wallet extension, whose user *)
(* changes accounts at will, and the network.                              *)
(***************************************************************************)
EXTENDS Naturals, FiniteSets

CONSTANTS
  Accounts,     \* of the wallet extension
  None,         \* no address, no balance
  Sends,        \* payments, numbered in the order they are asked for
  MaxLoads, MaxSwitches, MaxXlmFaults   \* bounds

ASSUME XlmAssumption == None \notin Accounts /\ Sends \subseteq Nat \ {0}

VARIABLES
  active,       \* the extension's account
  panel,        \* what StellarWalletPanel and SendForm keep
  pageAddress,  \* what the page keeps for the escrow panel
  mirror,       \* the page's own getWalletAddress: in flight, or whether it came late
  loads,        \* balances asked for and not yet applied
  payment,      \* per send, where it is
  included,     \* payments the network has made
  overtaken,   \* ghost: balances were asked for at a time, or for an address not on show
  loadCount, switches, xlmFaults

xlmVars == <<active, panel, pageAddress, mirror, loads, payment, included, overtaken, loadCount, switches, xlmFaults>>

InitXlm ==
  /\ active \in Accounts
  /\ panel = [freighter |-> "detecting", restore |-> FALSE, address |-> None, balance |-> None,
              loading |-> FALSE, connecting |-> FALSE, form |-> 0, told |-> {}]
  /\ pageAddress = None /\ mirror = "asked"
  /\ loads = {}
  /\ payment = [i \in Sends |-> [at |-> "idle"]]
  /\ included = {}
  /\ overtaken = FALSE
  /\ loadCount = 0 /\ switches = 0 /\ xlmFaults = 0

Faulty == xlmFaults < MaxXlmFaults /\ xlmFaults' = xlmFaults + 1
Extension == UNCHANGED <<active, switches, included>>
NoLoad == UNCHANGED <<loads, loadCount, overtaken>>

UpdateAddress(a, p) == panel' = [p EXCEPT !.address = a] /\ pageAddress' = a

\* loadBalance, up to its await, for the send or the connection that awaits it in turn.
LoadBalance(a, connect, send) ==
  /\ loadCount < MaxLoads /\ loadCount' = loadCount + 1
  /\ loads' = loads \cup {[id |-> loadCount, of |-> a, connect |-> connect, send |-> send, seen |-> {}, read |-> FALSE]}
  /\ overtaken' = (overtaken \/ loads # {} \/ panel'.address \notin {a, None})

-----------------------------------------------------------------------------
(* Connecting.                                                             *)
Detect ==
  /\ panel.freighter = "detecting"
  /\ \/ panel' = [panel EXCEPT !.freighter = "there", !.restore = TRUE] /\ UNCHANGED xlmFaults
     \/ panel' = [panel EXCEPT !.freighter = "absent"] /\ Faulty
  /\ Extension /\ NoLoad /\ UNCHANGED <<pageAddress, mirror, payment>>

\* The session the extension still allows is taken up again, or there is none.
Restore ==
  /\ panel.restore
  /\ \/ /\ UpdateAddress(active, [panel EXCEPT !.restore = FALSE, !.loading = TRUE])
        /\ LoadBalance(active, FALSE, 0) /\ UNCHANGED xlmFaults
     \/ panel' = [panel EXCEPT !.restore = FALSE] /\ NoLoad /\ UNCHANGED <<pageAddress, xlmFaults>>
     \/ panel' = [panel EXCEPT !.restore = FALSE, !.freighter = "absent"] /\ NoLoad /\ Faulty /\ UNCHANGED pageAddress
  /\ Extension /\ UNCHANGED <<mirror, payment>>

\* The page asks as well; its answer is late if the panel has set an address before.
Mirror ==
  /\ mirror = "asked"
  /\ \E a \in {active, None} : pageAddress' = a
  /\ mirror' = IF loadCount = 0 THEN "in time" ELSE "late"
  /\ Extension /\ NoLoad /\ UNCHANGED <<panel, payment, xlmFaults>>

CanConnect == panel.freighter = "there" /\ panel.address = None /\ ~panel.connecting

HandleConnect ==
  /\ CanConnect
  /\ panel' = [panel EXCEPT !.connecting = TRUE]
  /\ Extension /\ NoLoad /\ UNCHANGED <<pageAddress, mirror, payment, xlmFaults>>

\* The user grants access, or refuses it.
Connected ==
  /\ panel.connecting /\ \A l \in loads : ~l.connect
  /\ \/ /\ UpdateAddress(active, [panel EXCEPT !.loading = TRUE])
        /\ LoadBalance(active, TRUE, 0)
     \/ panel' = [panel EXCEPT !.connecting = FALSE] /\ NoLoad /\ UNCHANGED pageAddress
  /\ Extension /\ UNCHANGED <<mirror, payment, xlmFaults>>

Shown == panel.freighter = "there" /\ panel.address # None

\* SendForm is unmounted: what it was sending goes on, and is not told.
HandleDisconnect ==
  /\ Shown
  /\ UpdateAddress(None, [panel EXCEPT !.balance = None, !.form = 0])
  /\ Extension /\ NoLoad /\ UNCHANGED <<mirror, payment, xlmFaults>>

SwitchAccount ==
  /\ switches < MaxSwitches /\ switches' = switches + 1
  /\ active' \in Accounts \ {active}
  /\ NoLoad /\ UNCHANGED <<panel, pageAddress, mirror, payment, included, xlmFaults>>

-----------------------------------------------------------------------------
(* Balances.                                                               *)
HandleRefreshBalance ==
  /\ Shown /\ ~panel.loading
  /\ panel' = [panel EXCEPT !.loading = TRUE]
  /\ LoadBalance(panel.address, FALSE, 0)
  /\ Extension /\ UNCHANGED <<pageAddress, mirror, payment, xlmFaults>>

\* Horizon reads the account; the answer is under way.
ReadBalance(l) ==
  /\ ~l.read
  /\ loads' = (loads \ {l}) \cup {[l EXCEPT !.read = TRUE, !.seen = {i \in included : payment[i].from = l.of}]}
  /\ Extension /\ UNCHANGED <<panel, pageAddress, mirror, payment, overtaken, loadCount, xlmFaults>>

\* The end of handleSend: the form, if it is still the one that asked, says so.
Told(i, p) == IF p.form = i THEN [p EXCEPT !.form = 0, !.told = @ \cup {i}] ELSE p

\* Applied, and loadBalance's caller goes on.
Apply(l, balance) ==
  /\ loads' = loads \ {l}
  /\ LET p == [panel EXCEPT !.balance = balance, !.loading = FALSE]
     IN panel' = CASE l.connect -> [p EXCEPT !.connecting = FALSE]
                   [] l.send # 0 -> Told(l.send, p)
                   [] OTHER -> p
  /\ payment' = IF l.send # 0 THEN [payment EXCEPT ![l.send].at = "over"] ELSE payment
  /\ Extension /\ UNCHANGED <<pageAddress, mirror, overtaken, loadCount>>

BalanceLoaded(l) == l.read /\ Apply(l, [of |-> l.of, seen |-> l.seen]) /\ UNCHANGED xlmFaults

BalanceFails(l) == Apply(l, None) /\ Faulty

-----------------------------------------------------------------------------
(* A payment: handleSend of the form, and of the panel.                    *)
CanSend == Shown /\ ~panel.loading /\ panel.form = 0

HandleSend(i) ==
  /\ CanSend /\ payment[i].at = "idle" /\ \A k \in Sends : k < i => payment[k].at # "idle"
  /\ payment' = [payment EXCEPT ![i] = [at |-> "build", from |-> panel.address, signer |-> None]]
  /\ panel' = [panel EXCEPT !.form = i]
  /\ Extension /\ NoLoad /\ UNCHANGED <<pageAddress, mirror, xlmFaults>>

Advance(i, from, to) == payment[i].at = from /\ payment' = [payment EXCEPT ![i].at = to]
SendOnly == Extension /\ NoLoad /\ UNCHANGED <<pageAddress, mirror>>

BuildPayment(i) == Advance(i, "build", "sign") /\ SendOnly /\ UNCHANGED <<panel, xlmFaults>>

\* The extension signs with its account of the moment.
SignTx(i) ==
  /\ payment[i].at = "sign"
  /\ payment' = [payment EXCEPT ![i].at = "submit", ![i].signer = active]
  /\ SendOnly /\ UNCHANGED <<panel, xlmFaults>>

\* The network makes the payment; submitTransaction may still wait for the answer.
Include(i) ==
  /\ payment[i].at \in {"submit", "lost"} /\ i \notin included
  /\ payment[i].signer = payment[i].from
  /\ included' = included \cup {i}
  /\ NoLoad /\ UNCHANGED <<active, switches, panel, pageAddress, mirror, payment, xlmFaults>>

\* Mutant of Submitted: the balance is taken for the one that was on show.
SubmittedOnly(i) ==
  /\ payment[i].at = "submit" /\ i \in included
  /\ payment' = [payment EXCEPT ![i].at = "over"]
  /\ panel' = Told(i, panel)
  /\ SendOnly /\ UNCHANGED xlmFaults

\* The balance of the address that sent is loaded before the form is answered.
Submitted(i) ==
  /\ payment[i].at = "submit" /\ i \in included
  /\ payment' = [payment EXCEPT ![i].at = "load"]
  /\ panel' = [panel EXCEPT !.loading = TRUE]
  /\ LoadBalance(payment[i].from, FALSE, i)
  /\ Extension /\ UNCHANGED <<pageAddress, mirror, xlmFaults>>

\* Refused by the user or the network, or the answer was lost: the form says that it failed.
SendFails(i) ==
  /\ payment[i].at \in {"build", "sign", "submit"}
  /\ payment' = [payment EXCEPT ![i].at = IF @ = "submit" THEN "lost" ELSE "over"]
  /\ panel' = IF panel.form = i THEN [panel EXCEPT !.form = 0] ELSE panel
  /\ IF payment[i].at = "submit" /\ payment[i].signer # payment[i].from THEN UNCHANGED xlmFaults ELSE Faulty
  /\ SendOnly

NextXlm ==
  \/ Detect \/ Restore \/ Mirror \/ HandleConnect \/ Connected \/ HandleDisconnect \/ SwitchAccount
  \/ HandleRefreshBalance
  \/ \E l \in loads : ReadBalance(l) \/ BalanceLoaded(l) \/ BalanceFails(l)
  \/ \E i \in Sends : \/ HandleSend(i) \/ BuildPayment(i) \/ SignTx(i) \/ Include(i)
                      \/ Submitted(i) \/ SendFails(i)

-----------------------------------------------------------------------------
\* The balance that stands beside an address is that address's, and counts the payments
\* the form has told to have been sent from it; unless balances were loaded two at a time,
\* when one answer may overtake the other, or for a sender that is no longer on show.
BalanceIsTrue ==
  Shown /\ loads = {} /\ panel.balance # None /\ ~overtaken =>
    /\ panel.balance.of = panel.address
    /\ {i \in panel.told : payment[i].from = panel.address} \subseteq panel.balance.seen

\* What the form tells is so, and the account on show when SEND was pressed paid for it.
ToldIsPaid == \A i \in panel.told : i \in included

\* The escrow panel acts for the address the panel shows, unless the page's own answer was late.
PageFollows == mirror = "in time" /\ loadCount > 0 => pageAddress = panel.address

XlmTypeOK ==
  /\ panel.address \in Accounts \cup {None} /\ pageAddress \in Accounts \cup {None}
  /\ Cardinality({l \in loads : l.connect}) <= 1
  /\ \A l \in loads : l.send # 0 => payment[l.send].at = "load"
  /\ ~overtaken => Cardinality(loads) <= 1 /\ (panel.loading <=> loads # {})

\* The wallet panel tells the truth about the account it shows, although the wallet, the
\* network and the page's own calls answer when they like.
XlmPanelInv == XlmTypeOK /\ BalanceIsTrue /\ ToldIsPaid /\ PageFollows
=============================================================================
