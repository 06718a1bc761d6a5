-------------------------------- MODULE Pages --------------------------------
(***************************************************************************)
(* The pages of the web app that list what the API keeps and act on it:    *)
(* garage, market, factions, betting, tournaments, and the boards that     *)
(* only list.  All are built alike: a load on mounting and after each act, *)
(* buttons that are off while their own call is out, a dialog for what is  *)
(* new; they differ in what a load reads, which buttons there are, and     *)
(* what keeps them off.  Calls and loads are answered in any order.  What  *)
(* the API does is one step here (Market, Community, Betting and           *)
(* Tournament model its inside).                                           *)
(***************************************************************************)
EXTENDS Naturals, FiniteSets

CONSTANTS
  Things,      \* upgrade slots of the selected car, listings, factions, pools, tournaments
  Nothing,
  MaxTier, Credits,
  Most         \* bounds of each page: calls, loads, rosters fetched, tabs switched, changes, faults

-----------------------------------------------------------------------------
(* What the pages differ in: what a load reads side by side, whether the   *)
(* profile is read after an act, what the dialog makes, whether the page   *)
(* polls, what others can take off it, and whether all buttons share one   *)
(* busy flag.                                                              *)
Board == [reads |-> {"list"}, me |-> FALSE, new |-> "none", polls |-> FALSE, others |-> FALSE, oneFlag |-> FALSE]
GaragePage == [Board EXCEPT !.me = TRUE, !.oneFlag = TRUE]
MarketPage == [Board EXCEPT !.reads = {"list", "mine"}, !.new = "list", !.others = TRUE]
FactionsPage == [Board EXCEPT !.reads = {"list", "mine"}, !.new = "found"]
BettingPage == [Board EXCEPT !.reads = {"list", "mine"}, !.polls = TRUE, !.others = TRUE]
TournamentsPage == [Board EXCEPT !.new = "create", !.others = TRUE]

Sites == [garage |-> GaragePage, market |-> MarketPage, factions |-> FactionsPage,
          betting |-> BettingPage, tournaments |-> TournamentsPage, board |-> Board]
WebPages == DOMAIN Sites

ASSUME PagesAssumption ==
  /\ Nothing \notin Things /\ MaxTier \in Nat \ {0} /\ Credits \in Nat
  /\ Most \in [WebPages -> [acts : Nat, reads : Nat, fetches : Nat, tabs : Nat, changes : Nat, misses : Nat]]

VARIABLES
  page,      \* the one that is open
  world,     \* what the API keeps: what is open, what of it is the player's, his credits
  acts,      \* the player's calls, in the order of the clicks
  screen,    \* what the page's components keep
  reads,     \* loads under way
  counts     \* bounds

This == Sites[page]

pageVars == <<page, world, acts, screen, reads, counts>>

ActIds == 1..Most[page].acts

Nobodys == [i \in Things |-> 0]
Resting == [i \in Things |-> 0]
Idle == [at |-> "idle", heard |-> "no", kind |-> "none", thing |-> Nothing, from |-> 0, shown |-> 0, alone |-> FALSE, charged |-> 0]

Effected == {a \in ActIds : acts[a].at = "done"}
Granted == {a \in ActIds : acts[a].heard = "ok"}
Out(a) == acts[a].at # "idle" /\ acts[a].heard = "no"

-----------------------------------------------------------------------------
(* Loading.                                                                *)

Wanted(l) == IF l.what = "me" THEN {"me"} ELSE This.reads

\* The load of an act, of LEAVE, of a poll; `selected` is the one of the render that asks.
StartLoad(after, leaving) ==
  /\ counts.reads < Most[page].reads
  /\ counts' = [counts EXCEPT !.reads = @ + 1]
  /\ reads' = reads \cup {[id |-> counts.reads + 1, what |-> "page", after |-> after, leaving |-> leaving,
                           chosen |-> screen.selected # Nothing, got |-> {}, seen |-> {},
                           open |-> {}, mine |-> Nobodys, credits |-> 0]}

\* Mutant of ReloadPage: the page is told nothing.
ReloadPageNot(after, leaving) == UNCHANGED <<reads, counts>>

ReloadPage(after, leaving) == StartLoad(after, leaving)

\* The player's listings are those still open.
OwnNow == [i \in Things |-> IF page = "market" /\ i \notin world.open THEN 0 ELSE world.mine[i]]

Read(l, part) ==
  /\ part \in Wanted(l) \ l.got
  /\ reads' = (reads \ {l}) \cup {[l EXCEPT
       !.got = @ \cup {part},
       !.seen = IF l.got = {} THEN Effected ELSE @,
       !.open = IF part = "list" THEN world.open ELSE @,
       !.mine = IF part = "mine" \/ page = "garage" THEN OwnNow ELSE @,
       !.credits = IF part = "me" THEN world.purse ELSE @]}
  /\ UNCHANGED <<page, world, acts, screen, counts>>

\* mine().catch(() => []), me().catch(() => null)
MissMine(l) ==
  /\ "mine" \in Wanted(l) \ l.got
  /\ counts.misses < Most[page].misses /\ counts' = [counts EXCEPT !.misses = @ + 1]
  /\ reads' = (reads \ {l}) \cup {[l EXCEPT !.got = @ \cup {"mine"}, !.seen = IF l.got = {} THEN Effected ELSE @]}
  /\ UNCHANGED <<page, world, acts, screen>>

Displayed(i, s) == IF s.tab = "mine" THEN s.mine[i] > 0 ELSE i \in s.open

\* A card that is no longer on the page takes its busy flag with it.
Kept(s) ==
  LET gone == IF This.oneFlag THEN {} ELSE {i \in Things : s.busy[i] # 0 /\ ~Displayed(i, s)}
  IN [s EXCEPT !.busy = [i \in Things |-> IF i \in gone THEN 0 ELSE @[i]], !.remade = @ \cup gone]

\* The garage goes on to the profile; LEAVE is over.
GoOn(l) ==
  reads' = (reads \ {l}) \cup
    (IF l.what = "page" /\ This.me /\ l.after
     THEN {[l EXCEPT !.what = "me", !.got = {}, !.seen = {}]} ELSE {})

LeaveOver(l, s) == IF l.leaving THEN [s EXCEPT !.leaving = 0] ELSE s

\* The first faction listed is selected if, when the load was asked for, none was.
Selections(l) ==
  IF page = "factions" /\ ~l.chosen /\ l.open # {} THEN l.open ELSE {screen.selected}

ApplyPage(l) ==
  /\ l.what = "page" /\ l.got = Wanted(l)
  /\ \E i \in Selections(l) :
       screen' = LeaveOver(l, Kept([screen EXCEPT !.loading = FALSE, !.open = l.open, !.mine = l.mine,
                                             !.seen = l.seen, !.last = l.id, !.selected = i]))
  /\ GoOn(l)
  /\ UNCHANGED <<page, world, acts, counts>>

ApplyMe(l) ==
  /\ l.what = "me" /\ l.got = {"me"}
  /\ screen' = [screen EXCEPT !.credits = l.credits, !.creditsSeen = l.seen, !.lastMe = l.id]
  /\ reads' = reads \ {l}
  /\ UNCHANGED <<page, world, acts, counts>>

\* The list's failure is swallowed, and so is the profile's.
MissList(l) ==
  /\ l.got # Wanted(l)
  /\ counts.misses < Most[page].misses /\ counts' = [counts EXCEPT !.misses = @ + 1]
  /\ screen' = LeaveOver(l, [screen EXCEPT !.loading = FALSE])
  /\ GoOn(l)
  /\ UNCHANGED <<page, world, acts>>

\* Pools lock on a timescale of seconds: the page polls.
PollPage ==
  /\ This.polls /\ StartLoad(FALSE, FALSE)
  /\ UNCHANGED <<page, world, acts, screen>>

-----------------------------------------------------------------------------
(* Buttons.                                                                *)
Cost(kind, tier) == CASE kind = "upgrade" -> tier + 1 [] kind \in {"buy", "register", "place", "found"} -> 1 [] OTHER -> 0

Affords(kind, i) == screen.credits >= Cost(kind, screen.mine[i])

\* What keeps a button off besides its own call.
UpgradeOffered(i) == page = "garage" /\ screen.mine[i] < MaxTier /\ Affords("upgrade", i)
BuyOffered(i) == page = "market" /\ screen.mine[i] = 0 /\ Affords("buy", i)
CancelOffered(i) == page = "market" /\ screen.mine[i] > 0
JoinOffered(i) == page = "factions" /\ screen.mine = Nobodys
BetOffered(i) == page = "betting"
RegisterOffered(i) == page = "tournaments" /\ Affords("register", i)

Offered(kind, i) ==
  /\ Displayed(i, screen) /\ ~screen.loading
  /\ CASE kind = "upgrade" -> UpgradeOffered(i)
       [] kind = "buy" -> BuyOffered(i)
       [] kind = "cancel" -> CancelOffered(i)
       [] kind = "join" -> JoinOffered(i)
       [] kind = "place" -> BetOffered(i)
       [] kind = "register" -> RegisterOffered(i)

\* The page shows all that was done to this thing, and nothing is out that will be.
UpToDate(i) ==
  /\ screen.last = counts.reads /\ reads = {}
  /\ \A a \in ActIds : acts[a].thing = i => acts[a].at = "refused" \/ (a \in screen.seen /\ ~Out(a))

Asked(kind, i) ==
  LET asked == [Idle EXCEPT !.at = "asked", !.kind = kind, !.thing = i]
  IN IF kind = "upgrade"
     THEN [asked EXCEPT !.from = world.mine[i], !.shown = screen.mine[i], !.alone = UpToDate(i)]
     ELSE asked

Ask(a, kind, i) ==
  /\ acts[a].at = "idle" /\ \A b \in ActIds : b < a => acts[b].at # "idle"
  /\ acts' = [b \in ActIds |-> IF b = a THEN Asked(kind, i)
                               ELSE IF acts[b].thing = i /\ acts[b].at = "asked" THEN [acts[b] EXCEPT !.alone = FALSE]
                               ELSE acts[b]]

Free(i) == screen.busy[i] = 0

ClickButton(a, kind, i) ==
  /\ Offered(kind, i) /\ Free(i)
  /\ Ask(a, kind, i)
  /\ screen' = [screen EXCEPT !.busy = [IF This.oneFlag THEN Resting ELSE @ EXCEPT ![i] = a]]
  /\ UNCHANGED <<page, world, reads, counts>>

Leave(a, i) ==
  /\ page = "factions" /\ screen.mine[i] > 0 /\ screen.leaving = 0
  /\ Ask(a, "leave", i)
  /\ screen' = [screen EXCEPT !.leaving = a]
  /\ UNCHANGED <<page, world, reads, counts>>

\* SELL A CAR, FOUND FACTION (only to those in none), + CREATE.
OpenDialog ==
  /\ This.new # "none" /\ ~screen.dialog.open
  /\ page = "factions" => screen.mine = Nobodys
  /\ screen' = [screen EXCEPT !.dialog = [open |-> TRUE, busy |-> 0]]
  /\ UNCHANGED <<page, world, acts, reads, counts>>

NoDialog == [open |-> FALSE, busy |-> 0]

\* The dialog goes; what it asked for does not.
CloseDialog ==
  /\ screen.dialog.open
  /\ screen' = [screen EXCEPT !.dialog = NoDialog]
  /\ UNCHANGED <<page, world, acts, reads, counts>>

Submit(a, i) ==
  /\ screen.dialog = [open |-> TRUE, busy |-> 0]
  /\ Ask(a, This.new, i)
  /\ screen' = [screen EXCEPT !.dialog.busy = a]
  /\ UNCHANGED <<page, world, reads, counts>>

\* A car of the player's, a name and a tag, a name and a time have been filled in.
ListCar(a, i) == page = "market" /\ Submit(a, i)
FoundFaction(a, i) == page = "factions" /\ Submit(a, i)
CreateTournament(a, i) == page = "tournaments" /\ Submit(a, i)

SwitchTab ==
  /\ page = "market" /\ counts.tabs < Most[page].tabs
  /\ counts' = [counts EXCEPT !.tabs = @ + 1]
  /\ screen' = Kept([screen EXCEPT !.tab = IF @ = "mine" THEN "browse" ELSE "mine"])
  /\ UNCHANGED <<page, world, acts, reads>>

-----------------------------------------------------------------------------
(* The API.                                                                *)
Accepts(kind, i) ==
  CASE kind = "buy" -> i \in world.open /\ world.mine[i] = 0
    [] kind = "cancel" -> i \in world.open /\ world.mine[i] = 1
    [] kind \in {"list", "create"} -> i \notin world.open
    [] kind = "join" -> i \in world.open /\ world.mine = Nobodys
    [] kind = "found" -> i \notin world.open /\ world.mine = Nobodys
    [] kind = "leave" -> world.mine[i] = 1
    [] kind = "register" -> i \in world.open /\ world.mine[i] = 0
    [] kind = "place" -> i \in world.open /\ world.mine[i] = 0
    [] OTHER -> FALSE

Serve(a) ==
  LET i == acts[a].thing kind == acts[a].kind IN
  /\ acts[a].at = "asked" /\ kind # "upgrade"
  /\ Accepts(kind, i) /\ world.purse >= Cost(kind, 0)
  /\ world' = [world EXCEPT
       !.purse = @ - Cost(kind, 0),
       !.open = CASE kind \in {"buy", "cancel"} -> @ \ {i} [] kind \in {"list", "found", "create"} -> @ \cup {i} [] OTHER -> @,
       !.mine[i] = CASE kind \in {"list", "join", "found", "register", "place"} -> 1 [] kind = "leave" -> 0 [] OTHER -> @]
  /\ acts' = [acts EXCEPT ![a].at = "done"]
  /\ UNCHANGED <<page, screen, reads, counts>>

\* The next tier above the one read while the call ran; a tier that was paid for is not paid again.
BuyTier(a) ==
  LET i == acts[a].thing IN
  /\ acts[a].at = "asked" /\ acts[a].kind = "upgrade"
  /\ \E tier \in acts[a].from..world.mine[i] :
       LET cost == IF tier = world.mine[i] THEN Cost("upgrade", tier) ELSE 0
       IN /\ tier < MaxTier /\ cost <= world.purse
          /\ world' = [world EXCEPT !.mine[i] = tier + 1, !.purse = @ - cost]
          /\ acts' = [acts EXCEPT ![a].at = "done", ![a].charged = IF cost = 0 THEN 0 ELSE tier + 1]
  /\ UNCHANGED <<page, screen, reads, counts>>

Refuse(a) ==
  LET i == acts[a].thing kind == acts[a].kind IN
  /\ acts[a].at = "asked"
  /\ IF kind = "upgrade" THEN world.mine[i] = MaxTier \/ world.purse < Cost(kind, world.mine[i])
                         ELSE ~Accepts(kind, i) \/ world.purse < Cost(kind, 0)
  /\ acts' = [acts EXCEPT ![a].at = "refused"]
  /\ UNCHANGED <<page, world, screen, reads, counts>>

\* Somebody else buys the listing, the pool locks, the tournament begins.
Changes ==
  /\ This.others
  /\ counts.changes < Most[page].changes /\ counts' = [counts EXCEPT !.changes = @ + 1]
  /\ \E i \in world.open : world' = [world EXCEPT !.open = @ \ {i}]
  /\ UNCHANGED <<page, acts, screen, reads>>

-----------------------------------------------------------------------------
(* Answers.                                                                *)

\* finally setBusy: the garage has one flag for all its slots.
Freed(a) ==
  [screen EXCEPT !.busy = [i \in Things |-> IF @[i] = a \/ This.oneFlag THEN 0 ELSE @[i]]]

\* The page is told to load, and does not wait for it; only LEAVE awaits its load.
Answered(a) ==
  /\ acts[a].at = "done" /\ Out(a)
  /\ acts' = [acts EXCEPT ![a].heard = "ok"]
  /\ screen' = CASE acts[a].kind = "leave" -> screen
                 [] acts[a].kind = This.new -> [screen EXCEPT !.dialog = NoDialog]
                 [] OTHER -> Freed(a)
  /\ ReloadPage(TRUE, acts[a].kind = "leave")
  /\ UNCHANGED <<page, world>>

\* Refused, or the answer was lost, and what was asked may be done for all that.
CallFails(a) ==
  /\ Out(a)
  /\ IF acts[a].at = "refused" THEN UNCHANGED counts
     ELSE counts.misses < Most[page].misses /\ counts' = [counts EXCEPT !.misses = @ + 1]
  /\ acts' = [acts EXCEPT ![a].heard = "error"]
  /\ screen' = CASE acts[a].kind = "leave" -> [screen EXCEPT !.leaving = 0]
                 [] acts[a].kind = This.new -> IF screen.dialog.busy = a THEN [screen EXCEPT !.dialog.busy = 0] ELSE screen
                 [] OTHER -> Freed(a)
  /\ UNCHANGED <<page, world, reads>>

-----------------------------------------------------------------------------
(* The roster beside the factions.                                         *)
SelectFaction(i) ==
  /\ page = "factions" /\ i \in screen.open /\ screen.selected \notin {i, Nothing}
  /\ screen' = [screen EXCEPT !.selected = i]
  /\ UNCHANGED <<page, world, acts, reads, counts>>

\* The effect on [id]; nothing calls off the fetch of the one before.
FetchDetail ==
  /\ screen.selected # Nothing /\ screen.wanted.of # screen.selected
  /\ screen.wanted.id < Most[page].fetches
  /\ LET d == [id |-> screen.wanted.id + 1, of |-> screen.selected]
     IN screen' = [screen EXCEPT !.wanted = d, !.fetching = @ \cup {d}]
  /\ UNCHANGED <<page, world, acts, reads, counts>>

ShowDetail(d) ==
  /\ screen' = [screen EXCEPT !.fetching = @ \ {d}, !.detail = d]
  /\ UNCHANGED <<page, world, acts, reads, counts>>

MissDetail(d) ==
  /\ counts.misses < Most[page].misses /\ counts' = [counts EXCEPT !.misses = @ + 1]
  /\ screen' = [screen EXCEPT !.fetching = @ \ {d}]
  /\ UNCHANGED <<page, world, acts, reads>>

-----------------------------------------------------------------------------
InitPages ==
  /\ page \in WebPages
  /\ \E open \in SUBSET Things :
       /\ open # {} /\ (page = "garage" => open = Things)
       /\ \E mine \in [Things -> 0..1] :
            /\ page \in {"garage", "board"} => mine = Nobodys
            /\ page \in {"betting", "tournaments"} => mine = Nobodys
            /\ \A i \in Things \ open : mine[i] = 0
            /\ page = "factions" => Cardinality({i \in Things : mine[i] = 1}) <= 1
            /\ world = [open |-> open, mine |-> mine, purse |-> Credits]
  /\ acts = [a \in ActIds |-> Idle]
  /\ screen = [loading |-> TRUE, open |-> {}, mine |-> Nobodys, seen |-> {}, last |-> 0,
               credits |-> Credits, creditsSeen |-> {}, lastMe |-> 0, tab |-> "browse", busy |-> Resting, remade |-> {}, leaving |-> 0,
               dialog |-> NoDialog, selected |-> Nothing,
               wanted |-> [id |-> 0, of |-> Nothing], fetching |-> {}, detail |-> [id |-> 0, of |-> Nothing]]
  /\ reads = {[id |-> 1, what |-> "page", after |-> FALSE, leaving |-> FALSE, chosen |-> FALSE, got |-> {}, seen |-> {},
               open |-> {}, mine |-> Nobodys, credits |-> 0]}
  /\ counts = [reads |-> 1, tabs |-> 0, changes |-> 0, misses |-> 0]

NextPages ==
  \/ \E l \in reads : (\E part \in {"list", "mine", "me"} : Read(l, part)) \/ MissMine(l) \/ ApplyPage(l) \/ ApplyMe(l) \/ MissList(l)
  \/ PollPage \/ OpenDialog \/ CloseDialog \/ SwitchTab \/ Changes
  \/ \E a \in ActIds : \/ \E i \in Things :
                            \/ \E kind \in {"upgrade", "buy", "cancel", "join", "place", "register"} : ClickButton(a, kind, i)
                            \/ Leave(a, i) \/ ListCar(a, i) \/ FoundFaction(a, i) \/ CreateTournament(a, i)
                       \/ Serve(a) \/ BuyTier(a) \/ Refuse(a) \/ Answered(a) \/ CallFails(a)
  \/ \E i \in Things : SelectFaction(i)
  \/ FetchDetail
  \/ \E d \in screen.fetching : ShowDetail(d) \/ MissDetail(d)

-----------------------------------------------------------------------------
\* An act that was answered is in what the page shows, as soon as the load it started is the
\* last one applied; the garage's credits the same.
ToldIsShown ==
  /\ screen.last = counts.reads => Granted \subseteq screen.seen
  /\ page = "garage" /\ screen.lastMe = counts.reads => Granted \subseteq screen.creditsSeen

\* Nobody pays for another tier than the button named, unless he clicked again before the page
\* had caught up with his last purchase of that slot, or after one that was reported failed.
BilledAsShown ==
  \A a \in Effected : acts[a].charged > 0 /\ acts[a].alone => acts[a].charged = acts[a].shown + 1

\* A card has one call out at a time, unless a tab or a load took the card off the page while
\* it was busy, or the garage's one flag has passed to another slot.
OneCall ==
  \A a, b \in ActIds :
    /\ a < b /\ Out(a) /\ Out(b)
    /\ acts[a].thing = acts[b].thing /\ {acts[a].kind, acts[b].kind} \cap {This.new, "leave"} = {}
    => \/ acts[a].thing \in screen.remade
       \/ page = "garage" /\ \E c \in ActIds : acts[c].thing \notin {Nothing, acts[a].thing}

\* No button stays off: what is busy has a call or, for LEAVE, the load after it under way.
NoStuckButton ==
  /\ \A i \in Things : screen.busy[i] # 0 => Out(screen.busy[i]) /\ acts[screen.busy[i]].thing = i
  /\ screen.dialog.busy # 0 => Out(screen.dialog.busy)
  /\ screen.leaving # 0 => Out(screen.leaving) \/ \E l \in reads : l.leaving

\* The roster on show is the selected faction's, once the last one asked for has come.
RosterIsSelected ==
  screen.detail.id = screen.wanted.id /\ screen.wanted.of = screen.selected => screen.detail.of = screen.selected

PagesTypeOK ==
  /\ page \in WebPages
  /\ world.open \subseteq Things /\ world.mine \in [Things -> 0..MaxTier] /\ world.purse \in 0..Credits
  /\ screen.credits \in 0..Credits /\ screen.seen \subseteq Effected

\* A page shows what it did, charges what it showed, does it once and lets go of its
\* buttons, while loads, polls, tabs and calls overlap.
PagesInv == PagesTypeOK /\ ToldIsShown /\ BilledAsShown /\ OneCall /\ NoStuckButton /\ RosterIsSelected
=============================================================================
