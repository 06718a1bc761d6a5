------------------------------ MODULE RaceView ------------------------------
(***************************************************************************)
(* The race on screen (apps/web/src: app/play, components/game, stores/    *)
(* raceStore, game/onlineSession): one view after the other, solo or       *)
(* online, all of them writing to one store that the HUD shows.  What a    *)
(* view began goes on when it is left: a connection being made, messages   *)
(* of a room on their way, the rewards asked for after the finish.  Views  *)
(* are numbered, and so are their sessions; the rooms are modelled in      *)
(* RaceRoom and are external here.                                         *)
(***************************************************************************)
EXTENDS Naturals

CONSTANTS
  MaxViews,     \* bound
  Reward,       \* credits for a race
  OtherCredits  \* bound: the credits that anything else leaves the player with

ASSUME RaceViewAssumption == MaxViews \in Nat /\ Reward \in Nat \ {0} /\ OtherCredits \subseteq Nat

VARIABLES
  view,         \* the one on screen; "settled", "behind" and "traded" are ghosts
  store,        \* the race store; "of" is a ghost, the view that wrote the phase
  session,      \* per online view, how far its connection is
  heard,        \* what the room of the session has told everyone
  timers,       \* solo views whose countdown timer runs
  rewards,      \* views whose rewards are being asked for
  purse,        \* the credits of the player, at the API, and as the profile shows them
  unreported    \* races whose result the API has not yet heard of

raceViewVars == <<view, store, session, heard, timers, rewards, purse, unreported>>

Views == 1..MaxViews
Reset == [phase |-> "WAITING", of |-> 0, results |-> [of |-> 0, earned |-> 0]]

InitRaceView ==
  /\ view = [n |-> 0, kind |-> "none", last |-> 0, rewarded |-> FALSE, pre |-> 0, entered |-> "WAITING",
             settled |-> TRUE, behind |-> {}, traded |-> 0]
  /\ store = Reset
  /\ session = [n \in Views |-> "none"]
  /\ heard = [n \in Views |-> "WAITING"]
  /\ timers = {} /\ rewards = {} /\ unreported = {}
  /\ purse = [api |-> 0, shown |-> 0]

Patch(n, phase) == store' = [store EXCEPT !.phase = phase, !.of = n]

-----------------------------------------------------------------------------
(* Views.                                                                  *)
\* Ghosts, of a view that is entered: the sessions that are not over, and whether nothing
\* of an earlier race is still to come.
Behind == {n \in Views : session[n] \notin {"none", "gone"}}
Settled == purse.shown = purse.api /\ unreported = {} /\ rewards = {} /\ Behind = {}

Enter(kind) ==
  /\ view.kind = "none" /\ view.last < MaxViews
  /\ view' = [n |-> view.last + 1, kind |-> kind, last |-> view.last + 1, rewarded |-> FALSE,
              pre |-> purse.shown, entered |-> store.phase,
              settled |-> Settled, behind |-> Behind, traded |-> view.traded]

\* PlayerCar: the store starts anew, and the countdown's timer.
MountSolo ==
  /\ Enter("solo")
  /\ store' = [Reset EXCEPT !.phase = "COUNTDOWN", !.of = view'.n]
  /\ timers' = timers \cup {view'.n}
  /\ UNCHANGED <<session, heard, rewards, purse, unreported>>

\* A guest's account if need be, a ticket and a seat are asked for, one after the other.
Connect(n) == session' = [session EXCEPT ![n] = "connecting"]

MountOnline ==
  /\ Enter("online")
  /\ store' = [Reset EXCEPT !.of = view'.n]
  /\ Connect(view'.n)
  /\ UNCHANGED <<heard, timers, rewards, purse, unreported>>

ClearTimer(n) == timers' = timers \ {n}

Unmount ==
  /\ view.kind # "none"
  /\ view' = [view EXCEPT !.kind = "none"]
  /\ ClearTimer(view.n)
  /\ session' = [session EXCEPT ![view.n] = IF @ = "open" THEN "leaving" ELSE @]
  /\ UNCHANGED <<store, heard, rewards, purse, unreported>>

CountdownOver(n) ==
  /\ n \in timers /\ timers' = timers \ {n}
  /\ Patch(n, "RACING")
  /\ UNCHANGED <<view, session, heard, rewards, purse, unreported>>

\* The loop of PlayerCar steps the sim while the store says RACING, and ends the race.
FinishSolo ==
  /\ view.kind = "solo" /\ store.phase = "RACING" /\ store.results.of # view.n
  /\ store' = [phase |-> "FINISHED", of |-> view.n, results |-> [of |-> view.n, earned |-> 0]]
  /\ UNCHANGED <<view, session, heard, timers, rewards, purse, unreported>>

-----------------------------------------------------------------------------
(* Sessions.                                                               *)
OnScreen(n) == view.kind # "none" /\ view.n = n

\* Mutant of Joined: the view is not asked for.
JoinedAnyway(n) ==
  /\ session[n] = "connecting"
  /\ session' = [session EXCEPT ![n] = "open"]
  /\ Patch(n, "WAITING")
  /\ UNCHANGED <<view, heard, timers, rewards, purse, unreported>>

\* The session's constructor writes to the store before anyone asks whether its view is
\* still there; a session that comes too late is left at once.
Joined(n) ==
  /\ session[n] = "connecting"
  /\ session' = [session EXCEPT ![n] = IF OnScreen(n) THEN "open" ELSE "leaving"]
  /\ Patch(n, "WAITING")
  /\ UNCHANGED <<view, heard, timers, rewards, purse, unreported>>

ConnectFails(n) ==
  /\ session[n] = "connecting"
  /\ session' = [session EXCEPT ![n] = "gone"]
  /\ UNCHANGED <<view, store, heard, timers, rewards, purse, unreported>>

\* The room's messages, in their order, until it has seen the player leave.
Following == [WAITING |-> "COUNTDOWN", COUNTDOWN |-> "RACING", RACING |-> "FINISHED"]

RacePhase(n) ==
  /\ session[n] \in {"open", "leaving"} /\ heard[n] \in DOMAIN Following
  /\ Following[heard[n]] = "FINISHED" => rewards = {}   \* a race lasts longer than a call
  /\ heard' = [heard EXCEPT ![n] = Following[@]]
  /\ Patch(n, Following[heard[n]])
  /\ unreported' = IF Following[heard[n]] = "FINISHED" THEN unreported \cup {n} ELSE unreported
  /\ UNCHANGED <<view, session, timers, rewards, purse>>

RaceResult(n) ==
  /\ session[n] \in {"open", "leaving"} /\ heard[n] = "FINISHED" /\ store.results.of # n
  /\ store' = [phase |-> "FINISHED", of |-> n, results |-> [of |-> n, earned |-> 0]]
  /\ UNCHANGED <<view, session, heard, timers, rewards, purse, unreported>>

Gone(n) ==
  /\ session[n] = "leaving"
  /\ session' = [session EXCEPT ![n] = "gone"]
  /\ UNCHANGED <<view, store, heard, timers, rewards, purse, unreported>>

-----------------------------------------------------------------------------
(* Rewards: the race's are paid when the API has the result; the view asks *)
(* for the profile a while after it has seen the finish, once.             *)
Report(n) ==
  /\ n \in unreported /\ unreported' = unreported \ {n}
  /\ purse' = [purse EXCEPT !.api = @ + Reward]
  /\ UNCHANGED <<view, store, session, heard, timers, rewards>>

\* What else the player has credits from, and spends them on: a sale, a settled bet, a
\* purchase, once (bound).  The page that shows it at once leaves a view nothing to count.
Trade(balance) ==
  /\ view.n # 0 /\ view.traded = 0 /\ view' = [view EXCEPT !.traded = view.n]
  /\ purse' = [purse EXCEPT !.api = balance]
  /\ UNCHANGED <<store, session, heard, timers, rewards, unreported>>

SeesFinish ==
  /\ view.kind = "online" /\ ~view.rewarded
  /\ store.phase = "FINISHED" \/ view.entered = "FINISHED"
  /\ view' = [view EXCEPT !.rewarded = TRUE]
  /\ rewards' = rewards \cup {[of |-> view.n, pre |-> view.pre]}
  /\ UNCHANGED <<store, session, heard, timers, purse, unreported>>

\* The difference of the whole balance since the view was entered counts as earned in the
\* race on show, if it is a gain.
ApplyRewards(w) ==
  /\ w \in rewards /\ rewards' = rewards \ {w}
  /\ purse' = [purse EXCEPT !.shown = purse.api]
  /\ store' = IF purse.api > w.pre /\ store.results.of # 0
              THEN [store EXCEPT !.results.earned = purse.api - w.pre] ELSE store
  /\ UNCHANGED <<view, session, heard, timers, unreported>>

RewardsFail(w) ==
  /\ w \in rewards /\ rewards' = rewards \ {w}
  /\ UNCHANGED <<view, store, session, heard, timers, purse, unreported>>

NextRaceView ==
  \/ MountSolo \/ MountOnline \/ Unmount \/ FinishSolo \/ SeesFinish
  \/ \E n \in Views : \/ CountdownOver(n) \/ Joined(n) \/ ConnectFails(n) \/ RacePhase(n)
                      \/ RaceResult(n) \/ Gone(n) \/ Report(n)
  \/ \E w \in rewards : ApplyRewards(w) \/ RewardsFail(w)
  \/ \E balance \in OtherCredits : Trade(balance)

-----------------------------------------------------------------------------
\* The HUD's overlay: the results, once there are any, while the phase is FINISHED.
ResultsShown == store.phase = "FINISHED" /\ store.results.of # 0

\* The HUD shows the race of the view on screen; only a session that was not over yet when
\* the view was entered, one being made or one whose room has a message on its way, may
\* write over it.
StoreIsOwn ==
  LET Own(n) == n = view.n \/ n \in view.behind
  IN view.kind # "none" => Own(store.of) /\ (ResultsShown => Own(store.results.of))

\* A session that no view shows is being left or gone, unless it is still being made: no
\* seat is held in a room for a player who went elsewhere.
NobodySits == \A n \in Views : session[n] = "open" => OnScreen(n)

\* What the results say was earned is what the race paid; but an earlier race's reward that
\* came in after the view was entered, or was never shown, is counted again, and so is all
\* that a sale, a bet or a purchase moved meanwhile (it may hide the reward, too).
EarnedIsReward ==
  /\ ResultsShown /\ store.results.of = view.n /\ view.settled /\ view.traded # view.n
  => store.results.earned \in {0, Reward}

RaceViewTypeOK ==
  /\ store.phase \in {"WAITING", "COUNTDOWN", "RACING", "FINISHED"} /\ store.of \in 0..view.last
  /\ timers \subseteq {view.n} /\ unreported \subseteq Views
  /\ \A n \in Views : n > view.last => session[n] = "none" /\ heard[n] = "WAITING"

\* The race on screen is the one that is shown, and its rewards are its own; what earlier
\* views left behind goes away without a trace but the ones named above.
RaceViewInv == RaceViewTypeOK /\ StoreIsOwn /\ NobodySits /\ EarnedIsReward
=============================================================================
