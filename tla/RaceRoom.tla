------------------------------ MODULE RaceRoom ------------------------------
(***************************************************************************)
(* The rooms of one match: RaceRoom (apps/realtime/src/rooms), with what   *)
(* Colyseus does for it: joinOrCreate reserves a seat in an unlocked room  *)
(* of the match, or in a new one, and a room nobody is in is disposed.     *)
(* Every handler is one step, as in the single-threaded room.  How cars    *)
(* drive is left open: any of them may finish at any tick.                 *)
(***************************************************************************)
EXTENDS Collections, FiniteSets, SequencesExt, Verifier

CONSTANTS
  Drivers,      \* who hold a ticket of the match
  Bots,         \* sequence of the AI drivers the tickets ask for
  Rooms,        \* instances that may come to be
  MaxRacers,    \* 8 in the code
  Straggler,    \* STRAGGLER_WINDOW_MS, in steps of the race clock
  MaxRaceTime,  \* MAX_RACE_TIME_MS
  Scores        \* bound: driver -> the drift points he may have at the end

\* Every bot has a key of its own, which is no session's.
ASSUME RaceRoomAssumption ==
  /\ Bots \in Seq(STRING) /\ Drivers \cap Range(Bots) = {}
  /\ \A i, j \in DOMAIN Bots : Bots[i] = Bots[j] => i = j
  /\ 0 \notin Rooms
  /\ MaxRacers \in 1..MaxPlaces /\ Straggler \in Nat /\ MaxRaceTime \in Nat
  /\ Scores \in [Drivers -> SUBSET Nat]

VARIABLES
  seat,         \* driver -> the room where a seat is reserved for him, or Away
  place,        \* driver -> the room he is a client of, or Away
  room,         \* the rooms, see Fresh
  quitters      \* ghost: rooms somebody has left before the countdown

roomVars == <<seat, place, room, quitters>>

Away == 0

\* racers: the Map in insertion order, of [who, slot, ready, finish], finish = 0
\* until the line; first: firstFinishMs; report: the entries sent to the API.
Fresh == [phase |-> "none", racers |-> <<>>, clock |-> 0, first |-> 0, report |-> <<>>]

InitRaceRoom ==
  /\ seat = [d \in Drivers |-> Away] /\ place = [d \in Drivers |-> Away]
  /\ room = [r \in Rooms |-> Fresh]
  /\ quitters = {}

Racer(who, s, isReady) == [who |-> who, slot |-> s, ready |-> isReady, finish |-> 0]
In(cars, who) == \E i \in DOMAIN cars : cars[i].who = who
Finished(cars) == \A i \in DOMAIN cars : cars[i].finish > 0

-----------------------------------------------------------------------------
(* Joining.                                                                *)
JoinOrCreate(d, r) ==
  /\ seat[d] = Away /\ place[d] = Away
  /\ \/ room[r].phase = "WAITING" /\ UNCHANGED room
     \/ /\ \A q \in Rooms : room[q].phase # "WAITING"
        /\ room[r].phase = "none"
        /\ room' = [room EXCEPT ![r].phase = "WAITING"]
  /\ seat' = [seat EXCEPT ![d] = r]
  /\ UNCHANGED <<place, quitters>>

\* Others become spectators.
OnGrid(r) == Len(room[r].racers) < MaxRacers /\ room[r].phase = "WAITING"

OnJoin(d) == LET r == seat[d] IN
  /\ r # Away
  /\ seat' = [seat EXCEPT ![d] = Away] /\ place' = [place EXCEPT ![d] = r]
  /\ room' = IF OnGrid(r)
             THEN [room EXCEPT ![r].racers = Append(@, Racer(d, Len(@), FALSE))]
             ELSE room
  /\ UNCHANGED quitters

\* Without clients and reserved seats a room is disposed of.
Kept(r, change) ==
  IF \E d \in Drivers : place'[d] = r \/ seat'[d] = r THEN change
  ELSE [Fresh EXCEPT !.phase = "disposed"]

\* The seat is not taken in time.
SeatExpires(d) == LET r == seat[d] IN
  /\ r # Away
  /\ seat' = [seat EXCEPT ![d] = Away] /\ UNCHANGED place
  /\ room' = [room EXCEPT ![r] = Kept(r, @)]
  /\ UNCHANGED quitters

-----------------------------------------------------------------------------
(* The end of a race.                                                      *)

\* Mutant of TimedOut: there is no absolute cap.
TimedOutNever(t) == FALSE

TimedOut(t) == t > MaxRaceTime

Over(o) ==
  /\ o.phase = "RACING" /\ o.racers # <<>>
  /\ \/ Finished(o.racers)
     \/ o.first # 0 /\ o.clock > o.first + Straggler
     \/ TimedOut(o.clock)

\* What sortStandings may make of the racers: finishers by their time and then as
\* they joined, the others behind, in any order.
Standings(cars) ==
  {s \in SetToSeqs(DOMAIN cars) : \A i, j \in DOMAIN s : i < j =>
     LET a == cars[s[i]]  b == cars[s[j]] IN
     b.finish > 0 => /\ a.finish > 0 /\ a.finish <= b.finish
                     /\ a.finish = b.finish => s[i] < s[j]}

\* Mutant of Position: the bots are filtered out first.
PositionOfHumans(order, i) == Cardinality({j \in 1..i : order[j].who \in Drivers})

Position(order, i) == i

Entries(order) == Without(
  [i \in DOMAIN order |->
     [who |-> order[i].who, position |-> Position(order, i), finish |-> order[i].finish, drift |-> 0]],
  Range(Bots))

\* The points are what the car's sim has scored, at 29 a second and more while it drifts.
Scored(entries) ==
  {[i \in DOMAIN entries |-> [entries[i] EXCEPT !.drift = points[entries[i].who]]] :
   points \in {p \in [Drivers -> UNION Range(Scores)] : \A d \in Drivers : p[d] \in Scores[d]}}

\* maybeFinishRace, as the last thing a handler does.
MaybeFinish(o) ==
  IF ~Over(o) THEN {o}
  ELSE {[o EXCEPT !.phase = "FINISHED", !.report = report] : report \in
          UNION {Scored(Entries([i \in DOMAIN s |-> o.racers[s[i]]])) : s \in Standings(o.racers)}}

-----------------------------------------------------------------------------
(* From the lobby to the line.                                             *)

Startable(o) == o.phase = "WAITING" /\ o.racers # <<>>

AllReady(cars) == \A i \in DOMAIN cars : cars[i].ready

\* Mutant of BotSlot: bots are counted from the pole.
BotSlotFromPole(cars, i) == i - 1

BotSlot(cars, i) == Len(cars) + i - 1

SpawnBots(cars) ==
  LET free == MaxRacers - Len(cars)
      n == IF Len(Bots) < free THEN Len(Bots) ELSE free
  IN cars \o [i \in 1..n |-> Racer(Bots[i], BotSlot(cars, i), TRUE)]

\* race.ready, with maybeStartCountdown.
Ready(d) ==
  /\ place[d] # Away
  /\ LET r == place[d]
         cars == [i \in DOMAIN room[r].racers |->
           [room[r].racers[i] EXCEPT !.ready = @ \/ room[r].racers[i].who = d]]
     IN room' = [room EXCEPT ![r] =
          IF Startable([@ EXCEPT !.racers = cars]) /\ AllReady(cars)
          THEN [@ EXCEPT !.phase = "COUNTDOWN", !.racers = SpawnBots(cars)]
          ELSE [@ EXCEPT !.racers = cars]]
  /\ UNCHANGED <<seat, place, quitters>>

\* The timer: green light, and the betting pools are locked.
GreenLight(r) ==
  /\ room[r].phase = "COUNTDOWN"
  /\ room' = [room EXCEPT ![r].phase = "RACING"]
  /\ UNCHANGED <<seat, place, quitters>>

\* simTick: the cars in F cross the line for the last time.  The bound on the clock
\* keeps no race from going on: MaybeFinish has closed it by then.
Tick(r, F) ==
  /\ room[r].phase = "RACING" /\ room[r].racers # <<>>
  /\ room[r].clock <= MaxRaceTime
  /\ F \subseteq {i \in DOMAIN room[r].racers : room[r].racers[i].finish = 0}
  /\ LET now == room[r].clock + 1
         cars == [i \in DOMAIN room[r].racers |->
           [room[r].racers[i] EXCEPT !.finish = IF i \in F THEN now ELSE @]]
         stepped == [room[r] EXCEPT !.clock = now, !.racers = cars,
                                    !.first = IF @ = 0 /\ F # {} THEN now ELSE @]
     IN \E o \in MaybeFinish(stepped) : room' = [room EXCEPT ![r] = o]
  /\ UNCHANGED <<seat, place, quitters>>

SimTick(r) == \E F \in SUBSET DOMAIN room[r].racers : Tick(r, F)

OnLeave(d) == LET r == place[d] IN
  /\ r # Away
  /\ place' = [place EXCEPT ![d] = Away] /\ UNCHANGED seat
  /\ \E o \in MaybeFinish([room[r] EXCEPT !.racers = Without(@, {d})]) :
       room' = [room EXCEPT ![r] = Kept(r, o)]
  /\ quitters' = IF room[r].phase = "WAITING" THEN quitters \cup {r} ELSE quitters

\* The report is delivered or given up; half a minute later all are disconnected.
Disconnect(r) ==
  /\ room[r].phase = "FINISHED"
  /\ place' = [d \in Drivers |-> IF place[d] = r THEN Away ELSE place[d]]
  /\ seat' = [d \in Drivers |-> IF seat[d] = r THEN Away ELSE seat[d]]
  /\ room' = [room EXCEPT ![r] = Kept(r, @)]
  /\ UNCHANGED quitters

NextRaceRoom ==
  \/ \E d \in Drivers : OnJoin(d) \/ SeatExpires(d) \/ Ready(d) \/ OnLeave(d)
  \/ \E d \in Drivers, r \in Rooms : JoinOrCreate(d, r)
  \/ \E r \in Rooms : GreenLight(r) \/ SimTick(r) \/ Disconnect(r)

\* The room's own clock: the countdown's timer and the simulation interval.
FairRaceRoom == \A r \in Rooms : WF_roomVars(GreenLight(r)) /\ WF_roomVars(SimTick(r))

SpecRaceRoom == InitRaceRoom /\ [][NextRaceRoom]_roomVars /\ FairRaceRoom

-----------------------------------------------------------------------------
(* Properties.                                                             *)
Phases == <<"none", "WAITING", "COUNTDOWN", "RACING", "FINISHED", "disposed">>

\* Every variable has its type; who is on a grid is a client of the room, once.
RaceRoomTypeOK ==
  /\ \A d \in Drivers : seat[d] \in Rooms \cup {Away} /\ place[d] \in Rooms \cup {Away}
  /\ \A r \in Rooms : LET cars == room[r].racers IN
       /\ room[r].phase \in Range(Phases) /\ Len(cars) <= MaxRacers
       /\ \A i, j \in DOMAIN cars : cars[i].who = cars[j].who => i = j
       /\ \A i \in DOMAIN cars : cars[i].who \in Drivers => place[cars[i].who] = r

\* "No new racers mid-race": a room's phases never go back, and once the countdown
\* runs no car is added to the grid, whatever is joined, left and sent meanwhile.
GridIsClosed == [][\A r \in Rooms :
  /\ \E i, j \in DOMAIN Phases : i <= j /\ Phases[i] = room[r].phase /\ Phases[j] = room'[r].phase
  /\ room[r].phase \notin {"none", "WAITING"} =>
       \A i \in DOMAIN room'[r].racers : In(room[r].racers, room'[r].racers[i].who)]_roomVars

\* No two cars start from one grid slot, unless somebody has left the lobby: slots
\* are given by the number of cars, and his may be given again.
GridSlots == \A r \in Rooms \ quitters : \A i, j \in DOMAIN room[r].racers :
  room[r].racers[i].slot = room[r].racers[j].slot => i = j

\* A lobby whose cars are all ready does not wait, unless the last who was not has
\* left: onLeave does not look again.
ReadyLobbyStarts == \A r \in Rooms \ quitters :
  room[r].phase = "WAITING" /\ room[r].racers # <<>> =>
    \E i \in DOMAIN room[r].racers : ~room[r].racers[i].ready

\* "These checks catch any replay hash / score manipulation in transit": what a room
\* itself reports passes them, whoever joined, left and finished when, unless the
\* race, or a car's, was shorter than they allow, or a car has more drift points than
\* "even spamming perfect drifts" shall give: the sim gives more.
HonestReportPasses == \A r \in Rooms : LET entries == room[r].report  end == room[r].clock IN
  /\ entries # <<>> /\ end >= MinRace
  /\ \A i \in DOMAIN entries : /\ entries[i].finish # 0 => entries[i].finish >= MinRace
                              /\ entries[i].drift <= Ceiling * end
  => Verify(entries, end)

\* A lobby that nobody has left is in order, and starts; the API takes its report but for
\* the three limits named above.
RaceRoomInv == RaceRoomTypeOK /\ GridSlots /\ ReadyLobbyStarts /\ HonestReportPasses

\* "Positions are OVERALL (bots included)": the report has every human on the grid
\* once, behind every car that finished before him and before all that did not.
ReportIsFair == [][\A r \in Rooms : room'[r].phase = "FINISHED" /\ room[r].phase = "RACING" =>
  LET cars == room'[r].racers  entries == room'[r].report IN
  /\ Len(entries) = Cardinality({i \in DOMAIN cars : cars[i].who \in Drivers})
  /\ \A i \in DOMAIN entries : \E j \in DOMAIN cars :
       /\ cars[j].who = entries[i].who
       /\ LET ahead == {k \in DOMAIN cars :
                cars[k].finish > 0 /\ (cars[j].finish = 0 \/ cars[k].finish < cars[j].finish)}
          IN Cardinality(ahead) < entries[i].position
       /\ cars[j].finish > 0 => entries[i].position <=
            Cardinality({k \in DOMAIN cars : cars[k].finish > 0 /\ cars[k].finish <= cars[j].finish})
  ]_roomVars

\* The grid is closed at the green light and what becomes of it is reported.
RaceIsFair == GridIsClosed /\ ReportIsFair

\* "A wedged race must still close, report, and free the room": a race ends, even
\* when a car never finishes, unless its grid is left by all.
RaceEnds == \A r \in Rooms :
  room[r].phase \in {"COUNTDOWN", "RACING"} ~>
    room[r].phase \in {"FINISHED", "disposed"} \/ room[r].racers = <<>>

\* "Every client carrying the same matchmaking roomId lands in the SAME room
\* instance."
SameRoom == \A c, d \in Drivers : place[c] # Away /\ place[d] # Away => place[c] = place[d]
=============================================================================
