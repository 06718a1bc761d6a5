------------------------------- MODULE Netcode ------------------------------
(***************************************************************************)
(* One player's car over the network.  The client predicts it by the       *)
(* shared simulation (PredictionBuffer, packages/shared/src/sim/           *)
(* netcode.ts) and ships its inputs (onlineSession.ts); the room queues    *)
(* them, simulates one per tick (RaceRoom.ts) and replicates the car with  *)
(* the number of the last input it has used.  Both directions are in       *)
(* order, and late.  Of the physics only this is kept: it is one function  *)
(* of state and input, and a pose is all that the prediction is compared   *)
(* by.  The other cars are drawn from a buffer of snapshots                *)
(* (SnapshotInterpolator).                                                 *)
(***************************************************************************)
EXTENDS Integers, SequencesExt

CONSTANTS
  CarStates,       \* states of the physics
  Drive(_, _),     \* stepCarResolved and collideWithWalls
  Pose(_),         \* x, z and yaw of a state
  Bank(_),         \* bankDrift
  Origin, Start,   \* createCarState(0, 0, 0); the car's slot on the grid
  Inputs, Neutral, \* what a player may press; NEUTRAL_INPUT
  MaxHistory,      \* MAX_HISTORY, 120
  MaxQueue,        \* MAX_QUEUE, 8
  MaxAhead,        \* how far a seq may be ahead of the last one used, 1000
  MaxFrames, MaxSimTicks, MaxInFlight,   \* bounds: inputs, ticks of the room, messages
  KeepFor,         \* a second of snapshots
  Delay,           \* INTERP_DELAY_MS
  MaxPushes, MaxGap   \* bounds: snapshots of another car, and the time between two

ASSUME NetcodeAssumption ==
  /\ Neutral \in Inputs
  /\ {Origin, Start} \subseteq CarStates
  /\ \A s \in CarStates : Bank(s) \in CarStates /\ \A input \in Inputs : Drive(s, input) \in CarStates
  /\ {MaxHistory, MaxQueue, MaxAhead, MaxFrames, MaxSimTicks, MaxInFlight, KeepFor, Delay,
      MaxPushes, MaxGap} \subseteq Nat
  /\ MaxQueue > 0 /\ Delay < KeepFor

VARIABLES
  predicted,   \* PredictionBuffer.state
  history,     \* its predicted frames: seq, input, after
  seqNo,       \* the last seq it has given out
  mayDrive,    \* the client's phase is RACING
  up, down,    \* messages to the room, and to the client
  sim,         \* the room's state of the car
  frames,      \* RacerCtx.queue
  lastAck, replayed,   \* lastAckSeq and replay
  phase, crossed,      \* the room's phase; the car has finished
  simTicks,
  pressed,     \* ghost: all inputs of the player
  base, heard, \* ghosts: the state predicted from, the snapshot heard last
  smooth,      \* ghost: no tick without an input, and no input dropped or forgotten
  buffer,      \* SnapshotInterpolator.buffer of another car: times of its snapshots
  pushes       \* ghost: the times of all of them

clientVars == <<predicted, history, seqNo, mayDrive, pressed, base, heard>>
serverVars == <<sim, frames, lastAck, replayed, phase, crossed, simTicks>>
onlineVars == <<clientVars, serverVars, up, down, smooth>>
remoteVars == <<buffer, pushes>>
netcodeVars == <<onlineVars, remoteVars>>

\* The client has joined: the room's whole state is on its way to it, before all else.
InitNetcode ==
  /\ predicted = Origin /\ base = Origin /\ heard = [car |-> Start, ack |-> -1]
  /\ history = <<>> /\ seqNo = 0 /\ pressed = <<>> /\ mayDrive = FALSE
  /\ up = <<>> /\ down = <<[kind |-> "state", car |-> Start, ack |-> 0]>>
  /\ sim = Start /\ frames = <<>> /\ lastAck = 0 /\ replayed = <<>>
  /\ phase = "COUNTDOWN" /\ crossed = FALSE /\ simTicks = 0 /\ smooth = TRUE
  /\ buffer = <<>> /\ pushes = <<>>

-----------------------------------------------------------------------------
(* The client.                                                             *)

\* The states a car goes through from s by a sequence of inputs.
Course(s, inputs) ==
  LET after[i \in 0..Len(inputs)] == IF i = 0 THEN s ELSE Drive(after[i - 1], inputs[i])
  IN after

InputsOf(h) == [i \in DOMAIN h |-> h[i].input]

\* PredictionBuffer.step, and input.frame is sent; the oldest frame is forgotten
\* when there are too many.
ClientTick(input) == LET after == Drive(predicted, input) IN
  /\ mayDrive
  /\ seqNo < MaxFrames /\ Len(up) < MaxInFlight
  /\ seqNo' = seqNo + 1 /\ pressed' = Append(pressed, input)
  /\ predicted' = after
  /\ LET h == Append(history, [seq |-> seqNo', input |-> input, after |-> after]) IN
     /\ history' = IF Len(h) > MaxHistory THEN Tail(h) ELSE h
     /\ smooth' = (smooth /\ Len(h) <= MaxHistory)
  /\ up' = Append(up, [seq |-> seqNo', input |-> input])
  /\ UNCHANGED <<mayDrive, base, heard, serverVars, down, remoteVars>>

\* history.filter: the frames of h that come after a seq.
Above(h, ack) ==
  LET kept[i \in 0..Len(h)] ==
        IF i = 0 THEN <<>> ELSE IF h[i].seq > ack THEN Append(kept[i - 1], h[i]) ELSE kept[i - 1]
  IN kept[Len(h)]

\* Mutant of Pending: the frame that is acknowledged is kept.
PendingAndAcked(ack) == Above(history, ack - 1)

\* "Drop everything the server has consumed."
Pending(ack) == Above(history, ack)

\* The prediction at the acknowledged input, if it is known, was near enough.
Held(car, ack) ==
  \E i \in DOMAIN history : history[i].seq = ack /\ Pose(history[i].after) = Pose(car)

\* reconcile: nothing, or the server's state and the pending inputs on top of it.
Reconcile(car, ack) == LET h == Pending(ack) IN
  IF Held(car, ack)
  THEN /\ history' = h /\ UNCHANGED predicted
       /\ base' = (CHOOSE f \in Range(history) : f.seq = ack).after
  ELSE LET course == Course(car, InputsOf(h)) IN
       /\ predicted' = course[Len(h)]
       /\ history' = [i \in DOMAIN h |-> [h[i] EXCEPT !.after = course[i]]]
       /\ base' = car

\* onStateChange, also when another car has changed; and race.phase.
ClientHears ==
  /\ down # <<>> /\ down' = Tail(down)
  /\ IF Head(down).kind = "state"
     THEN /\ Reconcile(Head(down).car, Head(down).ack)
          /\ heard' = [car |-> Head(down).car, ack |-> Head(down).ack]
          /\ UNCHANGED mayDrive
     ELSE /\ mayDrive' = (Head(down).phase = "RACING")
          /\ UNCHANGED <<predicted, history, base, heard>>
  /\ UNCHANGED <<seqNo, pressed, serverVars, smooth, up, remoteVars>>

-----------------------------------------------------------------------------
(* The room.                                                               *)
Tell(m) == Len(down) < MaxInFlight /\ down' = Append(down, m)

GoRacing ==
  /\ phase = "COUNTDOWN" /\ phase' = "RACING"
  /\ Tell([kind |-> "phase", phase |-> "RACING"])
  /\ UNCHANGED <<clientVars, sim, frames, lastAck, replayed, crossed, simTicks, smooth, up,
                 remoteVars>>

\* queue.sort: by seq.
Sorted(q) ==
  LET order == CHOOSE p \in Bijection(DOMAIN q, DOMAIN q) :
                 \A i, j \in DOMAIN q : i <= j => q[p[i]].seq <= q[p[j]].seq
  IN [i \in DOMAIN q |-> q[order[i]]]

\* "Drop oldest on burst."
Burst(f) == Sorted(Append(IF Len(frames) >= MaxQueue THEN Tail(frames) ELSE frames, f))

\* Not one that the room has used, nor one after the race.
IsValidFrame(f) == phase = "RACING" /\ f.seq > lastAck /\ f.seq < lastAck + MaxAhead

\* input.frame.
RoomHears == LET f == Head(up)  valid == IsValidFrame(f) IN
  /\ up # <<>> /\ up' = Tail(up)
  /\ frames' = IF valid THEN Burst(f) ELSE frames
  /\ smooth' = (smooth /\ valid /\ Len(frames) < MaxQueue)
  /\ UNCHANGED <<clientVars, sim, lastAck, replayed, phase, crossed, simTicks, down, remoteVars>>

\* The frames from the first one on that is not used yet.
Fresh ==
  SubSeq(frames, CHOOSE i \in 1..Len(frames) + 1 :
                   /\ i = Len(frames) + 1 \/ frames[i].seq > lastAck
                   /\ \A j \in 1..i - 1 : frames[j].seq <= lastAck, Len(frames))

\* The last input that is used once a tick is over.
Used == IF Fresh = <<>> THEN lastAck ELSE Head(Fresh).seq

\* simTick for this car: "exactly one input per tick; coast on neutral input when the
\* queue is dry".  A car that has finished uses up frames without acknowledging them.
RoomTick == LET f == Head(Fresh)  dry == Fresh = <<>> IN
  /\ phase = "RACING"
  /\ simTicks < MaxSimTicks /\ simTicks' = simTicks + 1
  /\ frames' = IF dry THEN <<>> ELSE Tail(Fresh)
  /\ IF crossed THEN UNCHANGED <<sim, lastAck, replayed, crossed, smooth>>
     ELSE /\ crossed' \in BOOLEAN
          /\ LET after == Drive(sim, IF dry THEN Neutral ELSE f.input) IN
             sim' = IF crossed' THEN Bank(after) ELSE after
          /\ lastAck' = Used
          /\ replayed' = IF dry THEN replayed ELSE Append(replayed, f)
          /\ smooth' = (smooth /\ ~dry)
  /\ UNCHANGED <<clientVars, phase, up, down, remoteVars>>

\* A patch of the room's state.
Replicate ==
  /\ Tell([kind |-> "state", car |-> sim, ack |-> lastAck])
  /\ UNCHANGED <<clientVars, serverVars, smooth, up, remoteVars>>

CloseRace ==
  /\ phase = "RACING" /\ phase' = "FINISHED"
  /\ Tell([kind |-> "phase", phase |-> "FINISHED"])
  /\ UNCHANGED <<clientVars, sim, frames, lastAck, replayed, crossed, simTicks, smooth, up,
                 remoteVars>>

-----------------------------------------------------------------------------
(* The other cars.                                                         *)

\* The oldest snapshots go, as long as two are left.
Trimmed(b) ==
  SubSeq(b, CHOOSE i \in DOMAIN b :
              /\ i = Len(b) \/ i = Len(b) - 1 \/ b[i] >= Last(b) - KeepFor
              /\ \A j \in 1..i - 1 : j < Len(b) - 1 /\ b[j] < Last(b) - KeepFor, Len(b))

Push(dt) == LET t == dt + IF pushes = <<>> THEN 0 ELSE Last(pushes) IN
  /\ Len(pushes) < MaxPushes
  /\ pushes' = Append(pushes, t)
  /\ buffer' = Trimmed(Append(buffer, t))
  /\ UNCHANGED onlineVars

\* sample: the snapshots that a pose is interpolated between; one at the ends.
Sample(b, t) ==
  IF Len(b) = 1 \/ t <= b[1] THEN {b[1]}
  ELSE LET between == {i \in 1..Len(b) - 1 : b[i] <= t /\ t <= b[i + 1]} IN
       IF between = {} THEN {Last(b)}
       ELSE LET i == CHOOSE k \in between : \A j \in between : k <= j IN
            IF t = b[i + 1] THEN {b[i + 1]} ELSE {b[i], b[i + 1]}

NextOnline ==
  \/ \E input \in Inputs : ClientTick(input)
  \/ ClientHears \/ GoRacing \/ RoomHears \/ RoomTick \/ Replicate \/ CloseRace

NextRemote == \E dt \in 1..MaxGap : Push(dt)

SpecNetcode == InitNetcode /\ [][NextOnline \/ NextRemote]_netcodeVars

-----------------------------------------------------------------------------
(* Properties.                                                             *)

\* Between two snapshots the client's car is where its pending inputs take a car that
\* looks like the last snapshot: prediction, rewinding and replaying lose no input and
\* use none twice, unless more are pending than the buffer keeps.  And when no tick was
\* dry and no input was dropped or forgotten, that car is the room's, also in what does not show.
PredictionHolds == heard.ack >= 0 =>
  /\ Pose(base) = Pose(heard.car)
  /\ seqNo - heard.ack <= MaxHistory =>
       predicted = Course(base, SubSeq(pressed, heard.ack + 1, seqNo))[seqNo - heard.ack]
  /\ smooth /\ ~crossed => base = heard.car

\* The room uses each input once and in order, whatever is dropped, and the last it
\* has used is the one it acknowledges.
InputsOnce ==
  /\ \A i, j \in DOMAIN replayed : i < j => replayed[i].seq < replayed[j].seq
  /\ \A i \in DOMAIN replayed : replayed[i].input = pressed[replayed[i].seq]
  /\ lastAck = IF replayed = <<>> THEN 0 ELSE Last(replayed).seq
  /\ Len(frames) <= MaxQueue
  /\ \A i \in DOMAIN down : down[i].kind = "state" => down[i].ack <= lastAck

\* Another car is drawn between the snapshots before and after the render time, as if
\* none had ever been forgotten, unless they came to a halt for nearly as long as they
\* are kept.
DrawnBetween ==
  pushes # <<>> /\ (\A i \in 2..Len(pushes) : pushes[i] - pushes[i - 1] <= KeepFor - Delay) =>
    \A t \in Last(pushes) - Delay..Last(pushes) :
      Sample(buffer, t) = Sample(pushes, t)

\* What the player sees of his car and of the others follows from what he has pressed
\* and the room has sent.
NetcodeInv == PredictionHolds /\ InputsOnce /\ DrawnBetween
=============================================================================
