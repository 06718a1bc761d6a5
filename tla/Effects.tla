------------------------------- MODULE Effects -------------------------------
(***************************************************************************)
(* What a race alone looks and sounds like (apps/web/src: PlayerCar,       *)
(* vfx/DriftSmoke, vfx/Skidmarks, vfx/SpeedOverlay, hooks/useEngineAudio). *)
(* Smoke and marks are pools that are written in place, frame by frame;    *)
(* the engine's sound belongs to the page, not to the car on screen.       *)
(* Time is in frames.                                                      *)
(***************************************************************************)
EXTENDS Integers, FiniteSets

CONSTANTS
  Quads,        \* MAX_QUADS: marks the road can show
  FadeFrames,   \* a mark fades out in this time
  Puffs,        \* MAX_PARTICLES
  SpawnFrames,  \* frames of drifting between two pairs of puffs
  Lives,        \* how long a puff may live
  MaxFrames     \* bound: frames of the behaviour

\* Sixty puffs; at sixty frames a second a pair of them every third frame, and none
\* lives for more than 84.
ASSUME EffectsAssumption ==
  /\ {Quads, Puffs, SpawnFrames} \subseteq Nat \ {0} /\ Puffs % 2 = 0
  /\ FadeFrames \in Nat /\ MaxFrames \in Nat
  /\ \A l \in Lives : l \in Nat \ {0} /\ l <= (Puffs \div 2) * SpawnFrames

VARIABLES
  car,          \* what the simulation says of the car, and the race's phase
  shown,        \* what the overlay is told: the last telemetry
  onScreen,     \* the car is on screen
  prop,         \* the prop smoke and marks were given when the car last rendered
  smoke,        \* the pool of puffs, its cursor and its timer
  marks,        \* the ring of quads, its head and the last frame's activity
  sound,        \* the shared audio nodes, and whether this car holds them
  flash,        \* the overlay's nitro flash
  frame         \* bound

effectVars == <<car, shown, onScreen, prop, smoke, marks, sound, flash, frame>>

Parked == [phase |-> "COUNTDOWN", drifting |-> FALSE, boosting |-> FALSE]
NoQuad == [laid |-> FALSE, age |-> 0, ends |-> {}]
NoSmoke == [timer |-> 0, cursor |-> 0, left |-> [i \in 0 .. Puffs - 1 |-> 0], cut |-> FALSE]
NoMarks == [head |-> 0, was |-> FALSE, lit |-> {}, ring |-> [i \in 0 .. Quads - 1 |-> NoQuad]]

InitEffects ==
  /\ car = Parked /\ shown = Parked /\ onScreen = FALSE /\ prop = FALSE
  /\ smoke = NoSmoke /\ marks = NoMarks
  /\ sound = [built |-> FALSE, held |-> FALSE, master |-> 0, engine |-> 0, screech |-> FALSE]
  /\ flash = [lit |-> FALSE, prev |-> FALSE]
  /\ frame = 0

MountCar ==
  /\ ~onScreen /\ frame < MaxFrames
  /\ onScreen' = TRUE /\ car' = Parked /\ shown' = Parked
  /\ prop' = FALSE /\ smoke' = NoSmoke /\ marks' = NoMarks
  /\ sound' = [sound EXCEPT !.held = FALSE]
  /\ flash' = [lit |-> FALSE, prev |-> FALSE]
  /\ UNCHANGED frame

\* Mutant of UnmountCar: the engine is left running.
UnmountLoud ==
  /\ onScreen /\ onScreen' = FALSE
  /\ UNCHANGED <<car, shown, prop, smoke, marks, sound, flash, frame>>

\* The page is left: whatever holds the nodes turns them down.
UnmountCar ==
  /\ onScreen /\ onScreen' = FALSE
  /\ sound' = IF sound.held THEN [sound EXCEPT !.master = 0] ELSE sound
  /\ UNCHANGED <<car, shown, prop, smoke, marks, flash, frame>>

GreenLight ==
  /\ onScreen /\ car.phase = "COUNTDOWN"
  /\ car' = [car EXCEPT !.phase = "RACING"] /\ shown' = [shown EXCEPT !.phase = "RACING"]
  /\ UNCHANGED <<onScreen, prop, smoke, marks, sound, flash, frame>>

\* The session's profile changes, and the car is rendered again.
Render ==
  /\ onScreen /\ prop' = car.drifting
  /\ UNCHANGED <<car, shown, onScreen, smoke, marks, sound, flash, frame>>

\* DriftSmoke: two puffs from the cursor on, whoever is there; then all age.
Puffed(lives) ==
  LET due == prop /\ smoke.timer + 1 >= SpawnFrames
      slots == {(smoke.cursor + i) % Puffs : i \in {0, 1}}
      left == [i \in DOMAIN smoke.left |->
                 IF due /\ i \in slots THEN lives ELSE smoke.left[i]]
  IN [timer |-> IF due THEN 0
                ELSE IF smoke.timer < SpawnFrames THEN smoke.timer + 1 ELSE smoke.timer,
      cursor |-> IF due THEN (smoke.cursor + 2) % Puffs ELSE smoke.cursor,
      left |-> [i \in DOMAIN left |-> IF left[i] = 0 THEN 0 ELSE left[i] - 1],
      cut |-> smoke.cut \/ (due /\ \E i \in slots : smoke.left[i] > 0)]

\* Skidmarks: a quad from the last frame's edge to this one's, then all age.
Marked(moved) ==
  LET laid == prop /\ marks.was /\ moved
      quad == marks.head % Quads
      ring == IF laid
                THEN [marks.ring EXCEPT ![quad] =
                        [laid |-> TRUE, age |-> 0, ends |-> {frame - 1, frame}]]
                ELSE marks.ring
  IN [head |-> IF laid THEN (marks.head + 1) % Quads ELSE marks.head,
      was |-> prop,
      lit |-> IF prop THEN marks.lit \cup {frame} ELSE marks.lit,
      ring |-> [i \in DOMAIN ring |->
                  IF ring[i].age < FadeFrames THEN [ring[i] EXCEPT !.age = @ + 1] ELSE ring[i]]]

\* useEngineAudio.update: the nodes are made once, for as long as the page lives.
Sounding(c) ==
  LET racing == car.phase = "RACING" /\ c.phase = "RACING"
  IN [built |-> TRUE, held |-> TRUE,
      master |-> IF sound.built THEN sound.master ELSE 12,
      engine |-> IF racing THEN 6 ELSE 0,
      screech |-> c.drifting /\ racing]

\* The simulation of this frame; a car that finishes banks its drift.
Drives(c) ==
  IF car.phase = "RACING"
    THEN \/ c.phase = "RACING"
         \/ c.phase = "FINISHED" /\ ~c.drifting
    ELSE c = car

\* One frame: the effects, then the car, its sound and perhaps its telemetry.
Frame ==
  /\ onScreen /\ frame < MaxFrames /\ frame' = frame + 1
  /\ \E d, b, moved, told \in BOOLEAN, p \in {car.phase, "FINISHED"}, lives \in Lives :
       LET c == [phase |-> p, drifting |-> d, boosting |-> b]
       IN /\ Drives(c) /\ car' = c
          /\ smoke' = Puffed(lives) /\ marks' = Marked(moved)
          /\ sound' = Sounding(c)
          /\ shown' = IF told /\ p # "FINISHED" THEN c ELSE [shown EXCEPT !.phase = p]
  /\ UNCHANGED <<onScreen, prop, flash>>

\* SpeedOverlay's own loop: the flash of the last turn goes, a boost that has
\* begun since flashes.
Tick ==
  /\ onScreen
  /\ flash' = IF shown.phase = "RACING"
                THEN [lit |-> shown.boosting /\ ~flash.prev, prev |-> shown.boosting]
                ELSE [lit |-> FALSE, prev |-> flash.prev]
  /\ UNCHANGED <<car, shown, onScreen, prop, smoke, marks, sound, frame>>

NextEffects == MountCar \/ UnmountCar \/ GreenLight \/ Render \/ Frame \/ Tick

-----------------------------------------------------------------------------
Audible(level) == sound.master > 0 /\ level

\* Nothing of a race is heard once it has left the screen, and no tyre screeches
\* but in a race, in a drift (useEngineAudio.ts:124-130: the nodes outlive the car).
SilentOffTrack ==
  /\ ~onScreen => ~Audible(sound.engine > 0 \/ sound.screech)
  /\ Audible(sound.screech) => car.drifting /\ car.phase = "RACING"

\* A mark lies within one drift: both its ends are frames in which the effect was
\* on (Skidmarks.tsx:56: wasActive), so no mark joins two drifts.
MarksJoinNothing == \A i \in DOMAIN marks.ring : marks.ring[i].ends \subseteq marks.lit

\* The pool is large enough at this frame rate: no puff is moved to the car while
\* it can still be seen (DriftSmoke.tsx:96).
PuffsLiveOut == ~smoke.cut

\* What a drift and a boost leave behind them is their own: sound, marks and smoke.
EffectsInv == SilentOffTrack /\ MarksJoinNothing /\ PuffsLiveOut

=============================================================================
