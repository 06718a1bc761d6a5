------------------------------ MODULE RaceInput ------------------------------
(***************************************************************************)
(* What drives the car (apps/web/src: game/useInput, TouchControls): one   *)
(* snapshot of the controls for the whole page, written by the keyboard    *)
(* hook of the car on screen and by the touch overlay, both in place.  The *)
(* hook knows the keys it has heard go down; the overlay comes and goes    *)
(* with the kind of pointer, whatever the car does; the snapshot outlives  *)
(* both.                                                                   *)
(***************************************************************************)
EXTENDS Integers, FiniteSets

CONSTANTS
  Pedals,       \* throttle, brake, handbrake, nitro
  KeyFor        \* the keys that work each pedal

Left == {"KeyA", "ArrowLeft"}
Right == {"KeyD", "ArrowRight"}
Keys == Left \cup Right \cup UNION {KeyFor[p] : p \in Pedals}

VARIABLES
  input,        \* sharedInput: the pedals that are on, and the steering
  keys,         \* what the hook has heard go down and not up
  held,         \* keys the player holds
  fingers,      \* pedals with a finger on them, and the joystick if one has it
  mounted,      \* the car is on screen
  overlay,      \* the touch overlay: shown, and whether its joystick is jammed, still
                \*   waiting for a finger that was on it as it was hidden
  adrift        \* ghost: controls on, or turned, as the car or the overlay left the screen

inputVars == <<input, keys, held, fingers, mounted, overlay, adrift>>

Neutral == [on |-> {}, steer |-> 0]
NoOverlay == [shown |-> FALSE, jammed |-> FALSE]

InitInput ==
  /\ input = Neutral /\ keys = {} /\ held = {} /\ fingers = {}
  /\ mounted = FALSE /\ overlay = NoOverlay /\ adrift = Neutral

\* update: the keyboard writes every control, whatever touch has written.
FromKeys(k) ==
  [on |-> {p \in Pedals : KeyFor[p] \cap k # {}},
   steer |-> (IF Left \cap k # {} THEN 1 ELSE 0) - (IF Right \cap k # {} THEN 1 ELSE 0)]

Heard(k) ==
  IF mounted THEN keys' = k /\ input' = FromKeys(k) /\ adrift' = Neutral
             ELSE UNCHANGED <<keys, input, adrift>>

\* A key that is held repeats.
KeyDown(k) ==
  /\ held' = held \cup {k}
  /\ Heard(keys \cup {k})
  /\ UNCHANGED <<fingers, mounted, overlay>>

KeyUp(k) ==
  /\ k \in held /\ held' = held \ {k}
  /\ Heard(keys \ {k})
  /\ UNCHANGED <<fingers, mounted, overlay>>

\* The window loses the focus: no key is heard to go up.
Blur ==
  /\ held # {} /\ held' = {}
  /\ UNCHANGED <<input, keys, fingers, mounted, overlay, adrift>>

PedalDown(p) ==
  /\ overlay.shown /\ p \notin fingers /\ fingers' = fingers \cup {p}
  /\ input' = [input EXCEPT !.on = @ \cup {p}]
  /\ UNCHANGED <<keys, held, mounted, overlay, adrift>>

PedalUp(p) ==
  /\ p \in fingers /\ fingers' = fingers \ {p}
  /\ input' = [input EXCEPT !.on = @ \ {p}]
  /\ adrift' = [adrift EXCEPT !.on = @ \ {p}]
  /\ UNCHANGED <<keys, held, mounted, overlay>>

Stick == "stick"

ASSUME RaceInputAssumption == Stick \notin Pedals

\* onJoystickStart and onJoystickMove: the finger that took the joystick steers; while it
\* has not heard one go up, it takes no other.
Steer(d) ==
  /\ overlay.shown /\ ~overlay.jammed /\ fingers' = fingers \cup {Stick}
  /\ input' = [input EXCEPT !.steer = d]
  /\ adrift' = [adrift EXCEPT !.steer = 0]
  /\ UNCHANGED <<keys, held, mounted, overlay>>

\* Mutant of LetGo: the wheel stays where it was.
LetGoTurned == fingers' = fingers \ {Stick} /\ UNCHANGED <<input, adrift>>

LetGo ==
  /\ fingers' = fingers \ {Stick}
  /\ input' = [input EXCEPT !.steer = 0]
  /\ adrift' = [adrift EXCEPT !.steer = 0]

JoystickEnd == Stick \in fingers /\ LetGo /\ UNCHANGED <<keys, held, mounted, overlay>>

\* The car has been loaded.
Mount ==
  /\ ~mounted /\ mounted' = TRUE /\ keys' = {}
  /\ UNCHANGED <<input, held, fingers, overlay, adrift>>

\* The pointer is a finger, or is one no more: then no finger on the overlay is heard to
\* go up.
ShowOverlay ==
  /\ ~overlay.shown /\ overlay' = [overlay EXCEPT !.shown = TRUE]
  /\ UNCHANGED <<input, keys, held, fingers, mounted, adrift>>

HideOverlay ==
  /\ overlay.shown /\ fingers' = {}
  /\ overlay' = [shown |-> FALSE, jammed |-> overlay.jammed \/ Stick \in fingers]
  /\ adrift' = [on |-> adrift.on \cup (fingers \cap input.on),
                steer |-> IF Stick \in fingers THEN input.steer ELSE adrift.steer]
  /\ UNCHANGED <<input, keys, held, mounted>>

\* The page is left.  Nothing is let go: what was on stays on.
Unmounted ==
  /\ mounted \/ overlay # NoOverlay
  /\ mounted' = FALSE /\ overlay' = NoOverlay
  /\ fingers' = {} /\ keys' = {} /\ adrift' = input
  /\ UNCHANGED <<input, held>>

NextInput ==
  \/ \E k \in Keys : KeyDown(k) \/ KeyUp(k)
  \/ Blur \/ JoystickEnd \/ Mount \/ ShowOverlay \/ HideOverlay \/ Unmounted
  \/ \E p \in Pedals : PedalDown(p) \/ PedalUp(p)
  \/ \E d \in -1..1 : Steer(d)

-----------------------------------------------------------------------------
\* The car does nothing by itself: a pedal that is on has a key down that was heard, a
\* finger on it, or was on as another car or the overlay left the screen; the wheel
\* likewise.
CarObeys ==
  /\ \A p \in input.on : KeyFor[p] \cap keys # {} \/ p \in fingers \/ p \in adrift.on
  /\ input.steer # 0 => (Left \cup Right) \cap keys # {} \/ Stick \in fingers \/ adrift.steer = input.steer

InputTypeOK ==
  /\ input.on \subseteq Pedals /\ input.steer \in -1..1
  /\ fingers \subseteq Pedals \cup {Stick} /\ (fingers # {} => overlay.shown)

\* No pedal or wheel acts without a key or a finger, but for what the last car, or the
\* overlay, left on.
InputInv == InputTypeOK /\ CarObeys
=============================================================================
