------------------------------- MODULE Driving ------------------------------
(***************************************************************************)
(* What a tick of the authoritative simulation counts for one car: its     *)
(* progress along the track (updateProgress, packages/shared/src/sim/      *)
(* track.ts), and its drift chain, score and nitro (stepCarResolved,       *)
(* bankDrift, dropDrift), as RaceRoom.simTick calls them.  Where the car   *)
(* gets to and how far it slips is open; arc lengths and points are        *)
(* integers, and time is counted in ticks.                                 *)
(***************************************************************************)
EXTENDS Integers

CONSTANTS
  L,            \* length of the track
  Gates,        \* def.checkpointCount: the gates are at L * k \div Gates
  Laps,
  Grid,         \* arc positions of grid slots
  MaxJumps,     \* bound on the jumps of the closest point
  MaxDs,        \* MAX_DS_PER_TICK: 15 m in the code
  Bottles,      \* NITRO.bottles
  PerBottle,    \* NITRO.chargePerBottle
  BoostTicks,   \* NITRO.boostDurationMs
  GraceTicks,   \* DRIFT.chainBankGraceMs
  MaxSlide,     \* bound on the points of a tick of drifting
  MaxTicks      \* bound on the length of a race

ASSUME DrivingAssumption ==
  /\ {L, Gates, Laps, PerBottle, GraceTicks} \subseteq Nat \ {0}
  /\ {MaxDs, Bottles, BoostTicks, MaxSlide, MaxTicks, MaxJumps} \subseteq Nat
  /\ L % Gates = 0 /\ 2 * MaxDs < L /\ Grid \subseteq 0..L - 1

VARIABLES
  prog,         \* RaceProgress: gates crossed (lap and cpIdx), p, lastS, finished
  car,          \* bottles, nitro, charge, chain, score, grace, drifting
  ticks,
  odo,          \* ghost: meters driven along the track
  jumps,        \* ghost: how often the closest point of the centerline has jumped
  high,         \* ghost: the largest p so far
  slid, lost,   \* ghosts: points of all drifting, and of the chains that were lost
  boosts        \* ghost: bottles used

drivingVars == <<prog, car, ticks, odo, jumps, high, slid, lost, boosts>>

Lesser(a, b) == IF a < b THEN a ELSE b

InitDriving ==
  /\ \E s \in Grid : prog = [gate |-> 0, p |-> 0, lastS |-> s, finished |-> FALSE]
  /\ car = [bottles |-> Bottles, nitro |-> 0, charge |-> 0, chain |-> 0, score |-> 0,
            grace |-> 0, drifting |-> FALSE]
  /\ ticks = 0 /\ odo = 0 /\ jumps = 0 /\ high = 0 /\ slid = 0 /\ lost = 0 /\ boosts = 0

-----------------------------------------------------------------------------
(* Progress.                                                               *)

\* The shorter way around the track.
Around(ds) == CASE 2 * ds < -L -> ds + L [] 2 * ds > L -> ds - L [] OTHER -> ds

Clamped(ds) == CASE ds < -MaxDs -> -MaxDs [] ds > MaxDs -> MaxDs [] OTHER -> ds

\* Mutant of Target: the laps driven are left out.
TargetOfLap(g) == ((g % Gates) + 1) * (L \div Gates)

\* Where the next gate is, with g of them crossed: lap * L + checkpoints[cpIdx].
Target(g) == (g \div Gates) * L + ((g % Gates) + 1) * (L \div Gates)

\* The loop over the gates, from g on, for a car at p.
Crossed(p, g) ==
  LET loop[h \in 0..Laps * Gates] ==
        IF h < Laps * Gates /\ p >= Target(h) THEN loop[h + 1] ELSE h
  IN loop[g]

Progressed(s) ==
  LET p == prog.p + Clamped(Around(s - prog.lastS))
      g == Crossed(p, prog.gate)
  IN [gate |-> g, p |-> p, lastS |-> s, finished |-> g = Laps * Gates]

-----------------------------------------------------------------------------
(* Drift and nitro.                                                        *)

Filled(charge, bottles) == Lesser(charge \div PerBottle, Bottles - bottles)

\* bankDrift: the charge fills what bottles it can, and not more than the next one.
Banked(c) ==
  LET charge == c.charge + c.chain
      filled == Filled(charge, c.bottles)
      rest == charge - filled * PerBottle
      full == c.bottles + filled >= Bottles
  IN IF c.chain = 0
     THEN [c EXCEPT !.grace = 0, !.drifting = FALSE]
     ELSE [c EXCEPT !.score = @ + c.chain, !.bottles = @ + filled,
                    !.charge = IF full THEN Lesser(rest, PerBottle) ELSE rest,
                    !.chain = 0, !.grace = 0, !.drifting = FALSE]

Dropped(c) == [c EXCEPT !.chain = 0, !.grace = 0, !.drifting = FALSE]

CanBoost(c) == c.nitro = 0 /\ c.bottles > 0

Boosted(c, pressed) ==
  IF pressed /\ CanBoost(c)
  THEN [c EXCEPT !.bottles = @ - 1, !.nitro = BoostTicks]
  ELSE [c EXCEPT !.nitro = IF @ = 0 THEN 0 ELSE @ - 1]

\* A tick's slip: in the window, worth some points; beyond it; or below.
Slips == [kind : {"window"}, points : 1..MaxSlide] \cup [kind : {"spin", "grip"}, points : {0}]

Slid(c, slip) ==
  CASE slip.kind = "window" ->
         [c EXCEPT !.drifting = TRUE, !.grace = 0, !.chain = @ + slip.points]
    [] slip.kind = "spin" -> Dropped(c)
    [] OTHER ->
         IF c.drifting \/ c.chain > 0
         THEN IF c.grace + 1 >= GraceTicks THEN Banked(c) ELSE [c EXCEPT !.grace = @ + 1]
         ELSE c

\* collideWithWalls: a car that is pushed back loses its chain.
OffWall(c, wall) == IF wall THEN Dropped(c) ELSE c

\* trackQuery: the closest point of the centerline is d further along, or it jumps
\* to any other where the track comes near itself.
Closest(d) == {s \in 0..L - 1 : s = (prog.lastS + d) % L \/ jumps < MaxJumps}

-----------------------------------------------------------------------------
\* One car in simTick: it is stepped, held inside the walls, measured, and at the
\* line its chain is banked.  A finished car is not stepped.
Tick(d, s, slip, wall, pressed) ==
  LET boosted == Boosted(car, pressed)
      stepped == Slid(boosted, slip)
      held == OffWall(stepped, wall)
  IN
  /\ ~prog.finished
  /\ ticks < MaxTicks /\ ticks' = ticks + 1
  /\ prog' = Progressed(s)
  /\ car' = IF prog'.finished THEN Banked(held) ELSE held
  /\ odo' = odo + d
  /\ jumps' = IF s = (prog.lastS + d) % L THEN jumps ELSE jumps + 1
  /\ high' = IF prog'.p > high THEN prog'.p ELSE high
  /\ slid' = slid + slip.points
  /\ lost' = lost + (IF slip.kind = "spin" THEN car.chain ELSE 0)
                  + (IF wall THEN stepped.chain ELSE 0)
  /\ boosts' = boosts + (car.bottles - boosted.bottles)

DriveAndSlide(moves, slips) ==
  \E d \in moves, slip \in slips, wall, pressed \in BOOLEAN : \E s \in Closest(d) :
    Tick(d, s, slip, wall, pressed)

NextDriving == DriveAndSlide(-MaxDs..MaxDs, Slips)

SpecDriving == InitDriving /\ [][NextDriving]_drivingVars

-----------------------------------------------------------------------------
(* Properties.                                                             *)

\* Every variable has its type.
DrivingTypeOK ==
  /\ prog.gate \in 0..Laps * Gates /\ prog.p \in Int /\ prog.lastS \in 0..L - 1
  /\ prog.finished \in BOOLEAN
  /\ car.bottles \in 0..Bottles /\ car.nitro \in 0..BoostTicks
  /\ {car.charge, car.chain, car.score} \subseteq Nat
  /\ car.charge <= PerBottle /\ car.grace < GraceTicks /\ car.drifting \in BOOLEAN

\* "Per-tick progress is clamped so teleports never count": the progress is the
\* distance driven, across the line and back, but for two clamped ticks per jump of
\* the closest point.
ProgressIsDriven ==
  /\ prog.p - odo <= 2 * MaxDs * jumps /\ odo - prog.p <= 2 * MaxDs * jumps
  /\ prog.p <= MaxDs * ticks

\* "Checkpoints must be crossed in order": the gates that are crossed are those up to
\* the furthest progress, none twice, and the race is finished behind the last one.
GatesInOrder ==
  /\ prog.gate = Lesser((high * Gates) \div L, Laps * Gates)
  /\ prog.finished <=> high >= Laps * L

\* Drift points are in the chain, in the score or lost, each once; "a chain alive at
\* the line still counts".
PointsAddUp ==
  /\ car.score + car.chain + lost = slid
  /\ prog.finished => car.chain = 0

\* Boosts are earned: those used and those left are what the car started with and
\* what its score has paid.
BoostsAreEarned == (boosts + car.bottles - Bottles) * PerBottle <= car.score

\* A car gets no further than it drives and crosses every gate on the way; its points
\* count once, in the score and in the bottles they fill.
DrivingInv == DrivingTypeOK /\ ProgressIsDriven /\ GatesInOrder /\ PointsAddUp /\ BoostsAreEarned
=============================================================================
