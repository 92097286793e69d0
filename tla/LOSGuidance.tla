---------------------------- MODULE LOSGuidance ----------------------------
(***************************************************************************)
(* The mission progress of brov_base/guidance.py: which waypoint is next,  *)
(* and what becomes of progress at a sample.  Geometry is abstracted to    *)
(* where the vehicle is, seen from the next waypoint: "near" is within     *)
(* reach_threshold, "tight" within 5 cm of it as well, "passed" beyond it  *)
(* along the leg.  Velocities and attitudes, the quaternions of random     *)
(* attitudes included, are left out.  Times are in ticks and saturate.     *)
(***************************************************************************)
EXTENDS Naturals

CONSTANTS
  NumWp,        \* waypoints
  DwellTime, MaxDuration, MaxLaps    \* RandomAttitudeConfig

ASSUME LOSGuidanceAssumption ==
  /\ NumWp \in Nat \ {0, 1}
  /\ {DwellTime, MaxDuration, MaxLaps} \subseteq Nat \ {0}
  /\ DwellTime < MaxDuration

Headings == {"align", "upright", "straight", "takeoff_then_align", "random_at_waypoint"}
Places == {"away", "near", "tight", "passed"}

Progress == [wp_idx : 0 .. NumWp - 1, complete : BOOLEAN, dwell : 0 .. DwellTime,
             elapsed : 0 .. MaxDuration, laps : 0 .. MaxLaps, event : 0 .. NumWp * MaxLaps]

\* __init__ and reset
NewProgress == [wp_idx |-> 0, complete |-> FALSE, dwell |-> 0, elapsed |-> 0, laps |-> 0,
                event |-> 0]

Upto(limit, n) == IF n > limit THEN limit ELSE n

IsRandom(config) == config.heading = "random_at_waypoint"
Takeoff(config) == config.heading = "takeoff_then_align"

\* The takeoff waypoint is visited once.
NextIndex(config, i) ==
  IF Takeoff(config) /\ i = NumWp - 1 THEN 1 ELSE (i + 1) % NumWp

LastSegment(p) == p.wp_idx = NumWp - 2

PositionReached(config, p, place) ==
  place \in IF Takeoff(config) /\ p.wp_idx = 0 THEN {"tight", "passed"}
            ELSE {"near", "tight", "passed"}

-----------------------------------------------------------------------------
(* compute, with advance_waypoint, its default, which guidance_node uses.  *)

\* The duration of the mission, before anything else.
Elapsed(config, p, dt) ==
  IF ~IsRandom(config) THEN p
  ELSE LET elapsed == Upto(MaxDuration, p.elapsed + dt)
       IN [p EXCEPT !.elapsed = elapsed, !.complete = @ \/ elapsed = MaxDuration]

\* A random attitude is held at the waypoint: settled is attitude and rate in
\* tolerance.
Dwelling(config, p, place, settled, dt) ==
  IF ~IsRandom(config) THEN p
  ELSE [p EXCEPT !.dwell = IF PositionReached(config, p, place) /\ settled
                           THEN Upto(DwellTime, @ + dt) ELSE 0]

\* Mutant: a complete mission goes on to reach waypoints.
ReachedAlways(config, p, place) ==
  PositionReached(config, p, place) /\ (IsRandom(config) => p.dwell = DwellTime)

Reached(config, p, place) ==
  /\ PositionReached(config, p, place)
  /\ IsRandom(config) => p.dwell = DwellTime /\ ~p.complete

Advanced(config, p) ==
  IF config.loop
  THEN LET laps == IF IsRandom(config) /\ p.wp_idx = NumWp - 1 THEN p.laps + 1 ELSE p.laps
       IN [p EXCEPT !.wp_idx = NextIndex(config, @), !.laps = laps,
                    !.complete = @ \/ laps = MaxLaps]
  ELSE IF LastSegment(p) THEN [p EXCEPT !.complete = TRUE]
  ELSE [p EXCEPT !.wp_idx = @ + 1]

\* Mutant: the last arrival brings one, too.
ArrivedAlways(config, before, p) ==
  IF IsRandom(config) /\ (p.wp_idx # before.wp_idx \/ (p.complete /\ ~before.complete))
  THEN [p EXCEPT !.event = @ + 1, !.dwell = 0] ELSE p

\* A new random attitude per arrival, but none for the last; the dwell starts over.
Arrived(config, before, p) ==
  IF IsRandom(config) /\ (p.wp_idx # before.wp_idx \/ (p.complete /\ ~before.complete))
  THEN [p EXCEPT !.event = IF p.complete THEN @ ELSE @ + 1, !.dwell = 0]
  ELSE p

Compute(config, p, place, settled, dt) ==
  LET timed == Elapsed(config, p, dt)
      held == Dwelling(config, timed, place, settled, dt)
      moved == IF Reached(config, held, place) THEN Advanced(config, held) ELSE held
  IN Arrived(config, timed, moved)
=============================================================================
