---------------------------- MODULE Diagnostics ----------------------------
(***************************************************************************)
(* diag_terminal_velocity.py and diag_thruster_map.py: scripts that open   *)
(* the MAVLink link by themselves, arm, drive the thrusters and put all    *)
(* back, whatever raises on the way.                                       *)
(*                                                                         *)
(* A step is a stage of main.  Any stage may raise, a keyboard interrupt   *)
(* included, before or after its effect; once only, and sends do not       *)
(* raise.  enable_passthrough and its way back are in module Passthrough.  *)
(***************************************************************************)
EXTENDS Naturals

CONSTANT Bursts     \* bound: levels, or channels

ASSUME BurstsAssumption == Bursts \in Nat \ {0}

VARIABLES
  script,   \* which script, its stage, bursts done, armed_by_script, --arm
  vehicle,  \* armed, RC override, parameters borrowed
  trail     \* history: thrust was commanded; raised; records written

script_vars == <<script, vehicle, trail>>

NoScript == [kind |-> "none", stage |-> "exited", bursts |-> 0, arm |-> FALSE, armed |-> FALSE]

ScriptInit(kinds) ==
  /\ \/ script = NoScript /\ "none" \in kinds
     \/ \E kind \in kinds \cap {"velocity", "map"}, arm \in BOOLEAN :
          /\ kind = "velocity" => arm
          /\ script = [kind |-> kind, stage |-> "gate", bursts |-> 0, arm |-> arm,
                       armed |-> FALSE]
  /\ vehicle = [armed |-> FALSE, rc |-> "native", borrowed |-> FALSE]
  /\ trail = [thrust |-> FALSE, raised |-> FALSE, saved |-> FALSE]

-----------------------------------------------------------------------------
\* Mutant: what is armed before the try block of main is not disarmed, and the
\* block starts with the first level.
HandlerInLoop(s) ==
  IF s.stage \in {"level", "turn"} \/ (s.kind = "map" /\ s.stage # "gate")
  THEN "neutral" ELSE "close"

\* The stage a raise leads to: the finally block of main, or past it.  What is
\* left is close(), in both.
Handler(s) ==
  IF s.stage \in {"hold", "level", "turn"} \/ (s.kind = "map" /\ s.stage # "gate")
  THEN "neutral" ELSE "close"

Go(stage) == script' = [script EXCEPT !.stage = stage]

Raises == ~trail.raised /\ trail' = [trail EXCEPT !.raised = TRUE] /\ Go(Handler(script))

\* _wait_control and the checks of mode and of the vehicle's identity.
Gate ==
  /\ script.stage = "gate"
  /\ \/ Go("borrow") \/ Go("close")
  /\ UNCHANGED <<vehicle, trail>>

\* enable_passthrough, which undoes what it has done when it raises.
Borrow ==
  /\ script.stage = "borrow"
  /\ vehicle' = [vehicle EXCEPT !.borrowed = TRUE]
  /\ \/ Go(IF script.arm THEN "arm" ELSE "level") /\ UNCHANGED trail
     \/ Raises

\* arm() confirms, or does not, and then the vehicle may be armed all the same.
\* The terminal velocity script does not look at the answer.
Arm ==
  /\ script.stage = "arm"
  /\ \/ /\ vehicle' = [vehicle EXCEPT !.armed = TRUE]
        /\ script' = [script EXCEPT !.armed = TRUE,
                                    !.stage = IF script.kind = "map" THEN "level" ELSE "pose"]
        /\ UNCHANGED trail
     \/ /\ vehicle' \in {vehicle, [vehicle EXCEPT !.armed = TRUE]}
        /\ \/ script.kind = "map" /\ Go(Handler(script)) /\ UNCHANGED trail
           \/ script.kind = "velocity" /\ Go("pose") /\ UNCHANGED trail
           \/ Raises

\* The first pose, of which the yaw of the first run is taken.
FirstPose ==
  /\ script.stage = "pose"
  /\ \/ Go("hold") /\ UNCHANGED <<vehicle, trail>>
     \/ /\ Go("close") /\ UNCHANGED trail
        /\ vehicle' = [vehicle EXCEPT !.rc = "neutral"]

Thrust ==
  /\ vehicle' = [vehicle EXCEPT !.rc = "thrust"]
  /\ trail' = [trail EXCEPT !.thrust = TRUE]
Neutral == vehicle' = [vehicle EXCEPT !.rc = "neutral"] /\ UNCHANGED trail

\* Thrust: of a hold, a level, a turn, of a pulse of _output_test or _direction_test.
Drive ==
  /\ script.stage \in {"hold", "level", "turn"} /\ vehicle.rc # "thrust"
  /\ Thrust /\ UNCHANGED script

Pauses(stage) == script.stage = stage /\ vehicle.rc = "thrust" /\ Neutral

\* _hold_neutral
HoldEnds == Pauses("hold") /\ Go("level")

\* _run_level, which also ends the levels when it has no telemetry; the pulses of a
\* channel.
LevelEnds ==
  /\ Pauses("level")
  /\ \/ script' = [script EXCEPT !.bursts = @ + 1,
                                  !.stage = IF script.bursts + 1 = Bursts THEN "neutral"
                                            ELSE IF script.kind = "velocity" THEN "turn"
                                            ELSE "level"]
     \/ Go("neutral")

\* _turnaround
TurnEnds == Pauses("turn") /\ Go("hold")

\* A wait of no length.
HoldSkipped ==
  /\ script.stage = "hold" /\ vehicle.rc # "thrust"
  /\ Go("level") /\ UNCHANGED <<vehicle, trail>>

Interrupted ==
  /\ script.stage \in {"gate", "borrow", "arm", "pose", "hold", "level", "turn"}
  /\ Raises /\ UNCHANGED vehicle

\* The finally block of main.
Cleanup ==
  \/ script.stage = "neutral" /\ Go("disarm") /\ Neutral
  \/ /\ script.stage = "disarm" /\ Go("save") /\ UNCHANGED trail
     /\ vehicle' = [vehicle EXCEPT !.armed = @ /\ ~(script.kind = "velocity" \/ script.armed)]
  \/ /\ script.stage = "save" /\ Go("close") /\ UNCHANGED vehicle
     /\ trail' = [trail EXCEPT !.saved = script.kind = "velocity"]

\* close(): a neutral command and the release of the channels, which the thruster
\* map leaves out for a vehicle it has refused, then the parameters.
Close ==
  /\ script.stage = "close" /\ Go("exited") /\ UNCHANGED trail
  /\ vehicle' = [vehicle EXCEPT !.rc = IF script.kind = "velocity" \/ @ # "native" THEN "released"
                                       ELSE @,
                                !.borrowed = FALSE]

ScriptNext ==
  \/ Gate \/ Borrow \/ Arm \/ FirstPose
  \/ HoldSkipped \/ Drive \/ HoldEnds \/ LevelEnds \/ TurnEnds \/ Interrupted
  \/ Cleanup \/ Close

ScriptSpec(kinds) == ScriptInit(kinds) /\ [][ScriptNext]_script_vars

-----------------------------------------------------------------------------
\* A script that has driven the thrusters exits with the vehicle disarmed, the
\* channels released, the parameters given back and the record written, whatever
\* raised and where.  (A DISARM that is lost is not noticed: see README.)
ScriptEndsSafe ==
  script.stage = "exited" /\ trail.thrust =>
    /\ ~vehicle.armed /\ vehicle.rc = "released" /\ ~vehicle.borrowed
    /\ script.kind = "velocity" => trail.saved
=============================================================================
