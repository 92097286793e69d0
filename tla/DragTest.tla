------------------------------ MODULE DragTest ------------------------------
(***************************************************************************)
(* drag_test_node.py: a drag measurement run by itself, as the only source *)
(* of thruster_pwm in front of obs_node.                                   *)
(*                                                                         *)
(* The node has four executor threads and one reentrant callback group:    *)
(* its 40 ms tick, its services and its subscriptions overlap.  A step of  *)
(* this module runs from one service call (_call) of a thread to its next; *)
(* a call may be served, refused, or served and its answer lost.  Ticks    *)
(* are a period apart: one reaches its service calls before the next.      *)
(*                                                                         *)
(* PREPARE and START come from one terminal, which waits for the answer,   *)
(* and while nothing is being ended; STOP comes from another at any time.  *)
(***************************************************************************)
EXTENDS Integers, Sequences, TLC

CONSTANTS
  Levels,      \* number of thrust levels
  PhaseTicks,  \* bound: every time limit of a phase, in ticks
  Watchdog     \* silent ticks after which obs_node trips, after the first PWM

ASSUME DragTestAssumption ==
  /\ Levels \in Nat \ {0}
  /\ PhaseTicks \in Nat \ {0}
  /\ Watchdog \in Nat \ {0}

VARIABLES
  mode,      \* parameters: use_pool_alignment, single_level_per_start, initial_ascent_m > 0
  test,      \* the fields of the node
  terminal,  \* the call its PREPARE or START waits for
  ender,     \* the calls that STOP and the tick wait for in _finish
  results,   \* _results: the level of each
  file,      \* the results last saved
  base,      \* obs_node: armed, control active, PWM still awaited, silent ticks
  history    \* what the properties remember

vars == <<mode, test, terminal, ender, results, file, base, history>>

Enders == {"stop", "tick"}
\* States and phases in which the tick works.
Live == {"ARMED", "RUNNING"}
Starting == {"arm", "start", "await", "undo_stop", "undo_disarm"}

-----------------------------------------------------------------------------
NewTest == [state |-> "IDLE", phase |-> "DONE", elapsed |-> 0, idx |-> 0, ref |-> FALSE,
            saved |-> FALSE, ending |-> FALSE, active |-> FALSE, discard |-> FALSE]

\* initial_ascent_m with pool alignment is refused (after arming; see README).
Init ==
  /\ mode \in {m \in [pool : BOOLEAN, single : BOOLEAN, ascent : BOOLEAN] :
                 ~(m.pool /\ m.ascent)}
  /\ test = NewTest
  /\ terminal = "none"
  /\ ender = [e \in Enders |-> "none"]
  /\ results = <<>> /\ file = <<>>
  /\ base = [armed |-> FALSE, control |-> FALSE, first |-> FALSE, unfed |-> 0]
  /\ history = [failed |-> FALSE, overtaken |-> FALSE, halted |-> FALSE, starved |-> FALSE]

-----------------------------------------------------------------------------
(* obs_node, and calls of its services.                                    *)

Off(b) == [b EXCEPT !.control = FALSE, !.first = FALSE, !.unfed = 0]

\* What a served request does, and whether it is accepted.
Served(request) ==
  CASE request = "arm" -> [base |-> [base EXCEPT !.armed = @ \/ ~base.control],
                           ok |-> ~base.control]
    [] request = "start" ->
         [base |-> IF base.armed /\ ~base.control
                   THEN [base EXCEPT !.control = TRUE, !.first = TRUE] ELSE base,
          ok |-> base.armed]
    [] request = "stop" -> [base |-> Off(base), ok |-> TRUE]
    [] request = "disarm" -> [base |-> [Off(base) EXCEPT !.armed = FALSE], ok |-> TRUE]

\* _call
Call(request, ok) ==
  \/ /\ base' = Served(request).base          \* served, answered or too late
     /\ ok => Served(request).ok
     /\ history' = [history EXCEPT !.failed = @ \/ ~ok]
  \/ /\ ~ok                                   \* never served
     /\ base' = base
     /\ history' = [history EXCEPT !.failed = TRUE]

\* The session of obs_node ends for a reason of its own.
BaseFaults ==
  /\ base.control
  /\ base' = [Off(base) EXCEPT !.armed = FALSE]
  /\ UNCHANGED <<mode, test, terminal, ender, results, file, history>>

Silent == test.phase = "DONE" \/ test.state \notin Live

\* first_pwm_timeout_s
FirstPwmTimeout == base.first /\ Silent /\ BaseFaults

\* A tick as obs_node's PWM watchdog sees it.
Fed ==
  /\ base' = IF base.control THEN [base EXCEPT !.first = FALSE, !.unfed = 0] ELSE base
  /\ UNCHANGED history

Unfed ==
  IF ~base.control \/ base.first THEN UNCHANGED <<base, history>>
  ELSE IF base.unfed < Watchdog THEN base' = [base EXCEPT !.unfed = @ + 1] /\ UNCHANGED history
  ELSE /\ base' = [Off(base) EXCEPT !.armed = FALSE]
       /\ history' = [history EXCEPT !.starved = TRUE]

\* _on_active
HearActive ==
  /\ test.active # base.control
  /\ test' = [test EXCEPT !.active = base.control, !.discard = @ \/ base.control]
  /\ UNCHANGED <<mode, terminal, ender, results, file, base, history>>

-----------------------------------------------------------------------------
(* PREPARE and START.                                                      *)

Idle == terminal = "none" /\ \A e \in Enders : ender[e] = "none"

\* _capture_reference: the present pose, of a vehicle at rest.
Captured(t) == [t EXCEPT !.ref = TRUE]

\* _on_prepare: without the pool the present pose becomes the reference; with
\* it the node waits for the three services of the localization.
Prepare ==
  /\ Idle /\ test.state \in {"IDLE", "ALIGNED", "STOPPED"}
  /\ \/ /\ mode.pool
        /\ test' = [test EXCEPT !.state = "ALIGNING"] /\ terminal' = "localize"
     \/ /\ ~mode.pool
        /\ \/ test' = [Captured(test) EXCEPT !.state = "ALIGNED"]
           \/ test' = [test EXCEPT !.state = "IDLE"]      \* moving, or no odometry
        /\ UNCHANGED terminal
  /\ UNCHANGED <<mode, ender, results, file, base, history>>

Localized ==
  /\ terminal = "localize" /\ terminal' = "none"
  /\ \E state \in {"ALIGNED", "IDLE"} : test' = [test EXCEPT !.state = state]
  /\ UNCHANGED <<mode, ender, results, file, base, history>>

HasFrame == mode.pool \/ test.ref

\* _on_start, up to the first call.
Start ==
  /\ Idle /\ test.state = "ALIGNED" /\ HasFrame
  /\ terminal' = "arm"
  /\ LET left_on == base.armed \/ base.control  \* by the session before
     IN history' = [history EXCEPT !.halted = FALSE, !.starved = FALSE,
                                   !.failed = @ /\ left_on, !.overtaken = @ /\ left_on]
  /\ UNCHANGED <<mode, test, ender, results, file, base>>

Answered(next) == terminal' = next /\ test' = [test EXCEPT !.state = IF next = "none"
                                                                THEN "ALIGNED" ELSE @]

StartArms ==
  /\ terminal = "arm"
  /\ \E ok \in BOOLEAN : Call("arm", ok) /\ Answered(IF ok THEN "start" ELSE "none")
  /\ UNCHANGED <<mode, ender, results, file>>

StartStarts ==
  /\ terminal = "start"
  /\ \E ok \in BOOLEAN : Call("start", ok) /\ Answered(IF ok THEN "await" ELSE "undo_disarm")
  /\ UNCHANGED <<mode, ender, results, file>>

StartUndoes ==
  /\ terminal \in {"undo_stop", "undo_disarm"}
  /\ \E ok \in BOOLEAN :
       IF terminal = "undo_stop" THEN Call("stop", ok) /\ Answered("undo_disarm")
       ELSE Call("disarm", ok) /\ Answered("none")
  /\ UNCHANGED <<mode, ender, results, file>>

\* _wait_for_control_active gives up.
StartGivesUp ==
  /\ terminal = "await" /\ ~test.active
  /\ Answered("undo_stop")
  /\ UNCHANGED <<mode, ender, results, file, base, history>>

\* _enter_phase
Enter(t, phase) == [t EXCEPT !.phase = phase, !.elapsed = 0]

NewSession(t) == [t EXCEPT !.idx = 0, !.saved = FALSE]

\* The rest of _on_start.
StartRuns ==
  /\ terminal = "await" /\ test.active
  /\ terminal' = "none"
  /\ LET fresh == ~mode.single \/ test.idx = 0
         t == IF fresh THEN NewSession(test) ELSE test
     IN /\ test' = [Enter(t, IF mode.ascent THEN "ASCEND" ELSE "APPROACH")
                      EXCEPT !.state = "ARMED"]
        /\ results' = IF fresh THEN <<>> ELSE results
  /\ UNCHANGED <<mode, ender, file, base, history>>

-----------------------------------------------------------------------------
(* The end of a test and of a level.                                       *)

\* Mutant: only a test that has been seen to run is stopped.
BeginFinishOnceRunning(e, t) ==
  /\ test' = [t EXCEPT !.ending = TRUE]
  /\ ender' = [ender EXCEPT ![e] = IF t.state = "RUNNING" THEN "stop" ELSE "end"]

\* _finish, up to the first call.
BeginFinish(e, t) ==
  /\ test' = [t EXCEPT !.ending = TRUE]
  /\ ender' = [ender EXCEPT ![e] = IF t.state \in Live THEN "stop" ELSE "end"]

\* Both _finish and _end_single_run; what the answers are does not matter.
EnderCalls(e) ==
  /\ \E ok \in BOOLEAN :
       \/ /\ ender[e] \in {"stop", "level_stop"}
          /\ Call("stop", ok)
          /\ ender' = [ender EXCEPT ![e] = IF @ = "stop" THEN "disarm" ELSE "level_disarm"]
       \/ /\ ender[e] \in {"disarm", "level_disarm"}
          /\ Call("disarm", ok)
          /\ ender' = [ender EXCEPT ![e] = IF @ = "disarm" THEN "end" ELSE "level_end"]
  /\ UNCHANGED <<mode, test, terminal, results, file>>

Over(t) == [t EXCEPT !.phase = "DONE", !.ending = FALSE, !.ref = FALSE]

\* _save_and_report
SaveAndReport == file' = results

\* The rest of _finish.
EndFinish(e) ==
  /\ ender[e] = "end" /\ ender' = [ender EXCEPT ![e] = "none"]
  /\ test' = [Over(test) EXCEPT !.saved = TRUE, !.idx = 0, !.state = "STOPPED"]
  /\ IF test.saved THEN UNCHANGED file ELSE SaveAndReport
  /\ history' = [history EXCEPT !.halted = @ \/ e = "stop"]
  /\ UNCHANGED <<mode, terminal, results, base>>

\* The rest of _end_single_run: the session goes on.
EndLevel ==
  /\ ender["tick"] = "level_end" /\ ender' = [ender EXCEPT !["tick"] = "none"]
  /\ test' = [Over(test) EXCEPT !.state = "IDLE"]
  /\ SaveAndReport
  /\ UNCHANGED <<mode, terminal, results, base, history>>

\* _on_stop
Stop ==
  /\ ender["stop"] = "none"
  /\ BeginFinish("stop", test)
  /\ base' = base
  /\ history' = [history EXCEPT !.overtaken = @ \/ terminal \in Starting]
  /\ UNCHANGED <<mode, terminal, results, file>>

-----------------------------------------------------------------------------
(* _tick                                                                   *)

TickSilent == Silent /\ Unfed /\ UNCHANGED <<test, ender, results>>

\* Mutant: the watchdog is not fed during the calls.
TickEndingSilent == ~Silent /\ test.ending /\ Unfed /\ UNCHANGED <<test, ender, results>>

\* Only the watchdog is fed during the calls.
TickEnding == ~Silent /\ test.ending /\ Fed /\ UNCHANGED <<test, ender, results>>

\* Mutant: the state machine goes on during the calls.
WorksThroughEnding == ~Silent

Works == ~Silent /\ ~test.ending

TickDiscards ==
  /\ Works /\ test.discard
  /\ test' = [test EXCEPT !.discard = FALSE]
  /\ Unfed /\ UNCHANGED <<ender, results>>

TimedOut == test.elapsed = PhaseTicks

\* Mutant: the test waits for its yaw.
MustAbortPatient ==
  \/ ~test.active
  \/ ~HasFrame
  \/ TimedOut /\ test.phase \in {"ASCEND", "APPROACH", "TURNAROUND"}

\* Control has ended, there is no reference, or a phase took too long.
MustAbort ==
  \/ ~test.active
  \/ ~HasFrame
  \/ TimedOut /\ test.phase \in {"ASCEND", "APPROACH", "SETTLE_YAW", "TURNAROUND"}

\* Or the pose is lost, its odometry session is new, or, but in RUN, a limit is
\* exceeded: at any time.
TickAborts ==
  /\ Works /\ ~test.discard
  /\ BeginFinish("tick", test)
  /\ Fed /\ UNCHANGED results

Measures == Works /\ ~test.discard /\ test.active /\ HasFrame

TickStays ==
  /\ Measures /\ ~TimedOut
  /\ test' = [test EXCEPT !.elapsed = @ + 1]
  /\ Fed /\ UNCHANGED <<ender, results>>

\* A phase ends: in these ways before its time limit ...
EndsIn(phase, t) == test.phase = phase /\ test' = t

\* _ascend: at the depth, with a new reference.
Ascended == EndsIn("ASCEND", Enter(Captured(test), "APPROACH"))

\* _approach
Approached == EndsIn("APPROACH", [Enter(test, "SETTLE_YAW") EXCEPT !.state = "RUNNING"])

\* _settle_yaw
Settled == EndsIn("SETTLE_YAW", Enter(test, "RUN"))

\* ... in these before it or at it (_turnaround), or at it alone (_wait).
TurnedAround == EndsIn("TURNAROUND", Enter(test, "WAIT"))
Waited == EndsIn("WAIT", Enter(test, "APPROACH"))

TickAdvances ==
  /\ Measures
  /\ \/ ~TimedOut /\ (Ascended \/ Approached \/ Settled)
     \/ TurnedAround
     \/ TimedOut /\ Waited
  /\ Fed /\ UNCHANGED <<ender, results>>

\* _run and _end_run: steady, out of time or out of bounds, the level is measured.
TickEndsRun ==
  /\ Measures /\ test.phase = "RUN"
  /\ results' = Append(results, test.idx)
  /\ test' = Enter(test, "COAST")
  /\ Fed /\ UNCHANGED ender

\* _coast_phase
TickEndsCoast ==
  /\ Measures /\ test.phase = "COAST" /\ TimedOut
  /\ LET t == [test EXCEPT !.idx = @ + 1]
     IN IF t.idx = Levels THEN BeginFinish("tick", t)
        ELSE IF mode.single
        THEN /\ test' = [t EXCEPT !.ending = TRUE]
             /\ ender' = [ender EXCEPT !["tick"] = "level_stop"]
        ELSE test' = Enter(t, "TURNAROUND") /\ UNCHANGED ender
  /\ Fed /\ UNCHANGED results

\* What a tick does by itself.
TickWorks ==
  /\ \/ TickSilent \/ TickEnding \/ TickDiscards \/ TickStays \/ TickAdvances
     \/ TickEndsRun \/ TickEndsCoast
     \/ MustAbort /\ TickAborts
  /\ UNCHANGED <<mode, terminal, file>>

Tick ==
  \/ TickWorks
  \/ TickAborts /\ UNCHANGED <<mode, terminal, file>>

-----------------------------------------------------------------------------
TerminalStep == Localized \/ StartArms \/ StartStarts \/ StartUndoes \/ StartGivesUp \/ StartRuns

EnderStep == EndLevel \/ \E e \in Enders : EnderCalls(e) \/ EndFinish(e)

Next ==
  \/ Prepare \/ Start \/ Stop
  \/ TerminalStep \/ EnderStep
  \/ Tick \/ HearActive
  \/ BaseFaults

Spec == Init /\ [][Next]_vars

\* The timer, the subscriptions and the calls, which all have a timeout, go on;
\* obs_node does not wait for ever for a first command.
Fairness ==
  /\ WF_vars(TickWorks) /\ WF_vars(HearActive) /\ WF_vars(FirstPwmTimeout)
  /\ WF_vars(TerminalStep) /\ WF_vars(EnderStep)

FairSpec == Spec /\ Fairness

-----------------------------------------------------------------------------
(* Properties.                                                             *)

\* An answered STOP has ended control and disarmed, and so it stays until the next
\* START: unless a call failed, or a START was still under way (see StopHolds).
StoppedIsOff ==
  history.halted /\ ~history.failed /\ ~history.overtaken => ~base.control /\ ~base.armed

\* drag_test_node.py:45 "stop ... any time": the same, with a START under way too.
\* A START under way keeps the state ALIGNED, so STOP calls nothing, and START
\* goes on to arm and to run.
StopHolds == history.halted /\ ~history.failed => ~base.control

\* The results of a session are its levels in order, each measured once, over the
\* ends of levels, aborts and STOPs in between; and a test that has stopped has
\* saved all of them.
RecordIsComplete ==
  /\ \A i \in DOMAIN results : results[i] = i - 1
  /\ test.state = "STOPPED" => file = results
  /\ test.state \in Live /\ test.phase \in {"APPROACH", "SETTLE_YAW", "RUN"} /\ ~test.ending
       => test.idx = Len(results)

\* obs_node's PWM watchdog, whose fault blocks the next arming, trips only after
\* a failed call or a STOP that overtook a START: never because the node waits for
\* its own calls.
NeverStarved == history.starved => history.failed \/ history.overtaken

\* Control that has been started ends: every phase has a time limit, and a node
\* that gave up, with whatever calls failed, feeds the watchdog no longer.
ControlEnds == base.control ~> ~base.control
=============================================================================
