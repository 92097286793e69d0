--------------------------- MODULE ExperimentsProofs ---------------------------
(* Proofs about the drag measurements: DragTest, for any number of levels, any *)
(* time limits and any watchdog of obs_node, and the scripts of Diagnostics,   *)
(* for any number of levels or channels.                                       *)
EXTENDS DragTest, Diagnostics, SequenceTheorems, TLAPS

States == {"IDLE", "ALIGNING", "ALIGNED", "STOPPED", "ARMED", "RUNNING"}
Phases == {"DONE", "ASCEND", "APPROACH", "SETTLE_YAW", "RUN", "COAST", "TURNAROUND", "WAIT"}
Calls == {"none", "stop", "disarm", "end", "level_stop", "level_disarm", "level_end"}

DragType ==
  /\ mode \in [pool : BOOLEAN, single : BOOLEAN, ascent : BOOLEAN]
  /\ test \in [state : States, phase : Phases, elapsed : Nat, idx : Nat, ref : BOOLEAN,
               saved : BOOLEAN, ending : BOOLEAN, active : BOOLEAN, discard : BOOLEAN]
  /\ terminal \in Starting \cup {"none", "localize"}
  /\ ender \in [Enders -> Calls]
  /\ results \in Seq(Nat) /\ file \in Seq(Nat)
  /\ base \in [armed : BOOLEAN, control : BOOLEAN, first : BOOLEAN, unfed : Nat]
  /\ history \in [failed : BOOLEAN, overtaken : BOOLEAN, halted : BOOLEAN, starved : BOOLEAN]

\* The tick ends a test, or a level, only while no START is under way, and no START
\* gets under way before it is done.
TurnInv ==
  /\ terminal # "none" => test.state \notin Live
  /\ ender["tick"] # "none" =>
       terminal \notin Starting /\ (test.state \in Live => test.ending)
  /\ ender["stop"] \in {"none", "stop", "disarm", "end"}
  /\ test.state \in Live => test.phase # "DONE"

\* The session counts its levels as it records them, and a level of one START is
\* added to those of the STARTs before it.
RecordInv ==
  /\ \A i \in 1 .. Len(results) : results[i] = i - 1
  /\ test.saved => file = results
  /\ test.state = "STOPPED" => file = results
  /\ test.idx # 0 => ~test.saved
  /\ test.state \in Live /\ ~test.ending =>
       /\ ~test.saved
       /\ Len(results) = IF test.phase = "COAST" THEN test.idx + 1 ELSE test.idx
  /\ test.state \notin Live => test.idx \in {0, Len(results)}
  /\ ender["tick"] \in {"level_stop", "level_disarm", "level_end"} => test.idx \in {0, Len(results)}

\* Nothing went wrong since the vehicle was last seen off.
Clean == ~history.failed /\ ~history.overtaken

\* A vehicle that is on is driven by a test, or by a START that is under way, until the
\* answers of the calls that end it.
OffInv ==
  /\ \A e \in Enders : ender[e] # "none" /\ ~history.overtaken => terminal \notin Starting
  /\ history.halted /\ ~history.overtaken => test.state \notin Live /\ terminal \notin Starting
  /\ Clean /\ test.state \notin Live /\ terminal \notin Starting => ~base.armed /\ ~base.control
  /\ Clean => \A e \in Enders :
                /\ ender[e] \in {"disarm", "level_disarm"} => ~base.control
                /\ ender[e] \in {"end", "level_end"} => ~base.armed /\ ~base.control

\* obs_node awaits the first PWM as long as the tick is silent.
FedInv ==
  /\ Clean /\ terminal \in Starting /\ base.control => base.first
  /\ test.state \in Live /\ base.control => test.active
  /\ Clean /\ test.state \in Live /\ ~test.ending /\ test.discard /\ base.control => base.first
  /\ history.starved => ~Clean

DragInv == DragType /\ TurnInv /\ RecordInv /\ OffInv /\ FedInv

-----------------------------------------------------------------------------
(* Facts about single calls and steps.                                     *)

Answers == [armed : BOOLEAN, control : BOOLEAN, first : BOOLEAN, unfed : Nat]
Histories == [failed : BOOLEAN, overtaken : BOOLEAN, halted : BOOLEAN, starved : BOOLEAN]

\* What a call does to obs_node and to the history, served or not.
LEMMA CallEffect ==
  ASSUME base \in Answers, history \in Histories,
         NEW request \in {"arm", "start", "stop", "disarm"}, NEW ok \in BOOLEAN,
         Call(request, ok)
  PROVE  /\ base' \in Answers /\ history' \in Histories
         /\ history'.failed = (history.failed \/ ~ok)
         /\ history'.overtaken = history.overtaken /\ history'.halted = history.halted
         /\ history'.starved = history.starved
         /\ request \in {"stop", "disarm"} /\ ok => ~base'.control
         /\ request = "disarm" /\ ok => ~base'.armed
         /\ request # "start" => (base'.control => base.control /\ base'.first = base.first)
         /\ request = "start" /\ base'.control =>
              base'.first \/ (base.control /\ base'.first = base.first)
         /\ request \in {"stop", "disarm"} => (base'.armed => base.armed)
<1>1. history' = [history EXCEPT !.failed = history.failed \/ ~ok]
  BY DEF Call
<1>2. /\ history' \in Histories /\ history'.failed = (history.failed \/ ~ok)
      /\ history'.overtaken = history.overtaken /\ history'.halted = history.halted
      /\ history'.starved = history.starved
  BY <1>1 DEF Histories
<1>3. CASE ~ok /\ base' = base
  BY <1>2, <1>3
<1>4. CASE base' = Served(request).base /\ (ok => Served(request).ok)
  <2>1. CASE request = "arm"
    <3>1. base' = [base EXCEPT !.armed = base.armed \/ ~base.control]
      BY <1>4, <2>1 DEF Served
    <3> QED
      BY <1>2, <2>1, <3>1 DEF Answers
  <2>2. CASE request = "start"
    <3>1. base' = IF base.armed /\ ~base.control
                  THEN [base EXCEPT !.control = TRUE, !.first = TRUE] ELSE base
      BY <1>4, <2>2 DEF Served
    <3> QED
      BY <1>2, <2>2, <3>1 DEF Answers
  <2>3. CASE request = "stop"
    <3>1. base' = [base EXCEPT !.control = FALSE, !.first = FALSE, !.unfed = 0]
      BY <1>4, <2>3 DEF Served, Off
    <3> QED
      BY <1>2, <2>3, <3>1 DEF Answers
  <2>4. CASE request = "disarm"
    <3>1. base' = [Off(base) EXCEPT !.armed = FALSE]
      BY <1>4, <2>4 DEF Served
    <3> QED
      BY <1>2, <2>4, <3>1 DEF Answers, Off
  <2> QED
    BY <2>1, <2>2, <2>3, <2>4
<1> QED
  BY <1>3, <1>4 DEF Call

\* A tick with a command, and one without.
LEMMA FedEffect ==
  ASSUME base \in Answers, Fed
  PROVE  /\ base' \in Answers /\ history' = history
         /\ base'.armed = base.armed /\ base'.control = base.control
  BY DEF Answers, Fed

\* What obs_node does on its own leaves it one of its states and arms nothing.
LEMMA UnfedEffect ==
  ASSUME base \in Answers, history \in Histories, Unfed
  PROVE  /\ base' \in Answers /\ history' \in Histories
         /\ base'.armed => base.armed
         /\ base'.control => base.control /\ base'.first = base.first
         /\ history'.failed = history.failed /\ history'.overtaken = history.overtaken
         /\ history'.halted = history.halted
         /\ ~base.control \/ base.first => history' = history
<1>1. CASE ~base.control \/ base.first
  BY <1>1 DEF Unfed
<1>2. CASE base.control /\ ~base.first /\ base.unfed < Watchdog
  <2>1. base' = [base EXCEPT !.unfed = base.unfed + 1] /\ history' = history
    BY <1>2 DEF Unfed
  <2> QED
    BY <1>2, <2>1 DEF Answers
<1>3. CASE base.control /\ ~base.first /\ ~(base.unfed < Watchdog)
  <2>1. base' = [Off(base) EXCEPT !.armed = FALSE] /\ history' = [history EXCEPT !.starved = TRUE]
    BY <1>3 DEF Unfed
  <2> QED
    BY <1>3, <2>1 DEF Answers, Histories, Off
<1> QED
  BY <1>1, <1>2, <1>3

\* The ways to end a test.
LEMMA BeginFinishEffect ==
  ASSUME NEW e \in Enders, NEW t, ender \in [Enders -> Calls], BeginFinish(e, t)
  PROVE  /\ test' = [t EXCEPT !.ending = TRUE]
         /\ ender' = [ender EXCEPT ![e] = IF t.state \in Live THEN "stop" ELSE "end"]
         /\ ender' \in [Enders -> Calls]
  BY DEF BeginFinish, Calls

\* A step is one of these.
LEMMA StepCases ==
  ASSUME [Next]_vars
  PROVE  \/ UNCHANGED vars
         \/ Prepare \/ Localized \/ Start \/ StartArms \/ StartStarts \/ StartUndoes
         \/ StartGivesUp \/ StartRuns \/ EndLevel \/ Stop
         \/ \E e \in Enders : EnderCalls(e) \/ EndFinish(e)
         \/ (TickSilent \/ TickEnding \/ TickDiscards \/ TickStays \/ TickAdvances
             \/ TickEndsRun \/ TickEndsCoast \/ TickAborts) /\ UNCHANGED <<mode, terminal, file>>
         \/ HearActive \/ BaseFaults
  BY DEF Next, Tick, TickWorks, TerminalStep, EnderStep

-----------------------------------------------------------------------------
(* Types.                                                                  *)

Tests == [state : States, phase : Phases, elapsed : Nat, idx : Nat, ref : BOOLEAN,
          saved : BOOLEAN, ending : BOOLEAN, active : BOOLEAN, discard : BOOLEAN]

\* Entering a phase gives a test.
LEMMA EnterType ==
  ASSUME NEW t \in Tests, NEW phase \in Phases
  PROVE  Enter(t, phase) \in Tests
  BY DEF Enter, Tests

\* A node that starts has the types.
LEMMA DragTypeInit == Init => DragType
  BY DEF Init, NewTest, DragType, States, Phases, Calls, Starting, Enders

\* Every step keeps the types.
LEMMA DragTypeStep ==
  ASSUME DragType, [Next]_vars
  PROVE  DragType'
<1>0. /\ mode \in [pool : BOOLEAN, single : BOOLEAN, ascent : BOOLEAN]
      /\ test \in Tests
      /\ terminal \in Starting \cup {"none", "localize"}
      /\ ender \in [Enders -> Calls]
      /\ results \in Seq(Nat) /\ file \in Seq(Nat)
      /\ base \in Answers /\ history \in Histories
  BY DEF DragType, Tests, Answers, Histories
<1> SUFFICES /\ mode' \in [pool : BOOLEAN, single : BOOLEAN, ascent : BOOLEAN]
             /\ test' \in Tests
             /\ terminal' \in Starting \cup {"none", "localize"}
             /\ ender' \in [Enders -> Calls]
             /\ results' \in Seq(Nat) /\ file' \in Seq(Nat)
             /\ base' \in Answers /\ history' \in Histories
  BY DEF DragType, Tests, Answers, Histories
<1> USE DEF States, Phases, Starting, Enders, Calls
<1>1. CASE UNCHANGED vars
  BY <1>0, <1>1 DEF vars
<1>2. CASE Prepare
  BY <1>0, <1>2 DEF Prepare, Captured, Tests
<1>3. CASE Localized
  BY <1>0, <1>3 DEF Localized, Tests
<1>4. CASE Start
  BY <1>0, <1>4 DEF Start, Histories
<1>5. CASE StartArms
  <2>1. PICK ok \in BOOLEAN : Call("arm", ok) /\ Answered(IF ok THEN "start" ELSE "none")
    BY <1>5 DEF StartArms
  <2>2. base' \in Answers /\ history' \in Histories
    BY <1>0, <2>1, CallEffect
  <2> QED
    BY <1>0, <1>5, <2>1, <2>2 DEF StartArms, Answered, Tests
<1>6. CASE StartStarts
  <2>1. PICK ok \in BOOLEAN : Call("start", ok) /\ Answered(IF ok THEN "await" ELSE "undo_disarm")
    BY <1>6 DEF StartStarts
  <2>2. base' \in Answers /\ history' \in Histories
    BY <1>0, <2>1, CallEffect
  <2> QED
    BY <1>0, <1>6, <2>1, <2>2 DEF StartStarts, Answered, Tests
<1>7. CASE StartUndoes
  <2>1. PICK ok \in BOOLEAN : \/ Call("stop", ok) /\ Answered("undo_disarm")
                              \/ Call("disarm", ok) /\ Answered("none")
    BY <1>7 DEF StartUndoes
  <2>2. base' \in Answers /\ history' \in Histories
    BY <1>0, <2>1, CallEffect
  <2> QED
    BY <1>0, <1>7, <2>1, <2>2 DEF StartUndoes, Answered, Tests
<1>8. CASE StartGivesUp
  BY <1>0, <1>8 DEF StartGivesUp, Answered, Tests
<1>9. CASE StartRuns
  <2>1. PICK t \in {test, NewSession(test)}, phase \in {"ASCEND", "APPROACH"} :
          test' = [Enter(t, phase) EXCEPT !.state = "ARMED"]
    BY <1>9 DEF StartRuns
  <2>2. t \in Tests
    <3>1. NewSession(test) \in Tests
      BY <1>0 DEF NewSession, Tests
    <3> QED
      BY <1>0, <2>1, <3>1
  <2>3. test' \in Tests
    BY <2>1, <2>2 DEF Enter, Tests
  <2>4. results' \in {<<>>, results}
    BY <1>9 DEF StartRuns
  <2> QED
    BY <1>0, <1>9, <2>3, <2>4 DEF StartRuns
<1>10. CASE EndLevel
  BY <1>0, <1>10 DEF EndLevel, Over, SaveAndReport, Tests
<1>11. CASE Stop
  <2>1. test' = [test EXCEPT !.ending = TRUE] /\ ender' \in [Enders -> Calls]
    BY <1>0, <1>11, BeginFinishEffect DEF Stop
  <2> QED
    BY <1>0, <1>11, <2>1 DEF Stop, Tests, Histories
<1>12. ASSUME NEW e \in Enders, EnderCalls(e) PROVE base' \in Answers /\ history' \in Histories
  <2>1. PICK ok \in BOOLEAN : Call("stop", ok) \/ Call("disarm", ok)
    BY <1>12 DEF EnderCalls
  <2> QED
    BY <1>0, <2>1, CallEffect
<1>13. ASSUME NEW e \in Enders, EnderCalls(e) PROVE DragType'
  BY <1>0, <1>12, <1>13 DEF EnderCalls, DragType, Answers, Histories, Tests
<1>14. ASSUME NEW e \in Enders, EndFinish(e) PROVE DragType'
  <2>1. /\ test' = [test EXCEPT !.phase = "DONE", !.ending = FALSE, !.ref = FALSE,
                                !.saved = TRUE, !.idx = 0, !.state = "STOPPED"]
        /\ ender' = [ender EXCEPT ![e] = "none"]
        /\ history' = [history EXCEPT !.halted = history.halted \/ e = "stop"]
        /\ file' \in {file, results} /\ UNCHANGED <<mode, terminal, results, base>>
    BY <1>14 DEF EndFinish, Over, SaveAndReport
  <2>2. test' \in Tests
    BY <1>0, <2>1 DEF Tests
  <2>3. ender' \in [Enders -> Calls] /\ history' \in Histories
    BY <1>0, <2>1 DEF Histories
  <2> QED
    BY <1>0, <2>1, <2>2, <2>3 DEF DragType, Tests, Answers, Histories
<1>15. CASE HearActive
  BY <1>0, <1>15 DEF HearActive, Tests, Answers
<1>16. CASE BaseFaults
  BY <1>0, <1>16 DEF BaseFaults, Off, Answers
<1>17. CASE /\ TickSilent \/ TickEnding \/ TickDiscards \/ TickStays \/ TickAdvances
               \/ TickEndsRun \/ TickEndsCoast \/ TickAborts
            /\ UNCHANGED <<mode, terminal, file>>
  <2>1. base' \in Answers /\ history' \in Histories
    BY <1>0, <1>17, FedEffect, UnfedEffect
       DEF TickSilent, TickEnding, TickDiscards, TickStays, TickAdvances, TickEndsRun,
           TickEndsCoast, TickAborts
  <2>2. test' \in Tests
    <3>1. CASE TickSilent \/ TickEnding \/ TickDiscards \/ TickStays
      <4>1. \/ test' = test \/ test' = [test EXCEPT !.discard = FALSE]
            \/ test' = [test EXCEPT !.elapsed = test.elapsed + 1]
        BY <3>1 DEF TickSilent, TickEnding, TickDiscards, TickStays
      <4>2. test.elapsed + 1 \in Nat
        BY <1>0 DEF Tests
      <4> QED
        BY <1>0, <4>1, <4>2 DEF Tests
    <3>2. CASE TickAdvances
      <4>1. \/ test' = Enter(Captured(test), "APPROACH")
            \/ test' = [Enter(test, "SETTLE_YAW") EXCEPT !.state = "RUNNING"]
            \/ \E phase \in {"RUN", "WAIT", "APPROACH"} : test' = Enter(test, phase)
        BY <3>2 DEF TickAdvances, Ascended, Approached, Settled, TurnedAround, Waited, EndsIn
      <4>2. Captured(test) \in Tests
        BY <1>0 DEF Captured, Tests
      <4>3. \A t \in Tests, phase \in Phases : Enter(t, phase) \in Tests
        BY EnterType
      <4>4. Enter(test, "SETTLE_YAW") \in Tests
        BY <1>0, <4>3
      <4>5. [Enter(test, "SETTLE_YAW") EXCEPT !.state = "RUNNING"] \in Tests
        BY <4>4 DEF Tests
      <4> QED
        BY <1>0, <4>1, <4>2, <4>3, <4>5
    <3>3. CASE TickEndsRun
      BY <1>0, <3>3 DEF TickEndsRun, Enter, Tests
    <3>4. CASE TickEndsCoast
      <4>1. PICK t \in Tests : t = [test EXCEPT !.idx = test.idx + 1]
        <5>1. test.idx + 1 \in Nat
          BY <1>0 DEF Tests
        <5> QED
          BY <1>0, <5>1 DEF Tests
      <4>2. test' = [t EXCEPT !.ending = TRUE] \/ test' = Enter(t, "TURNAROUND")
        BY <1>0, <3>4, <4>1 DEF TickEndsCoast, BeginFinish
      <4> QED
        <5>1. [t EXCEPT !.ending = TRUE] \in Tests
          BY <4>1 DEF Tests
        <5>2. Enter(t, "TURNAROUND") \in Tests
          BY <4>1, EnterType
        <5> QED
          BY <4>2, <5>1, <5>2
    <3>5. CASE TickAborts
      BY <1>0, <3>5 DEF TickAborts, BeginFinish, Tests
    <3> QED
      BY <1>17, <3>1, <3>2, <3>3, <3>4, <3>5
  <2>3. ender' \in [Enders -> Calls]
    BY <1>0, <1>17
       DEF TickSilent, TickEnding, TickDiscards, TickStays, TickAdvances, TickEndsRun,
           TickEndsCoast, TickAborts, BeginFinish
  <2>4. results' \in Seq(Nat)
    <3>1. results' = results \/ results' = Append(results, test.idx)
      BY <1>17
         DEF TickSilent, TickEnding, TickDiscards, TickStays, TickAdvances, TickEndsRun,
             TickEndsCoast, TickAborts
    <3>2. test.idx \in Nat
      BY <1>0 DEF Tests
    <3>3. Append(results, test.idx) \in Seq(Nat)
      BY <1>0, <3>2, AppendProperties, Zenon
    <3> QED
      BY <1>0, <3>1, <3>3, Zenon
  <2> QED
    BY <1>0, <1>17, <2>1, <2>2, <2>3, <2>4
<1> QED
  BY <1>1, <1>2, <1>3, <1>4, <1>5, <1>6, <1>7, <1>8, <1>9, <1>10, <1>11, <1>13, <1>14, <1>15,
     <1>16, <1>17, StepCases DEF DragType, Tests, Answers, Histories

-----------------------------------------------------------------------------
(* Turns.                                                                  *)

\* A node that starts has no turn to take.
LEMMA TurnInvInit == Init => TurnInv
  BY DEF Init, NewTest, TurnInv, Starting, Live, Enders

\* What a tick does to the node.  It works on a live test that is not ending.
LEMMA TickEffect ==
  ASSUME DragType,
         TickSilent \/ TickEnding \/ TickDiscards \/ TickStays \/ TickAdvances
           \/ TickEndsRun \/ TickEndsCoast \/ TickAborts
  PROVE  /\ test'.active = test.active /\ test'.saved = test.saved
         /\ test'.discard => test.discard
         /\ \/ test' = test /\ ender' = ender
            \/ /\ test.state \in Live /\ ~test.ending
               /\ test'.state \in Live
               /\ \/ ender' = ender /\ ~test'.ending
                  \/ /\ test'.ending
                     /\ \E call \in {"stop", "level_stop"} : ender' = [ender EXCEPT !["tick"] = call]
               /\ test.phase # "DONE" => test'.phase # "DONE"
<1> USE DEF DragType, Live, States, Phases
<1>1. CASE TickSilent \/ TickEnding
  BY <1>1 DEF TickSilent, TickEnding
<1>2. CASE TickDiscards
  <2>1. test' = [test EXCEPT !.discard = FALSE] /\ ender' = ender
        /\ test.state \in Live /\ ~test.ending
    BY <1>2 DEF TickDiscards, Works, Silent
  <2> QED
    BY <2>1
<1>3. CASE TickStays
  <2>1. test' = [test EXCEPT !.elapsed = test.elapsed + 1] /\ ender' = ender
        /\ test.state \in Live /\ ~test.ending
    BY <1>3 DEF TickStays, Measures, Works, Silent
  <2> QED
    BY <2>1
<1>4. CASE TickAdvances
  <2>1. ender' = ender /\ test.state \in Live /\ ~test.ending
    BY <1>4 DEF TickAdvances, Measures, Works, Silent
  <2>2. \/ test' = [test EXCEPT !.ref = TRUE, !.phase = "APPROACH", !.elapsed = 0]
        \/ test' = [test EXCEPT !.phase = "SETTLE_YAW", !.elapsed = 0, !.state = "RUNNING"]
        \/ \E phase \in {"RUN", "WAIT", "APPROACH"} :
             test' = [test EXCEPT !.phase = phase, !.elapsed = 0]
    BY <1>4 DEF TickAdvances, Ascended, Approached, Settled, TurnedAround, Waited, EndsIn,
                Enter, Captured
  <2> QED
    BY <2>1, <2>2
<1>5. CASE TickEndsRun
  <2>1. test' = [test EXCEPT !.phase = "COAST", !.elapsed = 0] /\ ender' = ender
        /\ test.state \in Live /\ ~test.ending
    BY <1>5 DEF TickEndsRun, Enter, Measures, Works, Silent
  <2> QED
    BY <2>1
<1>6. CASE TickEndsCoast
  <2>1. test.state \in Live /\ ~test.ending
    BY <1>6 DEF TickEndsCoast, Measures, Works, Silent
  <2>2. PICK t : t = [test EXCEPT !.idx = test.idx + 1]
    OBVIOUS
  <2>3. t.state = test.state
    BY <2>2
  <2>4. \/ test' = [t EXCEPT !.ending = TRUE]
           /\ \E call \in {"stop", "level_stop"} : ender' = [ender EXCEPT !["tick"] = call]
        \/ test' = [t EXCEPT !.phase = "TURNAROUND", !.elapsed = 0] /\ ender' = ender
    BY <1>6, <2>1, <2>2, <2>3 DEF TickEndsCoast, BeginFinish, Enter
  <2>5. /\ t.active = test.active /\ t.saved = test.saved /\ t.discard = test.discard
        /\ t.ending = test.ending /\ t.phase = test.phase
    BY <2>2
  <2>6. \/ test'.phase = t.phase /\ test'.ending
        \/ test'.phase = "TURNAROUND" /\ test'.ending = t.ending
    BY <2>2, <2>4
  <2>7. /\ test'.active = t.active /\ test'.saved = t.saved /\ test'.discard = t.discard
        /\ test'.state = t.state
    BY <2>2, <2>4
  <2> QED
    BY <2>1, <2>2, <2>3, <2>4, <2>5, <2>6, <2>7
<1>7. CASE TickAborts
  <2>1. test.state \in Live /\ ~test.ending
    BY <1>7 DEF TickAborts, Works, Silent
  <2>2. test' = [test EXCEPT !.ending = TRUE] /\ ender' = [ender EXCEPT !["tick"] = "stop"]
    BY <1>7, <2>1 DEF TickAborts, BeginFinish
  <2> QED
    BY <2>1, <2>2
<1> QED
  BY <1>1, <1>2, <1>3, <1>4, <1>5, <1>6, <1>7

\* Every step keeps whose turn it is.
LEMMA TurnInvStep ==
  ASSUME DragType, TurnInv, [Next]_vars
  PROVE  TurnInv'
<1>0. DragType'
  BY DragTypeStep
<1> USE DEF DragType, TurnInv, Live, States, Starting, Enders, Calls
<1>1. CASE UNCHANGED vars
  BY <1>1 DEF vars
<1>2. CASE Prepare
  BY <1>2 DEF Prepare, Idle, Captured
<1>3. CASE Localized
  BY <1>3 DEF Localized
<1>4. CASE Start
  BY <1>4 DEF Start, Idle
<1>5. CASE StartArms
  BY <1>5 DEF StartArms, Answered
<1>6. CASE StartStarts
  BY <1>6 DEF StartStarts, Answered
<1>7. CASE StartUndoes
  BY <1>7 DEF StartUndoes, Answered
<1>8. CASE StartGivesUp
  BY <1>8 DEF StartGivesUp, Answered
<1>9. CASE StartRuns
  <2>1. terminal = "await" /\ terminal' = "none" /\ ender' = ender
    BY <1>9 DEF StartRuns
  <2>2. PICK t \in {test, NewSession(test)}, phase \in {"ASCEND", "APPROACH"} :
          test' = [t EXCEPT !.phase = phase, !.elapsed = 0, !.state = "ARMED"]
    BY <1>9 DEF StartRuns, Enter
  <2>3. test'.phase \in {"ASCEND", "APPROACH"}
    BY <2>2 DEF NewSession
  <2> QED
    BY <2>1, <2>3
<1>10. CASE EndLevel
  BY <1>10 DEF EndLevel, Over
<1>11. CASE Stop
  <2>1. test' = [test EXCEPT !.ending = TRUE]
        /\ ender' = [ender EXCEPT !["stop"] = IF test.state \in Live THEN "stop" ELSE "end"]
    BY <1>11 DEF Stop, BeginFinish
  <2> QED
    BY <1>11, <2>1 DEF Stop
<1>12. ASSUME NEW e \in Enders, EnderCalls(e) PROVE TurnInv'
  <2>1. /\ UNCHANGED <<test, terminal>>
        /\ ender[e] \in {"stop", "disarm", "level_stop", "level_disarm"}
        /\ \E call \in {"disarm", "end", "level_disarm", "level_end"} :
             /\ ender' = [ender EXCEPT ![e] = call]
             /\ ender[e] \in {"stop", "disarm"} => call \in {"disarm", "end"}
    BY <1>12 DEF EnderCalls
  <2>2. CASE e = "stop"
    BY <2>1, <2>2
  <2>3. CASE e = "tick"
    BY <2>1, <2>3
  <2> QED
    BY <2>2, <2>3
<1>13. ASSUME NEW e \in Enders, EndFinish(e) PROVE TurnInv'
  <2>1. /\ test'.state = "STOPPED" /\ UNCHANGED terminal
        /\ ender' = [ender EXCEPT ![e] = "none"]
    BY <1>13 DEF EndFinish, Over
  <2> QED
    BY <2>1
<1>14. CASE HearActive
  BY <1>14 DEF HearActive
<1>15. CASE BaseFaults
  BY <1>15 DEF BaseFaults
<1>16. CASE /\ TickSilent \/ TickEnding \/ TickDiscards \/ TickStays \/ TickAdvances
               \/ TickEndsRun \/ TickEndsCoast \/ TickAborts
            /\ UNCHANGED <<mode, terminal, file>>
  BY <1>16, TickEffect
<1> QED
  BY <1>1, <1>2, <1>3, <1>4, <1>5, <1>6, <1>7, <1>8, <1>9, <1>10, <1>11, <1>12, <1>13, <1>14,
     <1>15, <1>16, StepCases

-----------------------------------------------------------------------------
(* The record.                                                             *)

\* A node that starts has recorded nothing.
LEMMA RecordInvInit == Init => RecordInv
  BY DEF Init, NewTest, RecordInv, Live, Enders

\* What a tick does to the record: nothing, a new result, or the next level.
LEMMA TickRecords ==
  ASSUME DragType,
         TickSilent \/ TickEnding \/ TickDiscards \/ TickStays \/ TickAdvances
           \/ TickEndsRun \/ TickEndsCoast \/ TickAborts
  PROVE  \/ /\ results' = results /\ test'.idx = test.idx
            /\ test'.phase = "COAST" <=> test.phase = "COAST"
            /\ ender' = ender \/ ender' = [ender EXCEPT !["tick"] = "stop"]
         \/ /\ results' = Append(results, test.idx) /\ test'.idx = test.idx /\ ender' = ender
            /\ test.phase = "RUN" /\ test'.phase = "COAST"
         \/ /\ results' = results /\ test'.idx = test.idx + 1
            /\ test.phase = "COAST" /\ (test'.phase = "TURNAROUND" \/ test'.ending)
<1> USE DEF DragType, States, Phases
<1>1. CASE TickSilent \/ TickEnding
  BY <1>1 DEF TickSilent, TickEnding
<1>2. CASE TickDiscards
  BY <1>2 DEF TickDiscards
<1>3. CASE TickStays
  BY <1>3 DEF TickStays
<1>4. CASE TickAdvances
  <2>1. results' = results /\ ender' = ender
    BY <1>4 DEF TickAdvances
  <2>2. \/ /\ test.phase # "COAST"
           /\ test' = [test EXCEPT !.ref = TRUE, !.phase = "APPROACH", !.elapsed = 0]
        \/ /\ test.phase # "COAST"
           /\ test' = [test EXCEPT !.phase = "SETTLE_YAW", !.elapsed = 0, !.state = "RUNNING"]
        \/ /\ test.phase # "COAST"
           /\ \E phase \in {"RUN", "WAIT", "APPROACH"} :
                test' = [test EXCEPT !.phase = phase, !.elapsed = 0]
    BY <1>4 DEF TickAdvances, Ascended, Approached, Settled, TurnedAround, Waited, EndsIn,
                Enter, Captured
  <2> QED
    BY <2>1, <2>2
<1>5. CASE TickEndsRun
  BY <1>5 DEF TickEndsRun, Enter
<1>6. CASE TickEndsCoast
  <2>1. PICK t : t = [test EXCEPT !.idx = test.idx + 1]
    OBVIOUS
  <2>2. \/ test' = [t EXCEPT !.ending = TRUE]
        \/ test' = [t EXCEPT !.phase = "TURNAROUND", !.elapsed = 0]
    BY <1>6, <2>1 DEF TickEndsCoast, BeginFinish, Enter
  <2>3. t.idx = test.idx + 1
    BY <2>1
  <2>4. test'.idx = t.idx /\ (test'.phase = "TURNAROUND" \/ test'.ending)
    BY <2>1, <2>2
  <2> QED
    BY <1>6, <2>3, <2>4 DEF TickEndsCoast
<1>7. CASE TickAborts
  <2>1. /\ test' = [test EXCEPT !.ending = TRUE] /\ results' = results
        /\ ender' = [ender EXCEPT !["tick"] = "stop"]
    BY <1>7 DEF TickAborts, BeginFinish, Works, Silent
  <2> QED
    BY <2>1
<1> QED
  BY <1>1, <1>2, <1>3, <1>4, <1>5, <1>6, <1>7

\* A new result continues the record.
LEMMA RecordGrows ==
  ASSUME NEW record \in Seq(Nat), NEW n \in Nat, n = Len(record),
         NEW r, r = Append(record, n),
         \A i \in 1 .. n : record[i] = i - 1
  PROVE  Len(r) = n + 1 /\ \A i \in 1 .. Len(r) : r[i] = i - 1
<1>1. /\ Len(r) = Len(record) + 1
      /\ \A i \in 1 .. Len(record) : r[i] = record[i]
      /\ r[Len(record) + 1] = n
  BY AppendProperties
<1>2. ASSUME NEW i \in 1 .. Len(r) PROVE r[i] = i - 1
  <2>1. CASE i \in 1 .. n
    BY <1>1, <2>1
  <2>2. CASE i = n + 1
    BY <1>1, <2>2
  <2> QED
    BY <1>1, <2>1, <2>2
<1> QED
  BY <1>1, <1>2

\* Every step keeps the record of the levels.
LEMMA RecordInvStep ==
  ASSUME DragType, TurnInv, RecordInv, [Next]_vars
  PROVE  RecordInv'
<1>0. test.idx \in Nat /\ Len(results) \in Nat
  BY LenProperties DEF DragType
<1> USE DEF DragType, TurnInv, RecordInv, Live, Starting
<1>1. CASE UNCHANGED vars
  BY <1>1 DEF vars
<1>2. CASE Prepare \/ Localized
  <2>1. /\ UNCHANGED <<ender, results, file>>
        /\ \/ test.state \notin Live
              /\ test' = [[test EXCEPT !.ref = TRUE] EXCEPT !.state = "ALIGNED"]
           \/ \E state \in {"ALIGNING", "IDLE", "ALIGNED"} : test' = [test EXCEPT !.state = state]
    BY <1>2 DEF Prepare, Localized, Captured
  <2>2. /\ test'.state \in {"ALIGNING", "IDLE", "ALIGNED"}
        /\ test'.saved = test.saved /\ test'.idx = test.idx
    BY <2>1
  <2>3. test.state \notin Live
    BY <1>2 DEF Prepare, Localized
  <2> QED
    BY <2>1, <2>2, <2>3
<1>4. CASE Start
  BY <1>4 DEF Start, Idle
<1>5. CASE StartArms \/ StartStarts \/ StartUndoes \/ StartGivesUp
  <2>1. test' = test \/ test' = [test EXCEPT !.state = "ALIGNED"]
    BY <1>5 DEF StartArms, StartStarts, StartUndoes, StartGivesUp, Answered
  <2>2. terminal \in Starting /\ UNCHANGED <<ender, results, file>>
    BY <1>5 DEF StartArms, StartStarts, StartUndoes, StartGivesUp
  <2>3. test.state \notin Live /\ test'.state \notin Live
        /\ (test'.state = "STOPPED" => test.state = "STOPPED")
        /\ test'.saved = test.saved /\ test'.idx = test.idx
    BY <2>1, <2>2 DEF States
  <2> QED
    BY <2>2, <2>3
<1>6. CASE StartRuns
  <2>1. terminal = "await" /\ UNCHANGED <<ender, file>> /\ ender["tick"] = "none"
    BY <1>6 DEF StartRuns
  <2>2. PICK phase \in {"ASCEND", "APPROACH"} :
          IF ~mode.single \/ test.idx = 0
          THEN /\ test' = [Enter(NewSession(test), phase) EXCEPT !.state = "ARMED"]
               /\ results' = <<>>
          ELSE /\ test' = [Enter(test, phase) EXCEPT !.state = "ARMED"]
               /\ results' = results
    BY <1>6 DEF StartRuns
  <2>3. CASE ~mode.single \/ test.idx = 0
    <3>1. /\ test'.idx = 0 /\ ~test'.saved /\ test'.state = "ARMED" /\ test'.phase = phase
      BY <2>2, <2>3 DEF NewSession, Enter
    <3>2. results' = <<>> /\ Len(results') = 0
      BY <2>2, <2>3
    <3> QED
      BY <2>1, <3>1, <3>2
  <2>4. CASE ~(~mode.single \/ test.idx = 0)
    <3>1. /\ test'.idx = test.idx /\ test'.saved = test.saved /\ test'.state = "ARMED"
          /\ test'.phase = phase /\ results' = results
      BY <2>2, <2>4 DEF Enter
    <3>2. test.idx = Len(results) /\ ~test.saved
      BY <2>1, <2>4
    <3> QED
      BY <2>1, <3>1, <3>2
  <2> QED
    BY <2>3, <2>4
<1>7. CASE EndLevel
  <2>1. test' = [test EXCEPT !.phase = "DONE", !.ending = FALSE, !.ref = FALSE, !.state = "IDLE"]
        /\ ender' = [ender EXCEPT !["tick"] = "none"] /\ ender["tick"] = "level_end"
        /\ file' = results /\ results' = results
    BY <1>7 DEF EndLevel, Over, SaveAndReport
  <2> QED
    BY <2>1 DEF Enders
<1>8. CASE Stop
  <2>1. test' = [test EXCEPT !.ending = TRUE]
        /\ \E call \in {"stop", "end"} : ender' = [ender EXCEPT !["stop"] = call]
    BY <1>8 DEF Stop, BeginFinish
  <2> QED
    BY <1>8, <2>1 DEF Stop, Enders
<1>9. ASSUME NEW e \in Enders, EnderCalls(e) PROVE RecordInv'
  <2>1. /\ UNCHANGED <<test, results, file>>
        /\ \E call \in {"disarm", "end", "level_disarm", "level_end"} :
             /\ ender' = [ender EXCEPT ![e] = call]
             /\ ender[e] \notin {"level_stop", "level_disarm"} => call \in {"disarm", "end"}
    BY <1>9 DEF EnderCalls
  <2>2. ender'["tick"] \in {"level_stop", "level_disarm", "level_end"} =>
          ender["tick"] \in {"level_stop", "level_disarm", "level_end"}
    BY <2>1 DEF Enders
  <2> QED
    BY <2>1, <2>2
<1>10. ASSUME NEW e \in Enders, EndFinish(e) PROVE RecordInv'
  <2>1. test' = [[test EXCEPT !.phase = "DONE", !.ending = FALSE, !.ref = FALSE]
                   EXCEPT !.saved = TRUE, !.idx = 0, !.state = "STOPPED"]
        /\ results' = results
    BY <1>10 DEF EndFinish, Over
  <2>2. file' = results
    <3>1. CASE test.saved
      BY <1>10, <3>1 DEF EndFinish
    <3>2. CASE ~test.saved
      BY <1>10, <3>2 DEF EndFinish, SaveAndReport
    <3> QED
      BY <3>1, <3>2
  <2>3. test'.saved /\ test'.idx = 0 /\ test'.state = "STOPPED"
    BY <2>1
  <2>4. results' = results
    BY <2>1
  <2> QED
    BY <2>2, <2>3, <2>4
<1>11. CASE HearActive
  BY <1>11 DEF HearActive
<1>12. CASE BaseFaults
  BY <1>12 DEF BaseFaults
<1>13. CASE /\ TickSilent \/ TickEnding \/ TickDiscards \/ TickStays \/ TickAdvances
               \/ TickEndsRun \/ TickEndsCoast \/ TickAborts
            /\ UNCHANGED <<mode, terminal, file>>
  <2>1. CASE test' = test /\ ender' = ender /\ results' = results
    BY <1>13, <2>1
  <2>2. /\ test'.saved = test.saved /\ file' = file
        /\ \/ test' = test /\ ender' = ender
           \/ /\ test.state \in Live /\ ~test.ending /\ test'.state \in Live
              /\ ender' = ender \/ test'.ending
    BY <1>13, TickEffect
  <2>3. CASE /\ results' = results /\ test'.idx = test.idx
             /\ test'.phase = "COAST" <=> test.phase = "COAST"
             /\ ender' = ender \/ ender' = [ender EXCEPT !["tick"] = "stop"]
    BY <2>1, <2>2, <2>3 DEF Enders
  <2>4. CASE /\ results' = Append(results, test.idx) /\ test'.idx = test.idx /\ ender' = ender
             /\ test.phase = "RUN" /\ test'.phase = "COAST"
    <3>1. /\ test.state \in Live /\ ~test.ending /\ test'.state \in Live
          /\ test.idx = Len(results) /\ ~test.saved /\ ender["tick"] = "none"
      BY <2>2, <2>4
    <3>2. Len(results') = Len(results) + 1 /\ \A i \in 1 .. Len(results') : results'[i] = i - 1
      <4>1. results \in Seq(Nat) /\ results' = Append(results, Len(results))
        BY <2>4, <3>1
      <4> QED
        BY <1>0, <4>1, RecordGrows
    <3> QED
      BY <2>2, <2>4, <3>1, <3>2
  <2>5. CASE /\ results' = results /\ test'.idx = test.idx + 1
             /\ test.phase = "COAST" /\ (test'.phase = "TURNAROUND" \/ test'.ending)
    <3>1. /\ test.state \in Live /\ ~test.ending /\ test'.state \in Live /\ ~test.saved
          /\ Len(results) = test'.idx
      BY <1>0, <2>2, <2>5
    <3> QED
      BY <2>2, <2>5, <3>1
  <2> QED
    BY <1>13, <2>3, <2>4, <2>5, TickRecords
<1> QED
  BY <1>1, <1>2, <1>4, <1>5, <1>6, <1>7, <1>8, <1>9, <1>10, <1>11, <1>12, <1>13, StepCases

-----------------------------------------------------------------------------
(* The vehicle.                                                            *)

\* A vehicle that nobody has driven is off.
LEMMA OffFedInit == Init => OffInv /\ FedInv
  BY DEF Init, NewTest, OffInv, FedInv, Clean, Live, Starting, Enders

\* What a tick does to obs_node.  A tick that works on a test sends a command, but for
\* the one that discards the first sample.
LEMMA TickBase ==
  ASSUME DragType, TurnInv,
         TickSilent \/ TickEnding \/ TickDiscards \/ TickStays \/ TickAdvances
           \/ TickEndsRun \/ TickEndsCoast \/ TickAborts
  PROVE  \/ Fed /\ test.state \in Live /\ (test.ending \/ ~test'.discard)
         \/ Unfed /\ test' = test /\ test.state \notin Live
         \/ Unfed /\ test.state \in Live /\ ~test.ending /\ test.discard /\ ~test'.discard
<1> USE DEF DragType, TurnInv, Live
<1>1. CASE TickSilent
  BY <1>1 DEF TickSilent, Silent
<1>2. CASE TickEnding
  BY <1>2 DEF TickEnding, Silent
<1>3. CASE TickDiscards
  BY <1>3 DEF TickDiscards, Works, Silent
<1>4. CASE TickStays \/ TickAdvances \/ TickEndsRun \/ TickEndsCoast \/ TickAborts
  <2>1. Fed /\ test.state \in Live /\ ~test.discard
    BY <1>4 DEF TickStays, TickAdvances, TickEndsRun, TickEndsCoast, TickAborts, Measures,
                Works, Silent
  <2>2. ~test'.discard
    BY <1>4, <2>1, TickEffect
  <2> QED
    BY <2>1, <2>2
<1> QED
  BY <1>1, <1>2, <1>3, <1>4

\* Every step keeps what is said of a vehicle that is off.
LEMMA OffInvStep ==
  ASSUME DragType, TurnInv, OffInv, [Next]_vars
  PROVE  OffInv'
<1>0. base \in Answers /\ history \in Histories
  BY DEF DragType, Answers, Histories
<1> USE DEF DragType, TurnInv, OffInv, Clean, Live, Starting, Enders, States
<1>1. CASE UNCHANGED vars
  BY <1>1 DEF vars
<1>2. CASE Prepare \/ Localized
  <2>1. /\ UNCHANGED <<ender, base, history>>
        /\ terminal \in {"none", "localize"} /\ terminal' \in {"none", "localize"}
        /\ test.state \notin Live /\ test'.state \notin Live
    BY <1>2 DEF Prepare, Localized, Idle, Captured
  <2> QED
    BY <2>1
<1>3. CASE Start
  <2>1. /\ UNCHANGED <<test, ender, base>> /\ terminal' = "arm" /\ ~history'.halted
        /\ \A e \in Enders : ender[e] = "none"
    BY <1>3 DEF Start, Idle
  <2> QED
    BY <2>1
<1>4. CASE StartArms \/ StartStarts \/ StartUndoes
  <2>1. PICK request \in {"arm", "start", "stop", "disarm"}, ok \in BOOLEAN :
          /\ Call(request, ok)
          /\ ok /\ terminal' = "none" => request = "disarm"
    BY <1>4 DEF StartArms, StartStarts, StartUndoes, Answered
  <2>2. terminal \in Starting /\ UNCHANGED ender
    BY <1>4 DEF StartArms, StartStarts, StartUndoes
  <2>3. /\ history'.failed = (history.failed \/ ~ok) /\ history'.overtaken = history.overtaken
        /\ history'.halted = history.halted
        /\ request = "disarm" /\ ok => ~base'.control /\ ~base'.armed
    BY <1>0, <2>1, CallEffect
  <2>4. terminal' \in Starting \cup {"none"}
    BY <1>4 DEF StartArms, StartStarts, StartUndoes, Answered
  <2> QED
    BY <2>1, <2>2, <2>3, <2>4
<1>5. CASE StartGivesUp
  BY <1>5 DEF StartGivesUp, Answered
<1>6. CASE StartRuns
  <2>1. /\ terminal = "await" /\ terminal' = "none" /\ UNCHANGED <<ender, base, history>>
        /\ test'.state \in Live
    BY <1>6 DEF StartRuns, Enter, NewSession
  <2> QED
    BY <2>1
<1>7. CASE EndLevel
  <2>1. /\ ender["tick"] = "level_end" /\ ender' = [ender EXCEPT !["tick"] = "none"]
        /\ test'.state \notin Live /\ UNCHANGED <<terminal, base, history>>
    BY <1>7 DEF EndLevel, Over
  <2> QED
    BY <2>1
<1>8. CASE Stop
  <2>1. /\ UNCHANGED <<terminal, base>> /\ test'.state = test.state
        /\ ender' = [ender EXCEPT !["stop"] = IF test.state \in Live THEN "stop" ELSE "end"]
        /\ history' = [history EXCEPT !.overtaken = history.overtaken \/ terminal \in Starting]
    BY <1>8 DEF Stop, BeginFinish
  <2>2. /\ history'.failed = history.failed /\ history'.halted = history.halted
        /\ ~history'.overtaken => ~history.overtaken /\ terminal \notin Starting
    BY <2>1
  <2> QED
    BY <2>1, <2>2
<1>9. ASSUME NEW e \in Enders, EnderCalls(e) PROVE OffInv'
  <2>1. PICK request \in {"stop", "disarm"}, ok \in BOOLEAN :
          /\ Call(request, ok)
          /\ request = "stop" => /\ ender[e] \in {"stop", "level_stop"}
                                 /\ \E call \in {"disarm", "level_disarm"} :
                                      ender' = [ender EXCEPT ![e] = call]
          /\ request = "disarm" => /\ ender[e] \in {"disarm", "level_disarm"}
                                   /\ \E call \in {"end", "level_end"} :
                                        ender' = [ender EXCEPT ![e] = call]
    BY <1>9 DEF EnderCalls
  <2>2. UNCHANGED <<test, terminal>>
    BY <1>9 DEF EnderCalls
  <2>3. /\ history'.failed = (history.failed \/ ~ok) /\ history'.overtaken = history.overtaken
        /\ history'.halted = history.halted
        /\ ok => ~base'.control
        /\ request = "disarm" /\ ok => ~base'.armed
        /\ base'.control => base.control
        /\ base'.armed => base.armed
    BY <1>0, <2>1, CallEffect
  <2>4. CASE request = "stop"
    BY <2>1, <2>2, <2>3, <2>4
  <2>5. CASE request = "disarm"
    BY <2>1, <2>2, <2>3, <2>5
  <2> QED
    BY <2>4, <2>5
<1>10. ASSUME NEW e \in Enders, EndFinish(e) PROVE OffInv'
  <2>1. /\ ender[e] = "end" /\ ender' = [ender EXCEPT ![e] = "none"]
        /\ test'.state \notin Live /\ UNCHANGED <<terminal, base>>
        /\ history'.failed = history.failed /\ history'.overtaken = history.overtaken
    BY <1>10 DEF EndFinish, Over
  <2> QED
    BY <2>1
<1>11. CASE HearActive
  BY <1>11 DEF HearActive
<1>12. CASE BaseFaults
  BY <1>12 DEF BaseFaults, Off
<1>13. CASE /\ TickSilent \/ TickEnding \/ TickDiscards \/ TickStays \/ TickAdvances
               \/ TickEndsRun \/ TickEndsCoast \/ TickAborts
            /\ UNCHANGED <<mode, terminal, file>>
  <2>1. /\ base'.armed => base.armed
        /\ base'.control => base.control
        /\ history'.failed = history.failed /\ history'.overtaken = history.overtaken
        /\ history'.halted = history.halted
    BY <1>0, <1>13, TickBase, FedEffect, UnfedEffect
  <2>2. \/ test' = test /\ ender' = ender
        \/ /\ test.state \in Live /\ test'.state \in Live
           /\ \/ ender' = ender
              \/ \E call \in {"stop", "level_stop"} : ender' = [ender EXCEPT !["tick"] = call]
    BY <1>13, TickEffect
  <2>3. terminal' = terminal /\ (test.state \in Live => terminal = "none")
    BY <1>13
  <2> QED
    BY <2>1, <2>2, <2>3
<1> QED
  BY <1>1, <1>2, <1>3, <1>4, <1>5, <1>6, <1>7, <1>8, <1>9, <1>10, <1>11, <1>12, <1>13, StepCases

\* Every step keeps what is said of a vehicle that is fed.
LEMMA FedInvStep ==
  ASSUME DragType, TurnInv, OffInv, FedInv, [Next]_vars
  PROVE  FedInv'
<1>0. base \in Answers /\ history \in Histories
  BY DEF DragType, Answers, Histories
<1> USE DEF DragType, TurnInv, OffInv, FedInv, Clean, Live, Starting, Enders, States
<1>1. CASE UNCHANGED vars
  BY <1>1 DEF vars
<1>2. CASE Prepare \/ Localized
  <2>1. /\ UNCHANGED <<base, history>> /\ terminal' \notin Starting /\ test'.state \notin Live
    BY <1>2 DEF Prepare, Localized, Idle, Captured
  <2> QED
    BY <2>1
<1>3. CASE Start
  <2>1. /\ UNCHANGED <<test, base>> /\ ~history'.starved
        /\ test.state \notin Live /\ terminal = "none"
        /\ history'.failed = (history.failed /\ (base.armed \/ base.control))
        /\ history'.overtaken = (history.overtaken /\ (base.armed \/ base.control))
    BY <1>3 DEF Start, Idle
  <2> QED
    BY <2>1
<1>4. CASE StartArms \/ StartStarts \/ StartUndoes
  <2>1. PICK request \in {"arm", "start", "stop", "disarm"}, ok \in BOOLEAN : Call(request, ok)
    BY <1>4 DEF StartArms, StartStarts, StartUndoes
  <2>2. terminal \in Starting /\ test'.state \notin Live
    BY <1>4 DEF StartArms, StartStarts, StartUndoes, Answered
  <2>3. /\ history'.failed = (history.failed \/ ~ok) /\ history'.overtaken = history.overtaken
        /\ history'.starved = history.starved
        /\ base'.control => base'.first \/ (base.control /\ base'.first = base.first)
    BY <1>0, <2>1, CallEffect
  <2> QED
    BY <2>2, <2>3
<1>5. CASE StartGivesUp
  BY <1>5 DEF StartGivesUp, Answered
<1>6. CASE StartRuns
  <2>1. /\ terminal = "await" /\ terminal' = "none" /\ UNCHANGED <<base, history>>
        /\ test'.active
    BY <1>6 DEF StartRuns, Enter, NewSession
  <2> QED
    BY <2>1
<1>7. CASE EndLevel
  <2>1. test'.state \notin Live /\ UNCHANGED <<terminal, base, history>>
    BY <1>7 DEF EndLevel, Over
  <2> QED
    BY <2>1
<1>8. CASE Stop
  <2>1. /\ UNCHANGED <<terminal, base>>
        /\ test' = [test EXCEPT !.ending = TRUE]
        /\ history' = [history EXCEPT !.overtaken = history.overtaken \/ terminal \in Starting]
    BY <1>8 DEF Stop, BeginFinish
  <2>2. /\ history'.failed = history.failed /\ history'.starved = history.starved
        /\ ~history'.overtaken => ~history.overtaken
        /\ test'.ending /\ test'.state = test.state /\ test'.active = test.active
    BY <2>1
  <2> QED
    BY <2>1, <2>2
<1>9. ASSUME NEW e \in Enders, EnderCalls(e) PROVE FedInv'
  <2>1. PICK request \in {"stop", "disarm"}, ok \in BOOLEAN : Call(request, ok)
    BY <1>9 DEF EnderCalls
  <2>2. UNCHANGED <<test, terminal>>
    BY <1>9 DEF EnderCalls
  <2>3. /\ history'.failed = (history.failed \/ ~ok) /\ history'.overtaken = history.overtaken
        /\ history'.starved = history.starved
        /\ base'.control => base.control /\ base'.first = base.first
    BY <1>0, <2>1, CallEffect
  <2> QED
    BY <2>2, <2>3
<1>10. ASSUME NEW e \in Enders, EndFinish(e) PROVE FedInv'
  <2>1. /\ test'.state \notin Live /\ UNCHANGED <<terminal, base>>
        /\ history' = [history EXCEPT !.halted = history.halted \/ e = "stop"]
    BY <1>10 DEF EndFinish, Over
  <2>2. /\ history'.failed = history.failed /\ history'.overtaken = history.overtaken
        /\ history'.starved = history.starved
    BY <2>1
  <2> QED
    BY <2>1, <2>2
<1>11. CASE HearActive
  <2>1. /\ test.active # base.control /\ UNCHANGED <<terminal, base, history>>
        /\ test'.active = base.control /\ test'.state = test.state
        /\ test'.ending = test.ending
        /\ test.state \in Live => ~base.control
    BY <1>11 DEF HearActive
  <2> QED
    BY <2>1
<1>12. CASE BaseFaults
  BY <1>12 DEF BaseFaults, Off
<1>13. CASE /\ TickSilent \/ TickEnding \/ TickDiscards \/ TickStays \/ TickAdvances
               \/ TickEndsRun \/ TickEndsCoast \/ TickAborts
            /\ UNCHANGED <<mode, terminal, file>>
  <2>1. /\ test'.active = test.active /\ terminal' = terminal
        /\ test' = test \/ (test.state \in Live /\ ~test.ending /\ test'.state \in Live)
    BY <1>13, TickEffect
  <2>2. CASE Fed /\ test.state \in Live /\ (test.ending \/ ~test'.discard)
    <3>1. history' = history /\ base'.control = base.control /\ terminal \notin Starting
      BY <1>0, <2>2, FedEffect
    <3> QED
      BY <2>1, <2>2, <3>1
  <2>3. CASE Unfed /\ test' = test /\ test.state \notin Live
    <3>1. /\ base'.control => base.control /\ base'.first = base.first
          /\ history'.failed = history.failed /\ history'.overtaken = history.overtaken
          /\ ~base.control \/ base.first => history' = history
      BY <1>0, <2>3, UnfedEffect
    <3>2. Clean => ~base.control \/ base.first
      BY <2>3
    <3> QED
      BY <2>1, <2>3, <3>1, <3>2
  <2>4. CASE Unfed /\ test.state \in Live /\ ~test.ending /\ test.discard /\ ~test'.discard
    <3>1. /\ base'.control => base.control /\ base'.first = base.first
          /\ history'.failed = history.failed /\ history'.overtaken = history.overtaken
          /\ ~base.control \/ base.first => history' = history
      BY <1>0, <2>4, UnfedEffect
    <3>2. (Clean => ~base.control \/ base.first) /\ terminal \notin Starting
      BY <2>4
    <3> QED
      BY <2>1, <2>4, <3>1, <3>2
  <2> QED
    BY <1>13, <2>2, <2>3, <2>4, TickBase
<1> QED
  BY <1>1, <1>2, <1>3, <1>4, <1>5, <1>6, <1>7, <1>8, <1>9, <1>10, <1>11, <1>12, <1>13, StepCases

-----------------------------------------------------------------------------
\* The inductive invariant holds.
LEMMA DragInvariant == Spec => []DragInv
<1>1. Init => DragInv
  BY DragTypeInit, TurnInvInit, RecordInvInit, OffFedInit DEF DragInv
<1>2. DragInv /\ [Next]_vars => DragInv'
  BY DragTypeStep, TurnInvStep, RecordInvStep, OffInvStep, FedInvStep DEF DragInv
<1> QED
  BY <1>1, <1>2, PTL DEF Spec

\* The results of a session are its levels in order, for any number of levels and of
\* STARTs, aborts and STOPs in between, and a test that has stopped has saved them
\* (drag_test_node.py:800, :1052).
THEOREM RecordsComplete == Spec => []RecordIsComplete
<1>1. DragInv => RecordIsComplete
  <2> SUFFICES ASSUME DragInv PROVE RecordIsComplete
    OBVIOUS
  <2>1. DOMAIN results = 1 .. Len(results)
    BY LenProperties DEF DragInv, DragType
  <2>2. \A i \in DOMAIN results : results[i] = i - 1
    BY <2>1 DEF DragInv, RecordInv
  <2> QED
    BY <2>2 DEF DragInv, RecordInv, RecordIsComplete, Live
<1> QED
  BY DragInvariant, <1>1, PTL

\* A STOP that is answered leaves the vehicle disarmed, unless a call failed or a START
\* was under way (drag_test_node.py:823).
THEOREM StopsOff == Spec => []StoppedIsOff
<1>1. DragInv => StoppedIsOff
  BY DEF DragInv, OffInv, Clean, StoppedIsOff
<1> QED
  BY DragInvariant, <1>1, PTL

\* The node's own service calls never trip the PWM watchdog of obs_node, however short
\* it is (drag_test_node.py:848).
THEOREM WatchdogFed == Spec => []NeverStarved
<1>1. DragInv => NeverStarved
  BY DEF DragInv, FedInv, Clean, NeverStarved
<1> QED
  BY DragInvariant, <1>1, PTL

-----------------------------------------------------------------------------
(* The scripts.                                                            *)

Kinds == {"none", "velocity", "map"}
Stages == {"gate", "borrow", "arm", "pose", "hold", "level", "turn",
           "neutral", "disarm", "save", "close", "exited"}

ScriptType ==
  /\ script \in [kind : Kinds, stage : Stages, bursts : Nat, arm : BOOLEAN, armed : BOOLEAN]
  /\ vehicle \in [armed : BOOLEAN, rc : {"native", "neutral", "thrust", "released"},
                  borrowed : BOOLEAN]
  /\ trail \in [thrust : BOOLEAN, raised : BOOLEAN, saved : BOOLEAN]

\* A script of terminal velocity drives only in the try block of main, and every
\* way out of it leads through the finally block.  The thruster map arms inside
\* its try block and remembers that it did.
Unthrusting == {"gate", "borrow", "arm", "pose"}

ScriptInv ==
  /\ ScriptType
  /\ script.stage \in Unthrusting => ~trail.thrust
  /\ script.kind = "none" => script.stage = "exited" /\ ~trail.thrust
  /\ script.stage \in {"gate", "borrow"} => ~vehicle.armed
  /\ script.kind = "map" => script.stage \notin {"pose", "hold", "turn"}
  /\ script.kind = "map" /\ script.stage \in {"level", "neutral", "disarm"} /\ trail.thrust =>
       (vehicle.armed => script.armed)
  /\ script.stage \in {"save", "close", "exited"} /\ trail.thrust =>
       ~vehicle.armed /\ vehicle.rc # "native"
  /\ script.stage \in {"close", "exited"} /\ trail.thrust =>
       (script.kind = "velocity" => trail.saved)
  /\ trail.thrust => vehicle.rc # "native"
  /\ script.stage = "exited" /\ trail.thrust => vehicle.rc = "released" /\ ~vehicle.borrowed
  /\ script.stage = "level" /\ script.kind = "map" =>
       (vehicle.armed => script.armed)

\* The invariant holds of every script that has just begun, and of none.
LEMMA ScriptInvInit == ASSUME NEW kinds, ScriptInit(kinds) PROVE ScriptInv
<1>1. ScriptType
  <2>1. CASE script = NoScript
    BY <2>1 DEF ScriptInit, NoScript, ScriptType, Kinds, Stages
  <2>2. ASSUME NEW kind \in kinds \cap {"velocity", "map"}, NEW arm \in BOOLEAN,
               script = [kind |-> kind, stage |-> "gate", bursts |-> 0, arm |-> arm,
                         armed |-> FALSE]
        PROVE ScriptType
    BY <2>2 DEF ScriptInit, ScriptType, Kinds, Stages
  <2> QED
    BY <2>1, <2>2 DEF ScriptInit
<1>2. /\ script.stage \in {"gate", "exited"} /\ ~trail.thrust /\ ~vehicle.armed
      /\ script.kind = "none" => script.stage = "exited"
  BY DEF ScriptInit, NoScript
<1> QED
  BY <1>1, <1>2 DEF ScriptInv, Unthrusting

\* The invariant is inductive: one step per action.
LEMMA ScriptInvStep == ScriptInv /\ [ScriptNext]_script_vars => ScriptInv'
<1> SUFFICES ASSUME ScriptInv, [ScriptNext]_script_vars PROVE ScriptInv'
  OBVIOUS
<1> USE DEF ScriptInv, ScriptType, Kinds, Stages, Unthrusting
<1>1. CASE Gate
  BY <1>1 DEF Gate, Go
<1>2. CASE Borrow
  <2>1. CASE Go(IF script.arm THEN "arm" ELSE "level") /\ UNCHANGED trail
    BY <1>2, <2>1 DEF Borrow, Go
  <2>2. CASE Raises
    BY <1>2, <2>2 DEF Borrow, Raises, Handler, Go
  <2> QED
    BY <1>2, <2>1, <2>2 DEF Borrow
<1>3. CASE Arm
  <2>1. CASE /\ vehicle' = [vehicle EXCEPT !.armed = TRUE] /\ trail' = trail
             /\ script' = [script EXCEPT !.armed = TRUE,
                                         !.stage = IF script.kind = "map" THEN "level" ELSE "pose"]
    <3>1. CASE script.kind = "map"
      <4>1. script' = [script EXCEPT !.armed = TRUE, !.stage = "level"]
        BY <2>1, <3>1
      <4> QED
        BY <1>3, <2>1, <3>1, <4>1 DEF Arm
    <3>2. CASE script.kind # "map"
      <4>1. script' = [script EXCEPT !.armed = TRUE, !.stage = "pose"]
        BY <2>1, <3>2
      <4> QED
        BY <1>3, <2>1, <3>2, <4>1 DEF Arm
    <3> QED
      BY <3>1, <3>2
  <2>2. CASE /\ vehicle' \in {vehicle, [vehicle EXCEPT !.armed = TRUE]} /\ trail' = trail
             /\ Go("pose") /\ script.kind = "velocity"
    BY <1>3, <2>2 DEF Arm, Go
  <2>3. CASE /\ vehicle' \in {vehicle, [vehicle EXCEPT !.armed = TRUE]} /\ trail' = trail
             /\ Go(Handler(script)) /\ script.kind = "map"
    BY <1>3, <2>3 DEF Arm, Go, Handler
  <2>4. CASE vehicle' \in {vehicle, [vehicle EXCEPT !.armed = TRUE]} /\ Raises
    BY <1>3, <2>4 DEF Arm, Go, Raises, Handler
  <2> QED
    BY <1>3, <2>1, <2>2, <2>3, <2>4 DEF Arm
<1>4. CASE FirstPose
  BY <1>4 DEF FirstPose, Go
<1>5. CASE HoldSkipped
  BY <1>5 DEF HoldSkipped, Go
<1>6. CASE Drive
  BY <1>6 DEF Drive, Thrust
<1>7. CASE HoldEnds
  BY <1>7 DEF HoldEnds, Pauses, Neutral, Go
<1>8. CASE LevelEnds
  <2>1. script'.stage \in {"neutral", "turn", "level"} /\ script'.kind = script.kind
        /\ script'.armed = script.armed /\ (script'.stage = "turn" => script.kind = "velocity")
    BY <1>8 DEF LevelEnds, Pauses, Go
  <2>2. ScriptType'
    <3>1. vehicle' = [vehicle EXCEPT !.rc = "neutral"] /\ trail' = trail
      BY <1>8 DEF LevelEnds, Pauses, Neutral
    <3>2. script' \in [kind : Kinds, stage : Stages, bursts : Nat, arm : BOOLEAN,
                        armed : BOOLEAN]
      <4>1. CASE Go("neutral")
        BY <4>1 DEF Go
      <4>2. CASE ~Go("neutral")
        <5>1. PICK stage \in Stages :
                script' = [script EXCEPT !.bursts = @ + 1, !.stage = stage]
          BY <1>8, <4>2 DEF LevelEnds
        <5>2. script.bursts + 1 \in Nat
          OBVIOUS
        <5> QED
          BY <5>1, <5>2
      <4> QED
        BY <4>1, <4>2
    <3> QED
      BY <3>1, <3>2
  <2> QED
    BY <1>8, <2>1, <2>2 DEF LevelEnds, Pauses, Neutral
<1>9. CASE TurnEnds
  BY <1>9 DEF TurnEnds, Pauses, Neutral, Go
<1>10. CASE Interrupted
  BY <1>10 DEF Interrupted, Raises, Handler, Go
<1>11. CASE Cleanup
  <2>1. CASE script.stage = "neutral" /\ Go("disarm") /\ Neutral
    BY <2>1 DEF Go, Neutral
  <2>2. CASE script.stage = "disarm"
    BY <1>11, <2>2 DEF Cleanup, Go
  <2>3. CASE script.stage = "save"
    BY <1>11, <2>3 DEF Cleanup, Go
  <2> QED
    BY <1>11, <2>1, <2>2, <2>3 DEF Cleanup
<1>12. CASE Close
  BY <1>12 DEF Close, Go
<1>13. CASE UNCHANGED script_vars
  BY <1>13 DEF script_vars
<1> QED
  BY <1>1, <1>2, <1>3, <1>4, <1>5, <1>6, <1>7, <1>8, <1>9, <1>10, <1>11, <1>12, <1>13 DEF ScriptNext

\* A script that has driven the thrusters exits with the vehicle disarmed, the
\* channels released, the parameters given back and the record written: the
\* finally blocks of both scripts and close() (diag_terminal_velocity.py:764).
THEOREM ScriptsEndSafe ==
  ASSUME NEW kinds PROVE ScriptSpec(kinds) => []ScriptEndsSafe
<1>1. ScriptInv => ScriptEndsSafe
  BY DEF ScriptInv, ScriptEndsSafe
<1> QED
  BY ScriptInvInit, ScriptInvStep, <1>1, PTL DEF ScriptSpec
=============================================================================
