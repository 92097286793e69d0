-------------------------- MODULE DemoOrchestrator --------------------------
(***************************************************************************)
(* brov_bringup/demo_orchestrator_node.py: the operator's PREPARE, START   *)
(* and STOP, each a sequence of calls to the services of obs_node, of the  *)
(* mission manager, of the localizer and of the model controller.  One     *)
(* operation runs at a time (_operation_lock); the subscriptions run       *)
(* beside it.                                                              *)
(*                                                                         *)
(* A call that is not answered in time is abandoned, and the server may    *)
(* still carry it out: late counts such requests, and each of them may be  *)
(* overtaken by a bounded number of later requests.  pc is the service     *)
(* being called, or the condition being waited for; deadlines are free to  *)
(* pass at any time.                                                       *)
(***************************************************************************)
EXTENDS Integers, FiniteSets

CONSTANTS
  Model,             \* parameter controller = "model": it has its own services
  Poses,             \* poses [x, z] the vehicle may be found at
  SafeMin, SafeMax,  \* safe_min_xyz, safe_max_xyz, as [x, z]
  Segment,           \* case_a_segment_length_m
  TargetZ,           \* case_a_target_pool_z_m
  EntryLimit,        \* max_entry_distance_m
  None,
  MaxLate,           \* bound: abandoned requests at once
  MaxOvertake,       \* assumed: later requests that may overtake one
  MaxRestarts        \* bound: crashes of the orchestrator

ASSUME DemoAssumption ==
  /\ Model \in BOOLEAN
  /\ Poses \subseteq [x : Int, z : Int]
  /\ SafeMin \in [x : Int, z : Int] /\ SafeMax \in [x : Int, z : Int]
  /\ SafeMin.x < SafeMax.x /\ SafeMin.z < SafeMax.z
  /\ Segment \in Nat \ {0} /\ EntryLimit \in Nat \ {0}
  /\ TargetZ \in SafeMin.z .. SafeMax.z
  /\ {MaxLate, MaxOvertake, MaxRestarts} \subseteq Nat
  /\ None \notin [entry : [x : Int, z : Int], takeoff : [x : Int, z : Int],
                  end : [x : Int, z : Int]]

VARIABLES
  op, pc, answer,            \* the operation in progress, the service called or
                             \* the condition awaited, and the answer if any
  cleaning, clean,           \* in a cleanup, and nothing of it has failed yet
  prepared, active,          \* _prepared, _active
  control_active, pwm, path, \* what the subscriptions have received: pwm since
                             \* the start mark
  desired,                   \* the path PREPARE has generated
  report,                    \* the outcome of the latest operation
  told,                      \* history: an incomplete cleanup was reported and
                             \* none has been complete since
  late, overtaken,           \* abandoned requests by service
  base,                      \* obs_node
  mission,                   \* the mission manager
  control_msg, draft_msg,    \* messages on their way
  restarts

task == <<op, pc, answer, cleaning, clean, desired, report, told>>
flags == <<prepared, active>>
views == <<control_active, pwm, path>>
requests == <<late, overtaken>>
stack == <<base, mission, control_msg, draft_msg>>
vars == <<task, flags, views, requests, stack, restarts>>

Services == {"confirm_neutral", "initialize", "validate", "commit", "prepare",
             "arm", "start", "stop", "disarm", "controller_start",
             "controller_stop"}
Waits == {"samples", "initialized", "odometry", "path", "control", "pwm",
          "activate"}

\* The other services change nothing here, however late they are served.
Abandonable == Services \ {"confirm_neutral", "initialize",
                           "controller_start", "controller_stop"}

-----------------------------------------------------------------------------
(* The Case-A path.                                                        *)

Clamp(v, lower, upper) == IF v < lower THEN lower ELSE IF v > upper THEN upper ELSE v

SquaredDistance(a, b) ==
  (a.x - b.x) * (a.x - b.x) + (a.z - b.z) * (a.z - b.z)

EntryPoint(pose) == [x |-> Clamp(pose.x, SafeMin.x, SafeMax.x),
                     z |-> Clamp(pose.z, SafeMin.z, SafeMax.z)]

\* Towards the centre of the pool, unless only the other side has room.
EndX(x) ==
  LET towards == IF 2 * x <= SafeMin.x + SafeMax.x THEN x + Segment ELSE x - Segment
  IN IF towards \in SafeMin.x .. SafeMax.x THEN towards ELSE 2 * x - towards

\* Mutant: the end of the segment is not checked again after the turn.
CaseAFeasibleOnce(pose) ==
  LET entry == EntryPoint(pose)
  IN /\ SquaredDistance(pose, entry) <= EntryLimit * EntryLimit
     /\ entry.z # TargetZ

\* case_a_points raises ValueError otherwise.
CaseAFeasible(pose) ==
  LET entry == EntryPoint(pose)
  IN /\ SquaredDistance(pose, entry) <= EntryLimit * EntryLimit
     /\ entry.z # TargetZ
     /\ EndX(entry.x) \in SafeMin.x .. SafeMax.x

CaseAPath(pose) ==
  LET entry == EntryPoint(pose)
  IN [entry |-> entry,
      takeoff |-> [entry EXCEPT !.z = TargetZ],
      end |-> [x |-> EndX(entry.x), z |-> TargetZ]]

Paths == {CaseAPath(p) : p \in {q \in Poses : CaseAFeasible(q)}}

-----------------------------------------------------------------------------
Init ==
  /\ op = "none" /\ pc = "idle" /\ answer = "none"
  /\ cleaning = FALSE /\ clean = TRUE
  /\ prepared = FALSE /\ active = FALSE
  /\ control_active = FALSE /\ pwm = FALSE /\ path = None
  /\ desired = None /\ report = "none" /\ told = FALSE
  /\ late = [k \in Services |-> 0] /\ overtaken = [k \in Services |-> 0]
  /\ base = [prepared |-> FALSE, approved |-> FALSE, armed |-> FALSE,
             active |-> FALSE, published |-> FALSE]
  /\ mission = [draft |-> None, validated |-> None, committed |-> None]
  /\ control_msg = "none" /\ draft_msg = None
  /\ restarts = 0

-----------------------------------------------------------------------------
(* The operations.                                                         *)

Goto(step) == pc' = step /\ answer' = "none"

Finish(outcome) ==
  /\ op' = "none" /\ Goto("idle")
  /\ cleaning' = FALSE /\ clean' = TRUE
  /\ report' = outcome
  /\ told' = (outcome = "INCOMPLETE" \/ (told /\ outcome \notin {"IDLE", "FAILED CLEAN"}))

\* _cleanup_after_start_failure and _stop_impl go through the same services.
CleanUp ==
  /\ Goto("stop")
  /\ cleaning' = TRUE /\ clean' = TRUE
  /\ UNCHANGED <<op, report, told>>

CleanUpAfter(key) ==
  IF key = "stop" /\ Model THEN "controller_stop" ELSE "disarm"

\* Mutant: a START that fails is only reported.
FailOnly == Finish("FAILED")

\* The exception paths of _run: a failed START cleans up.
Fail ==
  IF op = "STARTING" THEN CleanUp ELSE Finish("FAILED")

\* _run takes the lock, _prepare_impl looks at the flags.
RequestPrepare ==
  /\ op = "none"
  /\ IF control_active \/ active
     THEN Finish("FAILED")
     ELSE \E initialized \in BOOLEAN :
            /\ op' = "PREPARING" /\ report' = "none"
            /\ Goto(IF initialized THEN "odometry" ELSE "confirm_neutral")
            /\ UNCHANGED <<cleaning, clean, told>>
  /\ desired' = None
  /\ UNCHANGED <<flags, views, requests, stack, restarts>>

\* _start_impl; a START that comes too early or twice cleans up as well.
RequestStart ==
  /\ op = "none"
  /\ op' = "STARTING" /\ report' = "none"
  /\ IF prepared /\ ~active /\ ~control_active
     THEN Goto("arm") /\ UNCHANGED <<cleaning, clean>>
     ELSE Goto("stop") /\ cleaning' = TRUE /\ clean' = TRUE
  /\ UNCHANGED <<desired, told, flags, views, requests, stack, restarts>>

RequestStop ==
  /\ op = "none"
  /\ op' = "STOPPING" /\ report' = "none"
  /\ Goto("stop") /\ cleaning' = TRUE /\ clean' = TRUE
  /\ UNCHANGED <<desired, told, flags, views, requests, stack, restarts>>

\* Mutant: a timeout during a cleanup ends it.
CleanUpStepOrQuit(okay) ==
  /\ cleaning
  /\ IF pc = "disarm" \/ ~okay
     THEN /\ Finish(IF op = "STOPPING" THEN "IDLE" ELSE "FAILED CLEAN")
          /\ prepared' = FALSE /\ active' = FALSE
     ELSE /\ Goto(CleanUpAfter(pc))
          /\ UNCHANGED <<op, cleaning, clean, report, told, flags>>

\* The next service of a cleanup; the flags are cleared at its end.
CleanUpStep(okay) ==
  /\ cleaning
  /\ IF pc = "disarm"
     THEN /\ Finish(IF ~(clean /\ okay) THEN "INCOMPLETE"
                    ELSE IF op = "STOPPING" THEN "IDLE" ELSE "FAILED CLEAN")
          /\ prepared' = FALSE /\ active' = FALSE
     ELSE /\ Goto(CleanUpAfter(pc))
          /\ clean' = (clean /\ okay)
          /\ UNCHANGED <<op, cleaning, report, told, flags>>

\* No answer within service_call_timeout_s, or no service at all.  A request that
\* was not served yet may be served later.
Timeout ==
  /\ pc \in Services
  /\ \/ UNCHANGED late
     \/ /\ answer = "none" /\ pc \in Abandonable /\ \A k \in Services : late[k] < MaxLate
        /\ late' = [late EXCEPT ![pc] = @ + 1]
  /\ \/ ~cleaning /\ Fail /\ UNCHANGED flags
     \/ CleanUpStep(FALSE)
  /\ UNCHANGED <<desired, views, overtaken, stack, restarts>>

\* What follows a successful call outside a cleanup.
Succeed ==
  /\ Goto(CASE pc = "confirm_neutral" -> "samples"
            [] pc = "initialize" -> "initialized"
            [] pc = "validate" -> "commit"
            [] pc = "commit" -> "path"
            [] pc = "arm" -> "start"
            [] pc = "start" -> "control"
            [] pc = "controller_start" -> "pwm"
            [] OTHER -> "idle")
  /\ UNCHANGED <<op, cleaning, clean, report, told, flags>>

\* The end of _prepare_impl.
Prepared ==
  /\ Finish("PREPARED")
  /\ prepared' = TRUE
  /\ UNCHANGED active

\* _call returns: success, a refusal, or a refusal that three callers retry
\* until their deadline.
Answered ==
  /\ answer # "none"
  /\ \/ cleaning /\ CleanUpStep(answer = "ok")
     \/ ~cleaning /\ answer = "ok" /\ IF pc = "prepare" THEN Prepared ELSE Succeed
     \/ ~cleaning /\ answer # "ok" /\ Fail /\ UNCHANGED flags
     \/ /\ ~cleaning /\ answer = "retry"
        /\ Goto(pc) \/ (pc = "initialize" /\ Goto("initialized"))
        /\ UNCHANGED <<op, cleaning, clean, report, told, flags>>
  /\ draft_msg' = IF pc = "validate" /\ answer = "retry" /\ op' # "none"
                  THEN desired ELSE draft_msg
  \* start_mark is taken after ARM has been answered
  /\ pwm' = (pwm /\ ~(pc = "arm" /\ answer = "ok"))
  /\ UNCHANGED <<desired, control_active, path, requests, base, mission,
                 control_msg, restarts>>

\* _wait_until times out, or its predicate raises.
GiveUp ==
  /\ pc \in Waits \ {"activate"}
  /\ Fail
  /\ UNCHANGED <<desired, flags, views, requests, stack, restarts>>

Waited(step) ==
  /\ Goto(step)
  /\ UNCHANGED <<op, cleaning, clean, report, told, flags, views, requests, base,
                 mission, control_msg, restarts>>

\* Localization status is data here.
Localized ==
  /\ \/ pc = "samples" /\ Waited("initialize")
     \/ pc = "initialized" /\ Waited("odometry")
  /\ UNCHANGED <<desired, draft_msg>>

\* A committed path is reused, otherwise one is generated from the pose and
\* published as a draft.
PathChosen ==
  /\ pc = "odometry"
  /\ IF path # None
     THEN Waited("prepare") /\ UNCHANGED <<desired, draft_msg>>
     ELSE \E pose \in Poses :
            /\ CaseAFeasible(pose)
            /\ Waited("validate")
            /\ desired' = CaseAPath(pose) /\ draft_msg' = desired'

PathCommitted ==
  /\ pc = "path" /\ path # None /\ path = desired
  /\ Waited("prepare")
  /\ UNCHANGED <<desired, draft_msg>>

ControlSeen ==
  /\ pc = "control" /\ control_active
  /\ Waited(IF Model THEN "controller_start" ELSE "pwm")
  /\ UNCHANGED <<desired, draft_msg>>

PwmSeen ==
  /\ pc = "pwm" /\ pwm
  /\ Waited("activate")
  /\ UNCHANGED <<desired, draft_msg>>

\* The subscription may have cleared _active in the meantime.
Activate ==
  /\ pc = "activate"
  /\ Finish("ACTIVE")
  /\ active' = TRUE
  /\ UNCHANGED <<desired, prepared, views, requests, stack, restarts>>

-----------------------------------------------------------------------------
(* The services.                                                           *)

\* Assumed: a /brov/control_active that is no longer true has been delivered by
\* the time a later request is served.
NoStaleMessage == control_msg = "on" => base.active

\* The server takes the oldest request of a service; an answer to an abandoned
\* one is dropped.
Served(key, result) ==
  /\ \/ /\ late[key] > 0
        /\ late' = [late EXCEPT ![key] = @ - 1]
        /\ overtaken' = [overtaken EXCEPT ![key] = 0]
        /\ UNCHANGED answer
     \/ /\ late[key] = 0 /\ pc = key /\ answer = "none" /\ NoStaleMessage
        /\ \A k \in Services : late[k] > 0 => overtaken[k] < MaxOvertake
        /\ overtaken' = [k \in Services |->
                           IF late[k] > 0 THEN overtaken[k] + 1 ELSE 0]
        /\ answer' = result
        /\ UNCHANGED late
  /\ UNCHANGED <<op, pc, cleaning, clean, desired, report, told, flags,
                 views, restarts>>

\* The localizer's services change nothing that is modelled here.
ServeLocalizer ==
  /\ \/ \E r \in {"ok", "refused"} : Served("confirm_neutral", r)
     \/ \E r \in {"ok", "retry", "refused"} : Served("initialize", r)
  /\ UNCHANGED stack

\* mission_manager_node, _on_validate: no draft yet, or a verdict on it.
ServeValidate ==
  /\ \/ /\ mission.draft = None
        /\ Served("validate", "retry")
        /\ UNCHANGED mission
     \/ /\ mission.draft # None
        /\ Served("validate", "ok")
        /\ mission' = [mission EXCEPT !.validated = mission.draft]
     \/ /\ mission.draft # None
        /\ Served("validate", "refused")
        /\ mission' = [mission EXCEPT !.validated = None]
  /\ UNCHANGED <<base, control_msg, draft_msg>>

\* _on_commit: once per process, and repeated for the same plan.
ServeCommit ==
  /\ \/ /\ mission.validated # None /\ mission.committed \in {None, mission.validated}
        /\ Served("commit", "ok")
        /\ mission' = [mission EXCEPT !.committed = mission.validated]
     \/ /\ mission.validated # None
        /\ Served("commit", "refused")
        /\ \/ mission' = [mission EXCEPT !.validated = None]
           \/ mission.committed \notin {None, mission.validated} /\ UNCHANGED mission
     \/ /\ mission.validated = None
        /\ Served("commit", "refused") /\ UNCHANGED mission
  /\ UNCHANGED <<base, control_msg, draft_msg>>

BaseOnly == UNCHANGED <<mission, control_msg, draft_msg>>

Released == [base EXCEPT !.prepared = FALSE, !.approved = FALSE,
                         !.active = FALSE, !.published = FALSE]
Disarmed == [Released EXCEPT !.armed = FALSE]

\* _on_prepare_control
ServePrepare ==
  /\ \/ /\ base.active
        /\ Served("prepare", "refused") /\ UNCHANGED base
     \/ /\ ~base.active /\ base.armed
        /\ Served("prepare", "refused") /\ base' = Disarmed
     \/ /\ ~base.active /\ ~base.armed
        /\ \/ /\ mission.committed # None
              /\ Served("prepare", "ok")
              /\ base' = [Released EXCEPT !.prepared = TRUE]
           \/ Served("prepare", "refused") /\ base' = Released
  /\ BaseOnly

\* _on_arm_control, at its approval or at its refusal or revocation.
ServeArm ==
  /\ \/ /\ base.prepared /\ ~base.active
        /\ Served("arm", "ok")
        /\ base' = [base EXCEPT !.approved = TRUE, !.armed = TRUE]
     \/ /\ Served("arm", "refused")
        /\ base' = base \/ (~base.active /\ base' = Disarmed)
  /\ BaseOnly

\* _on_start_control
ServeStart ==
  /\ \/ /\ base.approved /\ base.armed /\ base.prepared /\ ~base.active
        /\ Served("start", "ok")
        /\ base' = [base EXCEPT !.active = TRUE, !.published = FALSE]
     \/ Served("start", "refused") /\ UNCHANGED base
  /\ BaseOnly

\* _on_stop_control: the vehicle stays armed.
ServeStop ==
  /\ Served("stop", "ok")
  /\ base' = Released
  /\ BaseOnly

\* _on_disarm_control: a command that cannot be sent is reported.
ServeDisarm ==
  /\ \/ Served("disarm", "ok") /\ base' = Disarmed
     \/ Served("disarm", "refused") /\ base' = Released
  /\ BaseOnly

\* The model controller's services, after its own view of control_active and of
\* its observation (module Controllers).
ServeController ==
  /\ Model
  /\ \/ \E r \in {"ok", "retry", "refused"} : Served("controller_start", r)
     \/ Served("controller_stop", "ok")
  /\ UNCHANGED stack

Serve ==
  \/ ServeLocalizer \/ ServeValidate \/ ServeCommit \/ ServePrepare \/ ServeArm
  \/ ServeStart \/ ServeStop \/ ServeDisarm \/ ServeController

-----------------------------------------------------------------------------
(* obs_node on its own, and the topics.                                    *)

Outside == UNCHANGED <<task, requests, restarts>>

\* Every tick repeats /brov/control_active; it says true once the session has
\* published an observation.
BaseTick ==
  /\ control_msg' = IF base.active /\ base.published THEN "on" ELSE "off"
  /\ base' = [base EXCEPT !.published = base.active]
  /\ Outside /\ UNCHANGED <<flags, views, mission, draft_msg>>

\* A fault, the end of a mission, or an approval that was not used in time.
BaseGivesUp ==
  /\ base.active \/ base.approved
  /\ base' = Disarmed
  /\ Outside /\ UNCHANGED <<flags, views, mission, control_msg, draft_msg>>

\* Mutant: _active follows only the orchestrator's own operations.
OnControlActiveForgetful ==
  /\ control_msg # "none" /\ control_msg' = "none"
  /\ control_active' = (control_msg = "on")
  /\ Outside /\ UNCHANGED <<flags, pwm, path, base, mission, draft_msg>>

OnControlActive ==
  /\ control_msg # "none" /\ control_msg' = "none"
  /\ control_active' = (control_msg = "on")
  /\ active' = (active /\ control_active')
  /\ Outside /\ UNCHANGED <<prepared, pwm, path, base, mission, draft_msg>>

\* A controller's PWM, at any time.
OnPwm ==
  /\ ~pwm
  /\ pwm' = TRUE
  /\ Outside /\ UNCHANGED <<flags, control_active, path, stack>>

\* The latched /brov/mission/active_path_pool.
OnActivePath ==
  /\ path # mission.committed
  /\ path' = mission.committed
  /\ Outside /\ UNCHANGED <<flags, control_active, pwm, stack>>

\* The draft arrives at the mission manager, in no order with its services.
DraftArrives ==
  /\ draft_msg # None /\ draft_msg' = None
  /\ mission' = IF draft_msg = mission.draft THEN mission
                ELSE [mission EXCEPT !.draft = draft_msg, !.validated = None]
  /\ Outside /\ UNCHANGED <<flags, views, base, control_msg>>

\* The process dies in the middle of anything and is started again.
Restart ==
  /\ restarts < MaxRestarts /\ restarts' = restarts + 1
  /\ \/ UNCHANGED late
     \/ /\ pc \in Abandonable /\ answer = "none" /\ \A k \in Services : late[k] < MaxLate
        /\ late' = [late EXCEPT ![pc] = @ + 1]
  /\ Finish("none")
  /\ desired' = None
  /\ prepared' = FALSE /\ active' = FALSE
  /\ control_active' = FALSE /\ pwm' = FALSE /\ path' = None
  /\ UNCHANGED <<overtaken, stack>>

Operate ==
  \/ Timeout \/ Answered \/ GiveUp
  \/ Localized \/ PathChosen \/ PathCommitted \/ ControlSeen \/ PwmSeen \/ Activate

Next ==
  \/ RequestPrepare \/ RequestStart \/ RequestStop
  \/ Operate \/ Serve
  \/ BaseTick \/ BaseGivesUp
  \/ OnControlActive \/ OnPwm \/ OnActivePath \/ DraftArrives
  \/ Restart

Spec == Init /\ [][Next]_vars

\* Ticks come, their messages are delivered.
Fairness == WF_vars(BaseTick) /\ WF_vars(OnControlActive)

FairSpec == Spec /\ Fairness

-----------------------------------------------------------------------------
(* Properties.                                                             *)

Reports == {"none", "PREPARED", "ACTIVE", "IDLE", "FAILED", "FAILED CLEAN",
            "INCOMPLETE"}

\* Type invariant.
TypeOK ==
  /\ op \in {"none", "PREPARING", "STARTING", "STOPPING"}
  /\ pc \in {"idle"} \cup Services \cup Waits
  /\ answer \in {"none", "ok", "retry", "refused"}
  /\ {cleaning, clean, told, prepared, active, control_active, pwm} \subseteq BOOLEAN
  /\ {path, desired, draft_msg} \subseteq Paths \cup {None}
  /\ report \in Reports
  /\ late \in [Services -> 0 .. MaxLate]
  /\ overtaken \in [Services -> 0 .. MaxOvertake]
  /\ base \in [prepared : BOOLEAN, approved : BOOLEAN, armed : BOOLEAN,
               active : BOOLEAN, published : BOOLEAN]
  /\ mission \in [draft : Paths \cup {None}, validated : Paths \cup {None},
                  committed : Paths \cup {None}]
  /\ control_msg \in {"none", "on", "off"}
  /\ restarts \in 0 .. MaxRestarts

\* Whatever timed out, a START that failed with a complete cleanup and a STOP
\* that succeeded leave the vehicle disarmed with its gate closed, and requests
\* that were abandoned on the way do not undo that afterwards.
CleanOutcomeHolds ==
  op = "none" /\ report \in {"IDLE", "FAILED CLEAN"} =>
    ~base.active /\ ~base.approved /\ ~base.armed

\* The vehicle is under control only while an operation runs, after a START
\* that succeeded, or after a cleanup that was reported incomplete.
NoOrphanControl ==
  base.active /\ restarts = 0 => op # "none" \/ active \/ told

\* A committed Case-A path rises vertically from near where the vehicle was and
\* stays inside the safe box, whatever the pose.
CommittedPathIsSafe ==
  mission.committed # None =>
    LET p == mission.committed
    IN /\ \A w \in {p.entry, p.takeoff, p.end} :
            w.x \in SafeMin.x .. SafeMax.x /\ w.z \in SafeMin.z .. SafeMax.z
       /\ p.takeoff.x = p.entry.x /\ p.takeoff.z = p.end.z
       /\ SquaredDistance(p.takeoff, p.end) = Segment * Segment
       /\ \E pose \in Poses :
            SquaredDistance(pose, p.entry) <= EntryLimit * EntryLimit

\* A demo that is marked active while obs_node is not does not stay marked.
ActiveFollowsBase == active /\ ~base.active ~> ~active
=============================================================================
