------------------------ MODULE DemoOrchestratorProofs ------------------------
(* Proofs about DemoOrchestrator, for every pool, either controller and any   *)
(* number of abandoned requests and crashes.                                  *)
EXTENDS DemoOrchestrator, TLAPS

-----------------------------------------------------------------------------
(* The Case-A path.                                                        *)

InBox(w) == w.x \in SafeMin.x .. SafeMax.x /\ w.z \in SafeMin.z .. SafeMax.z

\* Clamping puts a coordinate between its limits.
LEMMA ClampBetween ==
  ASSUME NEW v \in Int, NEW lower \in Int, NEW upper \in Int, lower < upper
  PROVE  Clamp(v, lower, upper) \in lower .. upper
BY DEF Clamp

\* The end of the path is a segment away, on one side or the other.
LEMMA EndIsSegmentAway ==
  ASSUME NEW x \in Int
  PROVE  EndX(x) \in {x + Segment, x - Segment}
BY DemoAssumption DEF EndX

\* case_a_points, for any pool and any pose it accepts: the vehicle is near the entry, the
\* rise is vertical, the segment has its length and all of it is in the safe box.
LEMMA CaseAPathIsSafe ==
  ASSUME NEW p \in Paths
  PROVE  /\ InBox(p.entry) /\ InBox(p.takeoff) /\ InBox(p.end)
         /\ p.takeoff.x = p.entry.x /\ p.takeoff.z = p.end.z
         /\ SquaredDistance(p.takeoff, p.end) = Segment * Segment
         /\ \E pose \in Poses : SquaredDistance(pose, p.entry) <= EntryLimit * EntryLimit
<1>1. PICK pose \in Poses : CaseAFeasible(pose) /\ p = CaseAPath(pose)
  BY DEF Paths
<1> DEFINE entry == EntryPoint(pose)
<1>2. pose.x \in Int /\ pose.z \in Int /\ SafeMin.x \in Int /\ SafeMax.x \in Int
      /\ SafeMin.z \in Int /\ SafeMax.z \in Int /\ SafeMin.x < SafeMax.x
      /\ SafeMin.z < SafeMax.z /\ Segment \in Int /\ TargetZ \in SafeMin.z .. SafeMax.z
  BY DemoAssumption
<1>3. entry.x \in SafeMin.x .. SafeMax.x /\ entry.z \in SafeMin.z .. SafeMax.z
  BY <1>2, ClampBetween DEF EntryPoint
<1>4. EndX(entry.x) \in SafeMin.x .. SafeMax.x
      /\ SquaredDistance(pose, entry) <= EntryLimit * EntryLimit
  BY <1>1 DEF CaseAFeasible
<1>5. EndX(entry.x) \in {entry.x + Segment, entry.x - Segment}
  BY <1>2, <1>3, EndIsSegmentAway
<1>6. /\ p.entry = entry /\ p.end.x = EndX(entry.x) /\ p.end.z = TargetZ
      /\ p.takeoff.x = entry.x /\ p.takeoff.z = TargetZ
  BY <1>1 DEF CaseAPath, EntryPoint
<1> HIDE DEF entry
<1>7. InBox(p.entry) /\ InBox(p.takeoff) /\ InBox(p.end)
  BY <1>2, <1>3, <1>4, <1>6 DEF InBox
<1>8. SquaredDistance(p.takeoff, p.end) = Segment * Segment
  <2>1. /\ (entry.x - EndX(entry.x)) * (entry.x - EndX(entry.x)) = Segment * Segment
        /\ (TargetZ - TargetZ) * (TargetZ - TargetZ) = 0
    BY <1>2, <1>3, <1>5
  <2> QED
    BY <1>2, <1>6, <2>1 DEF SquaredDistance
<1> QED
  BY <1>4, <1>6, <1>7, <1>8

-----------------------------------------------------------------------------
(* Types.                                                                  *)

TaskType ==
  /\ op \in {"none", "PREPARING", "STARTING", "STOPPING"}
  /\ pc \in {"idle"} \cup Services \cup Waits
  /\ answer \in {"none", "ok", "retry", "refused"}
  /\ cleaning \in BOOLEAN /\ clean \in BOOLEAN /\ told \in BOOLEAN
  /\ prepared \in BOOLEAN /\ active \in BOOLEAN
  /\ report \in Reports
ViewType == control_active \in BOOLEAN /\ pwm \in BOOLEAN /\ path \in Paths \cup {None}
PathType ==
  /\ desired \in Paths \cup {None} /\ draft_msg \in Paths \cup {None}
  /\ mission \in [draft : Paths \cup {None}, validated : Paths \cup {None},
                  committed : Paths \cup {None}]
RequestType == late \in [Services -> 0 .. MaxLate] /\ overtaken \in [Services -> 0 .. MaxOvertake]
BaseType ==
  /\ base \in [prepared : BOOLEAN, approved : BOOLEAN, armed : BOOLEAN,
               active : BOOLEAN, published : BOOLEAN]
  /\ control_msg \in {"none", "on", "off"}
  /\ restarts \in 0 .. MaxRestarts

\* TypeOK by its parts.
LEMMA TypeParts ==
  TypeOK <=> TaskType /\ ViewType /\ PathType /\ RequestType /\ BaseType
BY DEF TypeOK, TaskType, ViewType, PathType, RequestType, BaseType

\* What the server does to the requests and to the task.
LEMMA ServedEffect ==
  ASSUME TaskType, RequestType, NEW key \in Services, NEW result \in {"ok", "retry", "refused"},
         Served(key, result)
  PROVE  /\ RequestType'
         /\ answer' \in {answer, result}
         /\ UNCHANGED <<op, pc, cleaning, clean, desired, report, told, flags, views, restarts>>
<1>1. CASE late[key] > 0 /\ late' = [late EXCEPT ![key] = @ - 1]
           /\ overtaken' = [overtaken EXCEPT ![key] = 0]
  BY <1>1, DemoAssumption DEF Served, RequestType
<1>2. CASE overtaken' = [k \in Services |-> IF late[k] > 0 THEN overtaken[k] + 1 ELSE 0]
           /\ (\A k \in Services : late[k] > 0 => overtaken[k] < MaxOvertake) /\ UNCHANGED late
  BY <1>2, DemoAssumption DEF Served, RequestType
<1> QED
  BY <1>1, <1>2 DEF Served

\* obs_node, control released, and disarmed as well.
LEMMA ReleasedFields ==
  ASSUME BaseType
  PROVE  /\ Released \in [prepared : BOOLEAN, approved : BOOLEAN, armed : BOOLEAN,
                          active : BOOLEAN, published : BOOLEAN]
         /\ Disarmed \in [prepared : BOOLEAN, approved : BOOLEAN, armed : BOOLEAN,
                          active : BOOLEAN, published : BOOLEAN]
         /\ Released.armed = base.armed
         /\ ~Released.prepared /\ ~Released.approved /\ ~Released.active /\ ~Released.published
         /\ ~Disarmed.prepared /\ ~Disarmed.approved /\ ~Disarmed.active /\ ~Disarmed.published
         /\ ~Disarmed.armed
BY DEF Released, Disarmed, BaseType

Results == {"ok", "retry", "refused"}

\* What serving a request may do to obs_node: only START begins control, only ARM arms, DISARM
\* ends both.
BaseEffect(key, result) ==
  /\ base' \in [prepared : BOOLEAN, approved : BOOLEAN, armed : BOOLEAN,
                active : BOOLEAN, published : BOOLEAN]
  /\ control_msg' = control_msg
  /\ base'.active /\ ~base.active => key = "start" /\ result = "ok"
  /\ base'.approved /\ ~base.approved => key = "arm"
  /\ base'.armed /\ ~base.armed => key = "arm"
  /\ base'.active /\ base.active => base'.published = base.published
  /\ key = "disarm" /\ result = "ok" => ~base'.active /\ ~base'.approved /\ ~base'.armed
  /\ key = "prepare" /\ result = "ok" => ~base.active

MissionEffect ==
  /\ draft_msg' = draft_msg
  /\ mission' \in [draft : Paths \cup {None}, validated : Paths \cup {None},
                   committed : Paths \cup {None}]

\* Every service is one of these.
LEMMA ServeEffect ==
  ASSUME PathType, BaseType, Serve
  PROVE  \E key \in Services, result \in Results :
           Served(key, result) /\ BaseEffect(key, result) /\ MissionEffect
<1> USE DEF Services, Results
<1>1. CASE ServeLocalizer \/ ServeController
  <2>1. \A key \in Services, result \in Results :
          key \notin {"prepare", "disarm"} => BaseEffect(key, result)
    BY <1>1 DEF ServeLocalizer, ServeController, stack, BaseEffect, BaseType
  <2>2. MissionEffect
    BY <1>1 DEF ServeLocalizer, ServeController, stack, MissionEffect, PathType
  <2> QED
    BY <1>1, <2>1, <2>2 DEF ServeLocalizer, ServeController
<1>2. CASE ServePrepare \/ ServeArm \/ ServeStart \/ ServeStop \/ ServeDisarm
  <2>1. MissionEffect /\ control_msg' = control_msg
    BY <1>2 DEF ServePrepare, ServeArm, ServeStart, ServeStop, ServeDisarm, BaseOnly,
       MissionEffect, PathType
  <2>2. CASE ServePrepare
    <3>1. \/ base.active /\ Served("prepare", "refused") /\ base' = base
          \/ ~base.active /\ Served("prepare", "refused") /\ base' \in {Disarmed, Released}
          \/ ~base.active /\ Served("prepare", "ok")
               /\ base' = [Released EXCEPT !.prepared = TRUE]
      BY <2>2 DEF ServePrepare
    <3>2. \E result \in Results : Served("prepare", result) /\ BaseEffect("prepare", result)
      BY <2>1, <3>1, ReleasedFields DEF BaseEffect, BaseType
    <3> QED
      BY <2>1, <3>2
  <2>3. CASE ServeArm
    <3>1. \/ /\ Served("arm", "ok") /\ ~base.active
             /\ base' = [base EXCEPT !.approved = TRUE, !.armed = TRUE]
          \/ Served("arm", "refused") /\ base' \in {base, Disarmed}
      BY <2>3 DEF ServeArm
    <3>2. \E result \in Results : Served("arm", result) /\ BaseEffect("arm", result)
      BY <2>1, <3>1, ReleasedFields DEF BaseEffect, BaseType
    <3> QED
      BY <2>1, <3>2
  <2>4. CASE ServeStart
    <3>1. \/ /\ Served("start", "ok") /\ ~base.active
             /\ base' = [base EXCEPT !.active = TRUE, !.published = FALSE]
          \/ Served("start", "refused") /\ base' = base
      BY <2>4 DEF ServeStart
    <3>2. \E result \in Results : Served("start", result) /\ BaseEffect("start", result)
      BY <2>1, <3>1 DEF BaseEffect, BaseType
    <3> QED
      BY <2>1, <3>2
  <2>5. CASE ServeStop
    <3>1. BaseEffect("stop", "ok")
      BY <2>1, <2>5, ReleasedFields DEF ServeStop, BaseEffect, BaseType
    <3> QED
      BY <2>1, <2>5, <3>1 DEF ServeStop
  <2>6. CASE ServeDisarm
    <3>1. \/ Served("disarm", "ok") /\ base' = Disarmed
          \/ Served("disarm", "refused") /\ base' = Released
      BY <2>6 DEF ServeDisarm
    <3>2. \E result \in Results : Served("disarm", result) /\ BaseEffect("disarm", result)
      BY <2>1, <3>1, ReleasedFields DEF BaseEffect, BaseType
    <3> QED
      BY <2>1, <3>2
  <2> QED
    BY <1>2, <2>2, <2>3, <2>4, <2>5, <2>6
<1>3. CASE ServeValidate \/ ServeCommit
  <2>1. MissionEffect
    BY <1>3 DEF ServeValidate, ServeCommit, MissionEffect, PathType
  <2>2. PICK key \in {"validate", "commit"}, result \in Results : Served(key, result)
    BY <1>3 DEF ServeValidate, ServeCommit
  <2>3. BaseEffect(key, result)
    BY <1>3 DEF ServeValidate, ServeCommit, BaseEffect, BaseType
  <2> QED
    BY <2>1, <2>2, <2>3
<1> QED
  BY <1>1, <1>2, <1>3 DEF Serve

-----------------------------------------------------------------------------
\* What the ends of the operations are.
LEMMA FinishType ==
  ASSUME NEW outcome \in Reports, told \in BOOLEAN, Finish(outcome)
  PROVE  /\ op' = "none" /\ pc' = "idle" /\ answer' = "none"
         /\ cleaning' = FALSE /\ clean' = TRUE /\ report' = outcome /\ told' \in BOOLEAN
BY DEF Finish, Goto

\* A failure, in the middle of an operation, keeps the types.
LEMMA FailType ==
  ASSUME TaskType, Fail, UNCHANGED flags
  PROVE  TaskType'
<1> USE DEF TaskType, flags
<1>1. CASE op = "STARTING"
  BY <1>1 DEF Fail, CleanUp, Goto, Services
<1>2. CASE op # "STARTING"
  BY <1>2, FinishType, "FAILED" \in Reports DEF Fail, Reports
<1> QED
  BY <1>1, <1>2

\* So does a step of a cleanup.
LEMMA CleanUpType ==
  ASSUME TaskType, NEW okay \in BOOLEAN, CleanUpStep(okay)
  PROVE  TaskType'
<1> USE DEF TaskType, flags
<1>1. CASE pc = "disarm"
  <2>1. PICK outcome \in {"INCOMPLETE", "IDLE", "FAILED CLEAN"} : Finish(outcome)
    BY <1>1 DEF CleanUpStep
  <2>2. outcome \in Reports
    BY DEF Reports
  <2> QED
    BY <1>1, <2>1, <2>2, FinishType DEF CleanUpStep
<1>2. CASE pc # "disarm"
  BY <1>2 DEF CleanUpStep, CleanUpAfter, Goto, Services
<1> QED
  BY <1>1, <1>2

\* The task keeps its types, whatever the operator, the clock and the answers do.
LEMMA TaskTypeStep ==
  ASSUME TaskType, RequestPrepare \/ RequestStart \/ RequestStop \/ Operate
  PROVE  TaskType'
<1> USE DEF TaskType, flags
<1>1. CASE RequestPrepare
  <2>1. CASE Finish("FAILED")
    BY <1>1, <2>1, FinishType DEF RequestPrepare, Reports
  <2>2. CASE ~(control_active \/ active)
    BY <1>1, <2>2 DEF RequestPrepare, Goto, Services, Waits, Reports
  <2> QED
    BY <1>1, <2>1, <2>2 DEF RequestPrepare
<1>2. CASE RequestStart \/ RequestStop
  BY <1>2 DEF RequestStart, RequestStop, Goto, Services, Reports
<1>3. CASE Timeout
  BY <1>3, FailType, CleanUpType DEF Timeout
<1>4. CASE Answered
  <2>1. CASE cleaning /\ CleanUpStep(answer = "ok")
    BY <2>1, CleanUpType
  <2>2. CASE Prepared
    BY <2>2, FinishType DEF Prepared, Reports
  <2>3. CASE Succeed
    BY <2>3 DEF Succeed, Goto, Services, Waits
  <2>4. CASE Fail /\ UNCHANGED flags
    BY <2>4, FailType
  <2>5. CASE /\ Goto(pc) \/ Goto("initialized")
             /\ UNCHANGED <<op, cleaning, clean, report, told, flags>>
    BY <2>5 DEF Goto, Waits
  <2> QED
    BY <1>4, <2>1, <2>2, <2>3, <2>4, <2>5 DEF Answered
<1>5. CASE GiveUp
  BY <1>5, FailType DEF GiveUp
<1>6. CASE Localized \/ PathChosen \/ PathCommitted \/ ControlSeen \/ PwmSeen
  BY <1>6 DEF Localized, PathChosen, PathCommitted, ControlSeen, PwmSeen, Waited, Goto,
     Services, Waits
<1>7. CASE Activate
  BY <1>7, FinishType DEF Activate, Reports
<1> QED
  BY <1>1, <1>2, <1>3, <1>4, <1>5, <1>6, <1>7 DEF Operate

\* What an operation leaves alone, or at most abandons.
LEMMA TaskLeaves ==
  ASSUME ViewType, PathType, RequestType, BaseType,
         RequestPrepare \/ RequestStart \/ RequestStop \/ Operate
  PROVE  ViewType' /\ PathType' /\ RequestType' /\ BaseType'
<1> USE DEF ViewType, PathType, RequestType, BaseType, views, requests, stack, flags
<1>1. CASE RequestPrepare \/ RequestStart \/ RequestStop
  BY <1>1 DEF RequestPrepare, RequestStart, RequestStop
<1>2. CASE Timeout
  <2>1. late' \in [Services -> 0 .. MaxLate]
    BY <1>2, DemoAssumption DEF Timeout, Abandonable
  <2> QED
    BY <1>2, <2>1 DEF Timeout
<1>3. CASE Answered
  BY <1>3 DEF Answered
<1>4. CASE GiveUp \/ Activate
  BY <1>4 DEF GiveUp, Activate
<1>5. CASE Localized \/ PathCommitted \/ ControlSeen \/ PwmSeen
  BY <1>5 DEF Localized, PathCommitted, ControlSeen, PwmSeen, Waited
<1>6. CASE PathChosen
  <2>1. desired' \in Paths \cup {None} /\ draft_msg' \in Paths \cup {None}
    BY <1>6 DEF PathChosen, Paths
  <2> QED
    BY <1>6, <2>1 DEF PathChosen, Waited
<1> QED
  BY <1>1, <1>2, <1>3, <1>4, <1>5, <1>6 DEF Operate

\* Every variable keeps its type: one step per action.
LEMMA TypeStep == TypeOK /\ [Next]_vars => TypeOK'
<1> SUFFICES ASSUME TaskType, ViewType, PathType, RequestType, BaseType, [Next]_vars
             PROVE  TaskType' /\ ViewType' /\ PathType' /\ RequestType' /\ BaseType'
  BY TypeParts DEF TypeOK, TaskType, ViewType, PathType, RequestType, BaseType
<1> USE DEF task, flags, views, requests, stack, Outside
<1>1. CASE RequestPrepare \/ RequestStart \/ RequestStop \/ Operate
  BY <1>1, TaskTypeStep, TaskLeaves
<1>2. CASE Serve
  <2>1. PICK key \in Services, result \in Results :
          Served(key, result) /\ BaseEffect(key, result) /\ MissionEffect
    BY <1>2, ServeEffect
  <2>2. /\ RequestType' /\ answer' \in {answer, result}
        /\ UNCHANGED <<op, pc, cleaning, clean, desired, report, told, flags, views, restarts>>
    BY <2>1, ServedEffect DEF Results
  <2>3. PathType' /\ BaseType'
    BY <2>1, <2>2 DEF PathType, BaseType, BaseEffect, MissionEffect
  <2> QED
    BY <2>2, <2>3 DEF TaskType, ViewType, Results
<1>3. CASE BaseTick \/ BaseGivesUp
  <2>1. BaseType'
    BY <1>3, ReleasedFields DEF BaseTick, BaseGivesUp, BaseType
  <2> QED
    BY <1>3, <2>1 DEF BaseTick, BaseGivesUp, TaskType, ViewType, PathType, RequestType
<1>4. CASE OnControlActive
  BY <1>4 DEF OnControlActive, TaskType, ViewType, PathType, RequestType, BaseType
<1>5. CASE OnPwm \/ OnActivePath
  <2>1. mission.committed \in Paths \cup {None}
    BY DEF PathType
  <2>2. ViewType'
    BY <1>5, <2>1 DEF OnPwm, OnActivePath, ViewType
  <2> QED
    BY <1>5, <2>2 DEF OnPwm, OnActivePath, TaskType, PathType, RequestType, BaseType
<1>6. CASE DraftArrives
  <2>1. PathType'
    BY <1>6 DEF DraftArrives, PathType
  <2> QED
    BY <1>6, <2>1 DEF DraftArrives, TaskType, ViewType, RequestType, BaseType
<1>7. CASE Restart
  <2>1. TaskType'
    BY <1>7, FinishType DEF Restart, TaskType, Reports
  <2>2. RequestType' /\ restarts' \in 0 .. MaxRestarts
    BY <1>7, DemoAssumption DEF Restart, RequestType, BaseType, Abandonable
  <2> QED
    BY <1>7, <2>1, <2>2 DEF Restart, ViewType, PathType, BaseType
<1>8. CASE UNCHANGED vars
  BY <1>8 DEF vars, TaskType, ViewType, PathType, RequestType, BaseType
<1> QED
  BY <1>1, <1>2, <1>3, <1>4, <1>5, <1>6, <1>7, <1>8 DEF Next

\* Initially nothing is under way.
LEMMA TypeInit == Init => TypeOK
<1> SUFFICES ASSUME Init PROVE TaskType /\ ViewType /\ PathType /\ RequestType /\ BaseType
  BY TypeParts
<1>1. RequestType
  BY DemoAssumption DEF Init, RequestType
<1>2. BaseType
  <2>1. MaxRestarts \in Nat
    BY DemoAssumption
  <2> QED
    BY <2>1 DEF Init, BaseType
<1>3. ViewType /\ PathType
  BY DEF Init, ViewType, PathType
<1>4. TaskType
  BY DEF Init, TaskType, Reports
<1> QED
  BY <1>1, <1>2, <1>3, <1>4

\* Every variable of the orchestrator and of the stack below it keeps its type.
THEOREM DemoTypes == Spec => []TypeOK
BY TypeInit, TypeStep, PTL DEF Spec

\* Whatever the pose, a committed path rises vertically from near the vehicle and stays in
\* the safe box (case_a_points).
THEOREM CommittedPathsAreSafe == Spec => []CommittedPathIsSafe
<1>1. ASSUME TypeOK PROVE CommittedPathIsSafe
  <2>1. CASE mission.committed \in Paths
    BY <2>1, CaseAPathIsSafe DEF CommittedPathIsSafe, InBox
  <2>2. CASE mission.committed = None
    BY <2>2 DEF CommittedPathIsSafe
  <2> QED
    BY <1>1, <2>1, <2>2 DEF TypeOK
<1>2. TypeOK => CommittedPathIsSafe
  BY <1>1 DEF CommittedPathIsSafe
<1> QED
  BY <1>2, DemoTypes, PTL

-----------------------------------------------------------------------------
(* Abandoned requests.  With MaxOvertake at most one, serving a request of  *)
(* the operation in progress leaves at most one abandoned request of ARM    *)
(* and of START, and the next request of the operation waits for it.  STOP  *)
(* and DISARM, which a complete cleanup calls in a row, are therefore       *)
(* enough to drain them.                                                    *)

\* Requests that could raise the vehicle's control once more.
Raising == {"arm", "start"}

Spent(k) == late[k] <= 1 /\ (late[k] = 1 => overtaken[k] >= MaxOvertake)

Few == \A k \in Raising : late[k] <= 2 /\ (late[k] = 2 => overtaken[k] >= MaxOvertake)

Off == ~base.active /\ ~base.approved /\ ~base.armed

CleanSteps == {"stop", "controller_stop", "disarm"}

\* Where an operation may be.
PlaceInv ==
  /\ (op = "none") <=> (pc = "idle")
  /\ op = "none" => ~cleaning
  /\ op = "STOPPING" => cleaning
  /\ cleaning => pc \in CleanSteps /\ op \in {"STARTING", "STOPPING"}
  /\ ~cleaning => pc \notin CleanSteps
  /\ (~cleaning /\ op = "STARTING") <=>
       pc \in {"arm", "start", "control", "controller_start", "pwm", "activate"}
  /\ answer # "none" => pc \in Services
  /\ pc = "arm" => prepared
  /\ op = "PREPARING" => ~active

\* ARM is called only after PREPARE was served, START only after ARM was, and the end of a
\* cleanup only after STOP was.
OvertakeInv ==
  /\ Few
  /\ ~cleaning /\ (prepared \/ (pc = "prepare" /\ answer = "ok")) => Spent("arm")
  /\ pc = "start" \/ (pc = "arm" /\ answer = "ok") => Spent("start")
  /\ cleaning /\ clean /\ (pc # "stop" \/ answer = "ok") => Spent("arm") /\ Spent("start")

Complete ==
  \/ cleaning /\ clean /\ pc = "disarm" /\ answer = "ok"
  \/ op = "none" /\ report \in {"IDLE", "FAILED CLEAN"}

OutcomeInv == Complete => Off /\ late["arm"] = 0 /\ late["start"] = 0

LateServed(key) ==
  /\ late[key] > 0
  /\ late' = [late EXCEPT ![key] = @ - 1]
  /\ overtaken' = [overtaken EXCEPT ![key] = 0]
  /\ UNCHANGED answer

NowServed(key, result) ==
  /\ pc = key /\ answer = "none" /\ answer' = result /\ NoStaleMessage
  /\ \A k \in Services : late[k] > 0 => overtaken[k] < MaxOvertake
  /\ overtaken' = [k \in Services |-> IF late[k] > 0 THEN overtaken[k] + 1 ELSE 0]
  /\ UNCHANGED late

\* A request is served late or in its turn.
LEMMA ServedCases ==
  ASSUME NEW key, NEW result, Served(key, result)
  PROVE  LateServed(key) \/ NowServed(key, result)
BY DEF Served, LateServed, NowServed

\* Serving an abandoned request leaves fewer of them.
LEMMA LateServedLeaves ==
  ASSUME RequestType, Few, NEW key \in Services, LateServed(key)
  PROVE  /\ Few'
         /\ \A k \in Raising : Spent(k) => Spent(k)'
         /\ \A k \in Raising : late[k] = 0 => late'[k] = 0
BY DemoAssumption DEF RequestType, Few, LateServed, Raising, Services, Spent

\* Serving a request in its turn shows how few are left.
LEMMA NowServedLeaves ==
  ASSUME MaxOvertake <= 1, RequestType, Few, NEW key \in Services, NEW result,
         NowServed(key, result)
  PROVE  /\ Few'
         /\ \A k \in Raising : Spent(k)' /\ late'[k] = late[k]
         /\ \A k \in Raising : Spent(k) => late[k] = 0
<1>1. MaxOvertake \in Nat
  BY DemoAssumption
<1>2. ASSUME NEW k \in Raising
      PROVE  /\ late[k] \in Nat /\ overtaken[k] \in Nat /\ late'[k] = late[k]
             /\ late[k] > 0 => overtaken[k] < MaxOvertake /\ overtaken'[k] = overtaken[k] + 1
             /\ late[k] <= 2 /\ (late[k] = 2 => overtaken[k] >= MaxOvertake)
  BY DEF RequestType, NowServed, Raising, Services, Few
<1> QED
  BY <1>1, <1>2 DEF Few, Spent

Abandoned(key) ==
  /\ overtaken' = overtaken
  /\ late' = late \/ (key \in Services /\ late' = [late EXCEPT ![key] = @ + 1])

\* Abandoning one leaves few as long as at most one was left of that service.
LEMMA AbandonLeaves ==
  ASSUME RequestType, Few, NEW key, Abandoned(key), key \in Raising => Spent(key)
  PROVE  /\ Few'
         /\ \A k \in Raising \ {key} : late'[k] = late[k] /\ overtaken'[k] = overtaken[k]
BY DemoAssumption DEF RequestType, Few, Abandoned, Raising, Services, Spent

\* What may be abandoned.
LEMMA Abandons ==
  ASSUME Timeout \/ Restart
  PROVE  Abandoned(pc)
BY DEF Timeout, Restart, Abandoned, Abandonable

\* Serving a request moves no operation on: it may answer the one in progress.
LEMMA ServeAnswers ==
  ASSUME TypeOK, Serve
  PROVE  /\ UNCHANGED <<op, pc, cleaning, clean, desired, report, told, flags, views, restarts>>
         /\ answer' # answer => pc \in Services
<1>1. PICK key \in Services, result \in Results : Served(key, result)
  BY ServeEffect, TypeParts
<1> QED
  BY <1>1 DEF Served

\* How a failed step of PREPARE or START leaves the operation.
LEMMA FailPlace ==
  ASSUME Fail, ~cleaning, PlaceInv, flags' = flags
  PROVE  PlaceInv'
<1> USE DEF PlaceInv, flags, CleanSteps, Services
<1>1. CASE op = "STARTING"
  BY <1>1 DEF Fail, CleanUp, Goto
<1>2. CASE op # "STARTING"
  BY <1>2 DEF Fail, Finish, Goto
<1> QED
  BY <1>1, <1>2

\* How a step of a cleanup does.
LEMMA CleanUpPlace ==
  ASSUME NEW okay, CleanUpStep(okay), PlaceInv
  PROVE  PlaceInv'
<1> USE DEF PlaceInv, flags, CleanSteps, Services, CleanUpStep
<1>1. CASE pc = "disarm"
  <2>1. \E outcome : Finish(outcome)
    BY <1>1
  <2> QED
    BY <1>1, <2>1 DEF Finish, Goto
<1>2. CASE pc # "disarm"
  <2>1. CleanUpAfter(pc) \in {"controller_stop", "disarm"}
    BY DEF CleanUpAfter
  <2> QED
    BY <1>2, <2>1 DEF Goto
<1> QED
  BY <1>1, <1>2

\* Every action keeps operations where they may be.
LEMMA PlaceStep ==
  ASSUME TypeOK, PlaceInv, [Next]_vars
  PROVE  PlaceInv'
<1> USE DEF flags
<1>1. CASE RequestPrepare
  <2>1. CASE Finish("FAILED")
    BY <1>1, <2>1 DEF RequestPrepare, Finish, Goto, PlaceInv, CleanSteps, Services
  <2>2. CASE ~(control_active \/ active)
    BY <1>1, <2>2 DEF RequestPrepare, Goto, PlaceInv, CleanSteps, Services
  <2> QED
    BY <1>1, <2>1, <2>2 DEF RequestPrepare
<1>2. CASE RequestStart \/ RequestStop
  BY <1>2 DEF RequestStart, RequestStop, Goto, PlaceInv, CleanSteps, Services
<1>3. CASE Timeout \/ GiveUp
  BY <1>3, FailPlace, CleanUpPlace DEF Timeout, GiveUp, PlaceInv, CleanSteps, Waits
<1>4. CASE Answered
  <2>1. CASE cleaning /\ CleanUpStep(answer = "ok")
    BY <2>1, CleanUpPlace
  <2>2. CASE ~cleaning /\ pc = "prepare" /\ Prepared
    BY <2>2 DEF Prepared, Finish, Goto, PlaceInv, CleanSteps
  <2>3. CASE ~cleaning /\ pc # "prepare" /\ Succeed
    <3>1. pc \in Services \ CleanSteps
      BY <1>4, <2>3 DEF Answered, PlaceInv
    <3> QED
      BY <2>3, <3>1 DEF Succeed, Goto, PlaceInv, CleanSteps, Services
  <2>4. CASE ~cleaning /\ Fail /\ UNCHANGED flags
    BY <2>4, FailPlace
  <2>5. CASE /\ ~cleaning
             /\ Goto(pc) \/ (pc = "initialize" /\ Goto("initialized"))
             /\ UNCHANGED <<op, cleaning, clean, report, told, flags>>
    BY <2>5 DEF Goto, PlaceInv, CleanSteps, Services
  <2> QED
    BY <1>4, <2>1, <2>2, <2>3, <2>4, <2>5 DEF Answered
<1>5. CASE Localized \/ PathChosen \/ PathCommitted
  BY <1>5 DEF Localized, PathChosen, PathCommitted, Waited, Goto, PlaceInv, CleanSteps,
     Services
<1>6. CASE ControlSeen \/ PwmSeen
  BY <1>6 DEF ControlSeen, PwmSeen, Waited, Goto, PlaceInv, CleanSteps, Services
<1>7. CASE Activate
  BY <1>7 DEF Activate, Finish, Goto, PlaceInv, CleanSteps
<1>8. CASE Serve
  BY <1>8, ServeAnswers DEF PlaceInv
<1>9. CASE BaseTick \/ BaseGivesUp \/ OnPwm \/ OnActivePath \/ DraftArrives
  BY <1>9 DEF BaseTick, BaseGivesUp, OnPwm, OnActivePath, DraftArrives, Outside, task,
     PlaceInv
<1>10. CASE OnControlActive
  BY <1>10 DEF OnControlActive, Outside, task, PlaceInv
<1>11. CASE Restart
  BY <1>11 DEF Restart, Finish, Goto, PlaceInv, CleanSteps
<1>12. CASE UNCHANGED vars
  BY <1>12 DEF vars, task, PlaceInv
<1> QED
  BY <1>1, <1>2, <1>3, <1>4, <1>5, <1>6, <1>7, <1>8, <1>9, <1>10, <1>11, <1>12
  DEF Next, Operate

\* A step of a cleanup that is still complete needs an answer to the service before it; the
\* end of a cleanup clears the flags.
LEMMA CleanUpSteps ==
  ASSUME TypeOK, PlaceInv, NEW okay \in BOOLEAN, CleanUpStep(okay)
  PROVE  /\ answer' = "none" /\ pc' \in {"idle", "controller_stop", "disarm"}
         /\ ~cleaning' => pc' = "idle" /\ ~prepared' /\ ~active'
         /\ cleaning' /\ clean' => clean /\ okay /\ pc \in {"stop", "controller_stop"}
<1> USE DEF CleanUpStep, PlaceInv, CleanSteps
<1>1. CASE pc = "disarm"
  <2>1. \E outcome : Finish(outcome)
    BY <1>1
  <2> QED
    BY <1>1, <2>1 DEF Finish, Goto
<1>2. CASE pc # "disarm"
  <2>1. CleanUpAfter(pc) \in {"controller_stop", "disarm"}
    BY DEF CleanUpAfter
  <2>2. cleaning' /\ clean' = (clean /\ okay) /\ answer' = "none" /\ pc' = CleanUpAfter(pc)
    BY <1>2 DEF Goto
  <2> QED
    BY <1>2, <2>1, <2>2
<1> QED
  BY <1>1, <1>2

\* A failure ends the operation or begins a cleanup.
LEMMA FailSteps ==
  ASSUME TypeOK, Fail, ~cleaning
  PROVE  /\ answer' = "none" /\ pc' \in {"idle", "stop"}
         /\ (op = "STARTING" /\ cleaning' /\ pc' = "stop")
              \/ (op # "STARTING" /\ ~cleaning' /\ pc' = "idle")
BY DEF Fail, CleanUp, Finish, Goto

\* The first requests of ARM and of START come after a service has been answered that let
\* at most one of them wait: what is abandoned is never more than two of each.
LEMMA OvertakeStep ==
  ASSUME MaxOvertake <= 1, TypeOK, PlaceInv, OvertakeInv, [Next]_vars
  PROVE  OvertakeInv'
<1> USE DEF flags
<1>t. TaskType /\ RequestType /\ Few /\ DOMAIN late = Services
  BY TypeParts DEF OvertakeInv, RequestType
<1>r. ASSUME UNCHANGED requests
      PROVE  Few' /\ \A k \in Raising : Spent(k)' = Spent(k)
  BY <1>t, <1>r DEF requests, Few, Spent
<1>w. ASSUME UNCHANGED <<requests, pc, answer, cleaning, clean, prepared>>
      PROVE  OvertakeInv'
  BY <1>r, <1>w DEF OvertakeInv, Raising
<1>a. pc \in Raising => Spent(pc) /\ ~cleaning /\ op = "STARTING"
  BY DEF Raising, PlaceInv, OvertakeInv, CleanSteps
<1>b. Timeout \/ Restart => Few' /\ \A k \in Raising \ {pc} : Spent(k)' = Spent(k)
  <2> SUFFICES ASSUME Timeout \/ Restart
               PROVE  Few' /\ \A k \in Raising \ {pc} : Spent(k)' = Spent(k)
    OBVIOUS
  <2>1. /\ Few'
        /\ \A k \in Raising \ {pc} : late'[k] = late[k] /\ overtaken'[k] = overtaken[k]
    BY <1>t, <1>a, Abandons, AbandonLeaves
  <2> QED
    BY <2>1 DEF Spent
<1>1. CASE RequestPrepare \/ RequestStart \/ RequestStop
  <2>1. UNCHANGED requests /\ prepared' = prepared
    BY <1>1 DEF RequestPrepare, RequestStart, RequestStop
  <2>2. /\ answer' = "none" /\ pc' \in {"idle", "odometry", "confirm_neutral", "arm", "stop"}
        /\ cleaning' => pc' = "stop"
    BY <1>1 DEF RequestPrepare, RequestStart, RequestStop, Finish, Goto, PlaceInv
  <2>3. ~cleaning
    BY <1>1 DEF RequestPrepare, RequestStart, RequestStop, PlaceInv
  <2> QED
    BY <1>r, <2>1, <2>2, <2>3 DEF OvertakeInv, Raising
<1>2. CASE Timeout /\ ~cleaning
  <2>1. Fail /\ prepared' = prepared
    BY <1>2 DEF Timeout, CleanUpStep
  <2>2. answer' = "none" /\ pc' \in {"idle", "stop"} /\ (cleaning' => pc' = "stop")
    BY <1>2, <2>1, FailSteps
  <2>3. ~cleaning' => pc \notin Raising
    BY <1>2, <2>1, <1>a, FailSteps
  <2> QED
    BY <1>2, <1>b, <2>1, <2>2, <2>3 DEF OvertakeInv, Raising
<1>3. CASE Timeout /\ cleaning
  <2>1. CleanUpStep(FALSE)
    BY <1>3 DEF Timeout
  <2>2. /\ answer' = "none" /\ pc' \in {"idle", "controller_stop", "disarm"}
        /\ ~cleaning' => pc' = "idle" /\ ~prepared'
        /\ ~(cleaning' /\ clean')
    BY <2>1, CleanUpSteps
  <2> QED
    BY <1>3, <1>b, <2>2 DEF OvertakeInv
<1>4. CASE Answered
  <2>r. UNCHANGED requests
    BY <1>4 DEF Answered
  <2>1. CASE cleaning /\ CleanUpStep(answer = "ok")
    <3>1. /\ answer' = "none" /\ pc' \in {"idle", "controller_stop", "disarm"}
          /\ ~cleaning' => pc' = "idle" /\ ~prepared'
          /\ cleaning' /\ clean' => clean /\ answer = "ok" /\ cleaning
      BY <2>1, CleanUpSteps
    <3> QED
      BY <1>r, <2>r, <3>1 DEF OvertakeInv, Raising
  <2>2. CASE ~cleaning /\ pc = "prepare" /\ answer = "ok" /\ Prepared
    BY <1>r, <2>r, <2>2 DEF Prepared, Finish, Goto, OvertakeInv, Raising
  <2>3. CASE ~cleaning /\ answer = "ok" /\ Succeed
    <3>1. pc' = "start" => pc = "arm"
      BY <2>3 DEF Succeed, Goto
    <3>2. answer' = "none" /\ cleaning' = cleaning /\ prepared' = prepared
      BY <2>3 DEF Succeed, Goto
    <3> QED
      BY <1>r, <2>r, <2>3, <3>1, <3>2 DEF OvertakeInv, Raising
  <2>4. CASE ~cleaning /\ Fail /\ UNCHANGED flags
    BY <1>r, <2>r, <2>4, FailSteps DEF OvertakeInv, Raising
  <2>5. CASE /\ ~cleaning
             /\ Goto(pc) \/ (pc = "initialize" /\ Goto("initialized"))
             /\ UNCHANGED <<op, cleaning, clean, report, told, flags>>
    BY <1>r, <2>r, <2>5 DEF Goto, OvertakeInv, Raising
  <2> QED
    BY <1>4, <2>1, <2>2, <2>3, <2>4, <2>5 DEF Answered
<1>5. CASE GiveUp
  <2>1. Fail /\ ~cleaning /\ prepared' = prepared /\ UNCHANGED requests
    BY <1>5 DEF GiveUp, PlaceInv, CleanSteps, Waits
  <2> QED
    BY <1>r, <2>1, FailSteps DEF OvertakeInv, Raising
<1>6. CASE Localized \/ PathChosen \/ PathCommitted \/ ControlSeen \/ PwmSeen
  <2>1. /\ UNCHANGED <<cleaning, prepared, requests>> /\ answer' = "none"
        /\ pc' \in {"initialize", "odometry", "prepare", "validate", "controller_start",
                    "pwm", "activate"}
    BY <1>6 DEF Localized, PathChosen, PathCommitted, ControlSeen, PwmSeen, Waited, Goto
  <2>2. ~cleaning
    BY <1>6 DEF Localized, PathChosen, PathCommitted, ControlSeen, PwmSeen, PlaceInv,
       CleanSteps
  <2> QED
    BY <1>r, <2>1, <2>2 DEF OvertakeInv, Raising
<1>7. CASE Activate
  <2>1. ~cleaning
    BY <1>7 DEF Activate, PlaceInv, CleanSteps
  <2> QED
    BY <1>r, <1>7, <2>1 DEF Activate, Finish, Goto, OvertakeInv, Raising
<1>8. CASE Serve
  <2>1. PICK key \in Services, result \in Results : Served(key, result)
    BY <1>8, ServeEffect, TypeParts
  <2>2. UNCHANGED <<op, pc, cleaning, clean, prepared>>
    BY <1>8, ServeAnswers
  <2>3. CASE LateServed(key)
    <3>1. Few' /\ (\A k \in Raising : Spent(k) => Spent(k)') /\ answer' = answer
      BY <1>t, <2>3, LateServedLeaves DEF LateServed
    <3> QED
      BY <2>2, <3>1 DEF OvertakeInv, Raising
  <2>4. CASE NowServed(key, result)
    <3>1. Few' /\ \A k \in Raising : Spent(k)'
      BY <1>t, <2>4, NowServedLeaves
    <3> QED
      BY <3>1 DEF OvertakeInv, Raising
  <2> QED
    BY <2>1, <2>3, <2>4, ServedCases
<1>9. CASE BaseTick \/ BaseGivesUp \/ OnPwm \/ OnActivePath \/ DraftArrives
  BY <1>w, <1>9 DEF BaseTick, BaseGivesUp, OnPwm, OnActivePath, DraftArrives, Outside, task
<1>10. CASE OnControlActive
  BY <1>w, <1>10 DEF OnControlActive, Outside, task
<1>11. CASE Restart
  <2>1. ~cleaning' /\ ~prepared' /\ pc' = "idle" /\ Few'
    BY <1>11, <1>b DEF Restart, Finish, Goto
  <2> QED
    BY <2>1 DEF OvertakeInv
<1>12. CASE UNCHANGED vars
  BY <1>w, <1>12 DEF vars, task
<1> QED
  BY <1>1, <1>2, <1>3, <1>4, <1>5, <1>6, <1>7, <1>8, <1>9, <1>10, <1>11, <1>12
  DEF Next, Operate

\* A step to another service or to another report claims nothing.
LEMMA NothingClaimed ==
  ASSUME answer' = "none", op' = "none" => report' \notin {"IDLE", "FAILED CLEAN"}
  PROVE  OutcomeInv'
BY DEF OutcomeInv, Complete

\* What a failure claims.
LEMMA FailClaims ==
  ASSUME Fail
  PROVE  answer' = "none" /\ (op' = "none" => report' = "FAILED")
BY DEF Fail, CleanUp, Finish, Goto

\* Nothing raises a vehicle whose operation ended with a complete cleanup: the requests
\* that could have are no longer waiting.
LEMMA OutcomeStep ==
  ASSUME MaxOvertake <= 1, TypeOK, PlaceInv, OvertakeInv, OutcomeInv, [Next]_vars
  PROVE  OutcomeInv'
<1> USE DEF flags
<1>t. TaskType /\ BaseType /\ PathType /\ RequestType /\ Few
  BY TypeParts DEF OvertakeInv
<1>w. ASSUME UNCHANGED <<op, pc, answer, cleaning, clean, report, requests>>,
             Off => ~base'.active /\ ~base'.approved /\ ~base'.armed
      PROVE  OutcomeInv'
  BY <1>w DEF OutcomeInv, Complete, Off, requests
<1>1. CASE RequestPrepare \/ RequestStart \/ RequestStop
  BY <1>1, NothingClaimed DEF RequestPrepare, RequestStart, RequestStop, Finish, Goto
<1>2. CASE (Timeout /\ ~cleaning) \/ GiveUp
  BY <1>2, FailClaims, NothingClaimed DEF Timeout, CleanUpStep, GiveUp
<1>3. CASE Timeout /\ cleaning
  <2>1. CleanUpStep(FALSE)
    BY <1>3 DEF Timeout
  <2>2. answer' = "none" /\ (op' = "none" => report' = "INCOMPLETE")
    BY <2>1, <1>3 DEF CleanUpStep, Finish, Goto, PlaceInv, CleanSteps
  <2> QED
    BY <2>2, NothingClaimed
<1>4. CASE Answered
  <2>1. CASE cleaning /\ CleanUpStep(answer = "ok")
    <3>1. CASE op' = "none" /\ report' \in {"IDLE", "FAILED CLEAN"}
      <4>1. cleaning /\ clean /\ pc = "disarm" /\ answer = "ok"
        BY <2>1, <3>1 DEF CleanUpStep, Finish, PlaceInv
      <4>2. UNCHANGED <<base, late>>
        BY <1>4 DEF Answered, requests
      <4> QED
        BY <4>1, <4>2 DEF OutcomeInv, Complete, Off
    <3>2. answer' = "none"
      BY <2>1 DEF CleanUpStep, Finish, Goto
    <3> QED
      BY <3>1, <3>2, NothingClaimed
  <2>2. CASE Prepared
    BY <2>2, NothingClaimed DEF Prepared, Finish, Goto
  <2>3. CASE ~cleaning /\ answer # "none" /\ Succeed
    BY <2>3, NothingClaimed DEF Succeed, Goto, PlaceInv, Services
  <2>4. CASE Fail
    BY <2>4, FailClaims, NothingClaimed
  <2>5. CASE /\ ~cleaning /\ answer # "none"
             /\ Goto(pc) \/ (pc = "initialize" /\ Goto("initialized"))
             /\ UNCHANGED <<op, cleaning, clean, report, told, flags>>
    BY <2>5, NothingClaimed DEF Goto, PlaceInv, Services
  <2> QED
    BY <1>4, <2>1, <2>2, <2>3, <2>4, <2>5 DEF Answered
<1>5. CASE Localized \/ PathChosen \/ PathCommitted \/ ControlSeen \/ PwmSeen
  <2>1. answer' = "none" /\ op' = op /\ op # "none"
    BY <1>5 DEF Localized, PathChosen, PathCommitted, ControlSeen, PwmSeen, Waited, Goto,
       PlaceInv
  <2> QED
    BY <2>1, NothingClaimed
<1>6. CASE Activate
  BY <1>6, NothingClaimed DEF Activate, Finish, Goto
<1>7. CASE Serve
  <2>1. PICK key \in Services, result \in Results :
          Served(key, result) /\ BaseEffect(key, result)
    BY <1>7, <1>t, ServeEffect
  <2>2. UNCHANGED <<op, pc, cleaning, clean, report>>
    BY <1>7, ServeAnswers
  <2>3. CASE LateServed(key)
    <3> SUFFICES ASSUME Complete, Off, late["arm"] = 0, late["start"] = 0
                 PROVE  Off' /\ late'["arm"] = 0 /\ late'["start"] = 0
      BY <2>2, <2>3 DEF OutcomeInv, Complete, LateServed
    <3>1. late'["arm"] = 0 /\ late'["start"] = 0 /\ key \notin Raising
      BY <1>t, <2>3, LateServedLeaves DEF Raising, LateServed
    <3> QED
      BY <2>1, <3>1 DEF BaseEffect, Off, Raising
  <2>4. CASE NowServed(key, result)
    <3> SUFFICES ASSUME Complete'
                 PROVE  Off' /\ late'["arm"] = 0 /\ late'["start"] = 0
      BY DEF OutcomeInv
    <3>1. pc = key /\ pc # "idle" /\ answer' = result
      BY <2>4 DEF NowServed, Services
    <3>2. cleaning /\ clean /\ key = "disarm" /\ result = "ok"
      BY <2>2, <3>1 DEF Complete, PlaceInv
    <3>3. \A k \in Raising : Spent(k)
      BY <3>1, <3>2 DEF OvertakeInv, Raising
    <3>4. late'["arm"] = 0 /\ late'["start"] = 0
      BY <1>t, <2>4, <3>3, NowServedLeaves DEF Raising
    <3> QED
      BY <2>1, <3>2, <3>4 DEF BaseEffect, Off
  <2> QED
    BY <2>1, <2>3, <2>4, ServedCases
<1>8. CASE BaseTick
  <2>1. Off => ~base'.active /\ ~base'.approved /\ ~base'.armed
    BY <1>8, <1>t DEF BaseTick, Off, BaseType
  <2> QED
    BY <1>8, <1>w, <2>1 DEF BaseTick, Outside, task
<1>9. CASE BaseGivesUp
  BY <1>9, <1>t, <1>w, ReleasedFields DEF BaseGivesUp, Outside, task
<1>10. CASE OnControlActive \/ OnPwm \/ OnActivePath \/ DraftArrives
  BY <1>10, <1>w DEF OnControlActive, OnPwm, OnActivePath, DraftArrives, Outside, task, Off,
     stack
<1>11. CASE Restart
  BY <1>11, NothingClaimed DEF Restart, Finish, Goto
<1>12. CASE UNCHANGED vars
  BY <1>w, <1>12 DEF vars, task, stack, Off
<1> QED
  BY <1>1, <1>2, <1>3, <1>4, <1>5, <1>6, <1>7, <1>8, <1>9, <1>10, <1>11, <1>12
  DEF Next, Operate

\* Initially no operation runs and nothing is abandoned.
LEMMA RequestsInit == Init => PlaceInv /\ OvertakeInv /\ OutcomeInv
<1> SUFFICES ASSUME Init PROVE PlaceInv /\ OvertakeInv /\ OutcomeInv
  OBVIOUS
<1>1. late["arm"] = 0 /\ late["start"] = 0
  BY DEF Init, Services
<1>2. Few
  BY <1>1 DEF Few, Raising
<1> QED
  BY <1>1, <1>2 DEF Init, PlaceInv, OvertakeInv, OutcomeInv, Complete, CleanSteps, Services

\* The requests' invariants hold in every state.
LEMMA RequestsInvariant ==
  ASSUME MaxOvertake <= 1
  PROVE  Spec => [](TypeOK /\ PlaceInv /\ OvertakeInv /\ OutcomeInv)
<1>1. Init => TypeOK /\ PlaceInv /\ OvertakeInv /\ OutcomeInv
  BY TypeInit, RequestsInit
<1>2. TypeOK /\ PlaceInv /\ OvertakeInv /\ OutcomeInv /\ [Next]_vars
        => TypeOK' /\ PlaceInv' /\ OvertakeInv' /\ OutcomeInv'
  BY TypeStep, PlaceStep, OvertakeStep, OutcomeStep
<1> QED
  BY <1>1, <1>2, PTL DEF Spec

\* However many requests are abandoned and however often the orchestrator crashes: a STOP
\* that succeeded, or a failed START whose cleanup was complete, leaves the vehicle disarmed
\* with its gate closed, and it stays so until the operator asks for something.
THEOREM CleanOutcomesHold ==
  ASSUME MaxOvertake <= 1
  PROVE  Spec => []CleanOutcomeHolds
<1>1. OutcomeInv => CleanOutcomeHolds
  BY DEF OutcomeInv, Complete, Off, CleanOutcomeHolds
<1> QED
  BY <1>1, RequestsInvariant, PTL

-----------------------------------------------------------------------------
(* Control without an owner.  From PREPARE to the report of ACTIVE, obs_node *)
(* and the orchestrator's view of it disagree only in ways that the next     *)
(* message, or the cleanup, settles.                                         *)

\* Nothing was abandoned that could matter: no cleanup failed, no crash, none under way.
Sound == ~told /\ restarts = 0 /\ ~cleaning

\* START has not taken effect yet, it has but the orchestrator has seen nothing of it, and
\* the orchestrator has seen it.
Before == pc = "arm" \/ (pc = "start" /\ answer # "ok")
Begun == (pc = "start" /\ answer = "ok") \/ pc = "control"
Watched == pc \in {"controller_start", "pwm", "activate"}

Owned == op \in {"none", "PREPARING"}

OrphanInv ==
  Sound =>
    /\ late["arm"] = 0 /\ late["start"] = 0
    /\ Owned /\ ~active => ~base.active
    /\ prepared /\ ~active /\ Owned => control_msg # "on"
    /\ pc = "prepare" /\ answer = "ok" => control_msg # "on"
    /\ Before => ~base.active /\ control_msg # "on" /\ ~control_active /\ ~active
    /\ Begun /\ base.active => /\ control_msg = "on" => base.published
                               /\ control_active => base.published /\ control_msg # "off"
    /\ (active \/ Watched) /\ base.active =>
         control_active /\ base.published /\ control_msg # "off"

\* A failed PREPARE leaves everything as it was; a failed START begins a cleanup.
LEMMA FailOwned ==
  ASSUME TypeOK, PlaceInv, OrphanInv, Fail, ~cleaning, pc # "idle",
         UNCHANGED <<base, control_msg, control_active, prepared, active, restarts>>,
         pc \notin Raising => late'["arm"] = late["arm"] /\ late'["start"] = late["start"]
  PROVE  OrphanInv'
<1>1. CASE op = "STARTING"
  BY <1>1 DEF Fail, CleanUp, OrphanInv, Sound
<1>2. CASE op # "STARTING"
  <2>1. op = "PREPARING" /\ pc \notin Raising
    BY <1>2, TypeParts DEF TaskType, PlaceInv, Raising
  <2>2. op' = "none" /\ pc' = "idle" /\ answer' = "none" /\ told' = told /\ ~cleaning'
    BY <1>2, TypeParts DEF Fail, Finish, Goto, TaskType
  <2> QED
    BY <2>1, <2>2 DEF OrphanInv, Sound, Owned, Before, Begun, Watched
<1> QED
  BY <1>1, <1>2

\* obs_node does not become active.
Calmer == base'.active => base.active /\ base'.published = base.published

\* While the operation and the messages stay where they are, that is enough.
LEMMA CalmerOwned ==
  ASSUME OrphanInv, Calmer, answer' = answer,
         UNCHANGED <<op, pc, cleaning, told, prepared, active, control_msg, control_active,
                     restarts>>,
         late["arm"] = 0 => late'["arm"] = 0, late["start"] = 0 => late'["start"] = 0
  PROVE  OrphanInv'
BY DEF OrphanInv, Calmer, Sound, Owned, Before, Begun, Watched

\* A request that is served, late or in its turn.
LEMMA ServeOwned ==
  ASSUME MaxOvertake <= 1, TypeOK, PlaceInv, OvertakeInv, OrphanInv, Serve
  PROVE  OrphanInv'
<1>t. RequestType /\ BaseType /\ PathType /\ Few
  BY TypeParts DEF OvertakeInv
<1>1. PICK key \in Services, result \in Results : Served(key, result) /\ BaseEffect(key, result)
  BY <1>t, ServeEffect
<1>2. UNCHANGED <<op, pc, cleaning, told, prepared, active, control_msg, control_active,
                  restarts>>
  BY <1>1, ServeAnswers DEF BaseEffect, flags, views
<1> SUFFICES ASSUME Sound
             PROVE  OrphanInv'
  BY <1>2 DEF OrphanInv, Sound
<1>3. late["arm"] = 0 /\ late["start"] = 0
  BY DEF OrphanInv
<1>4. CASE LateServed(key)
  <2>1. late'["arm"] = 0 /\ late'["start"] = 0 /\ key # "start" /\ answer' = answer
    BY <1>t, <1>3, <1>4, LateServedLeaves DEF Raising, LateServed
  <2>2. Calmer
    BY <1>1, <2>1 DEF BaseEffect, Calmer
  <2> QED
    BY <1>2, <2>1, <2>2, CalmerOwned
<1>5. CASE NowServed(key, result)
  <2>1. /\ late'["arm"] = 0 /\ late'["start"] = 0
        /\ pc = key /\ answer = "none" /\ answer' = result /\ NoStaleMessage
    BY <1>t, <1>3, <1>5, NowServedLeaves DEF Raising, NowServed
  <2>2. CASE key = "start" /\ result = "ok"
    <3>1. control_msg # "on" /\ ~control_active /\ ~active /\ op = "STARTING"
      BY <2>1, <2>2 DEF OrphanInv, Before, PlaceInv, Sound
    <3> QED
      BY <1>2, <2>1, <2>2, <3>1 DEF OrphanInv, Sound, Owned, Before, Begun, Watched
  <2>3. CASE ~(key = "start" /\ result = "ok")
    <3>1. Calmer
      BY <1>1, <2>3 DEF BaseEffect, Calmer
    <3>2. pc = "prepare" /\ result = "ok" => control_msg # "on"
      BY <1>1, <2>1 DEF BaseEffect, NoStaleMessage
    <3>3. Before' = Before /\ Begun' = Begun /\ Watched' = Watched
      BY <1>2, <2>1, <2>3 DEF Before, Begun, Watched
    <3> QED
      BY <1>2, <2>1, <3>1, <3>2, <3>3 DEF OrphanInv, Sound, Owned, Calmer
  <2> QED
    BY <2>2, <2>3
<1> QED
  BY <1>1, <1>4, <1>5, ServedCases

\* The operator, obs_node and the topics: control always has an owner.
LEMMA OrphanStep ==
  ASSUME MaxOvertake <= 1, TypeOK, PlaceInv, OvertakeInv, OutcomeInv, OrphanInv, [Next]_vars
  PROVE  OrphanInv'
<1> USE DEF flags
<1>t. TaskType /\ BaseType /\ RequestType /\ ViewType
  BY TypeParts
<1>1. CASE RequestPrepare
  <2>1. /\ op = "none" /\ ~cleaning /\ ~cleaning' /\ told' = told /\ restarts' = restarts
        /\ answer' = "none" /\ pc' \in {"idle", "odometry", "confirm_neutral"} /\ Owned /\ Owned'
    BY <1>1, <1>t DEF RequestPrepare, Finish, Goto, PlaceInv, Owned, TaskType
  <2>2. UNCHANGED <<late, base, control_msg, control_active, prepared, active>>
    BY <1>1 DEF RequestPrepare, requests, stack, views
  <2> QED
    BY <2>1, <2>2 DEF OrphanInv, Sound, Before, Begun, Watched
<1>2. CASE RequestStart \/ RequestStop
  <2>1. CASE cleaning'
    BY <2>1 DEF OrphanInv, Sound
  <2>2. CASE ~cleaning'
    <3>1. /\ op = "none" /\ ~cleaning /\ prepared /\ ~active /\ ~control_active
          /\ op' = "STARTING" /\ pc' = "arm" /\ answer' = "none"
          /\ UNCHANGED <<told, late, base, control_msg, control_active, prepared, active,
                         restarts>>
      BY <1>2, <2>2 DEF RequestStart, RequestStop, Goto, PlaceInv, requests, stack, views
    <3> QED
      BY <3>1 DEF OrphanInv, Sound, Owned, Before, Begun, Watched
  <2> QED
    BY <2>1, <2>2
<1>3. CASE Timeout
  <2>1. CASE ~cleaning
    <3>1. /\ Fail /\ pc # "idle"
          /\ UNCHANGED <<base, control_msg, control_active, prepared, active, restarts>>
      BY <1>3, <2>1 DEF Timeout, CleanUpStep, Services, views, stack
    <3>2. pc \notin Raising => late'["arm"] = late["arm"] /\ late'["start"] = late["start"]
      BY <1>3, <1>t DEF Timeout, Raising, RequestType, Services
    <3> QED
      BY <2>1, <3>1, <3>2, FailOwned
  <2>2. CASE cleaning
    <3>1. CleanUpStep(FALSE)
      BY <1>3, <2>2 DEF Timeout
    <3>2. cleaning' \/ told'
      BY <2>2, <3>1 DEF CleanUpStep, Finish
    <3> QED
      BY <3>2 DEF OrphanInv, Sound
  <2> QED
    BY <2>1, <2>2
<1>4. CASE Answered
  <2>u. UNCHANGED <<late, overtaken, base, control_msg, control_active, restarts>>
    BY <1>4 DEF Answered, requests
  <2>1. CASE cleaning /\ CleanUpStep(answer = "ok")
    <3> SUFFICES ASSUME Sound'
                 PROVE  OrphanInv'
      BY DEF OrphanInv
    <3>1. pc = "disarm" /\ clean /\ answer = "ok"
      BY <2>1 DEF CleanUpStep, Finish, Sound
    <3>2. ~base.active /\ late["arm"] = 0 /\ late["start"] = 0
      BY <2>1, <3>1 DEF OutcomeInv, Complete, Off
    <3>3. pc' = "idle" /\ ~prepared' /\ ~active'
      BY <2>1, <3>1 DEF CleanUpStep, Finish, Goto
    <3> QED
      BY <2>u, <3>2, <3>3 DEF OrphanInv, Before, Begun, Watched
  <2>2. CASE ~cleaning /\ pc = "prepare" /\ answer = "ok" /\ Prepared
    <3>1. op = "PREPARING" /\ ~active /\ ~active'
      BY <1>t, <2>2 DEF TaskType, PlaceInv, CleanSteps, Prepared
    <3>2. pc' = "idle" /\ told' = told
      BY <1>t, <2>2 DEF Prepared, Finish, Goto, TaskType
    <3> QED
      BY <2>2, <2>u, <3>1, <3>2 DEF OrphanInv, Sound, Owned, Before, Begun, Watched
  <2>3. CASE ~cleaning /\ answer = "ok" /\ pc # "prepare" /\ Succeed
    <3>1. /\ UNCHANGED <<op, cleaning, told, prepared, active>> /\ answer' = "none"
      BY <2>3 DEF Succeed, Goto
    <3>2. (Before' => Before) /\ (Begun' => Begun) /\ (Watched' => Watched)
      BY <2>3 DEF Succeed, Goto, Before, Begun, Watched
    <3> QED
      BY <2>u, <3>1, <3>2 DEF OrphanInv, Sound, Owned
  <2>4. CASE ~cleaning /\ answer # "none" /\ Fail /\ UNCHANGED flags
    BY <2>4, <2>u, FailOwned DEF PlaceInv, Services
  <2>5. CASE /\ ~cleaning /\ answer = "retry"
             /\ Goto(pc) \/ (pc = "initialize" /\ Goto("initialized"))
             /\ UNCHANGED <<op, cleaning, clean, report, told, flags>>
    <3>1. (Before' => Before) /\ (Begun' => Begun) /\ (Watched' => Watched) /\ answer' = "none"
      BY <2>5 DEF Goto, Before, Begun, Watched
    <3> QED
      BY <2>5, <2>u, <3>1 DEF OrphanInv, Sound, Owned
  <2> QED
    BY <1>4, <2>1, <2>2, <2>3, <2>4, <2>5 DEF Answered
<1>5. CASE GiveUp
  <2>1. Fail /\ ~cleaning /\ pc # "idle"
    BY <1>5 DEF GiveUp, PlaceInv, CleanSteps, Waits
  <2> QED
    BY <1>5, <2>1, FailOwned DEF GiveUp, views, requests, stack
<1>6. CASE Localized \/ PathChosen \/ PathCommitted \/ ControlSeen \/ PwmSeen
  <2>u. UNCHANGED <<op, cleaning, told, prepared, active, late, base, control_msg,
                    control_active, restarts>>
    BY <1>6 DEF Localized, PathChosen, PathCommitted, ControlSeen, PwmSeen, Waited, views,
       requests
  <2>1. CASE Localized \/ PathChosen \/ PathCommitted
    <3>1. answer' = "none" /\ ~Before' /\ ~Begun' /\ ~Watched'
      BY <2>1 DEF Localized, PathChosen, PathCommitted, Waited, Goto, Before, Begun, Watched
    <3> QED
      BY <2>u, <3>1 DEF OrphanInv, Sound, Owned
  <2>2. CASE ControlSeen \/ PwmSeen
    <3>1. /\ answer' = "none" /\ pc' # "prepare" /\ ~Before' /\ ~Begun'
          /\ (Begun /\ control_active) \/ Watched
      BY <2>2 DEF ControlSeen, PwmSeen, Waited, Goto, Before, Begun, Watched
    <3> QED
      BY <2>u, <3>1 DEF OrphanInv, Sound, Owned
  <2> QED
    BY <1>6, <2>1, <2>2
<1>7. CASE Activate
  <2>1. /\ pc' = "idle" /\ active' /\ Watched /\ ~cleaning /\ told' = told
        /\ UNCHANGED <<late, base, control_msg, control_active, restarts>>
    BY <1>7, <1>t DEF Activate, Finish, Goto, Watched, PlaceInv, CleanSteps, views, requests,
       stack, TaskType
  <2> QED
    BY <2>1 DEF OrphanInv, Sound, Before, Begun, Watched
<1>8. CASE Serve
  BY <1>8, ServeOwned
<1>9. CASE BaseTick
  <2>1. /\ control_msg' = IF base.active /\ base.published THEN "on" ELSE "off"
        /\ base'.active = base.active /\ base'.published = base.active
        /\ UNCHANGED <<op, pc, answer, cleaning, told, prepared, active, late, control_active,
                       restarts>>
    BY <1>9, <1>t DEF BaseTick, BaseType, Outside, task, requests, views
  <2>2. pc = "prepare" => op = "PREPARING" /\ (Sound => ~active)
    BY <1>t DEF TaskType, PlaceInv, Sound, CleanSteps
  <2>3. Before' = Before /\ Begun' = Begun /\ Watched' = Watched /\ Owned' = Owned
        /\ Sound' = Sound
    BY <2>1 DEF Before, Begun, Watched, Owned, Sound
  <2> QED
    BY <2>1, <2>2, <2>3 DEF OrphanInv, Owned
<1>10. CASE BaseGivesUp
  <2>1. Calmer
    BY <1>10, <1>t, ReleasedFields DEF BaseGivesUp, Calmer
  <2> QED
    BY <1>10, <2>1, CalmerOwned DEF BaseGivesUp, Outside, task, requests, views
<1>11. CASE OnControlActive
  <2>1. /\ control_msg # "none" /\ control_msg' = "none"
        /\ control_active' = (control_msg = "on") /\ active' = (active /\ control_active')
        /\ UNCHANGED <<op, pc, answer, cleaning, told, prepared, late, base, restarts>>
    BY <1>11 DEF OnControlActive, Outside, task, requests
  <2>2. control_msg \in {"none", "on", "off"}
    BY <1>t DEF BaseType
  <2>3. Before' = Before /\ Begun' = Begun /\ Watched' = Watched /\ Owned' = Owned
        /\ Sound' = Sound
    BY <2>1 DEF Before, Begun, Watched, Owned, Sound
  <2> QED
    BY <2>1, <2>2, <2>3 DEF OrphanInv
<1>12. CASE OnPwm \/ OnActivePath \/ DraftArrives
  <2>1. UNCHANGED <<op, pc, answer, cleaning, told, prepared, active, late, base, control_msg,
                    control_active, restarts>>
    BY <1>12 DEF OnPwm, OnActivePath, DraftArrives, Outside, task, requests, stack,
       views
  <2> QED
    BY <2>1 DEF OrphanInv, Sound, Owned, Before, Begun, Watched
<1>13. CASE Restart
  <2>1. restarts' # 0
    BY <1>13, <1>t DEF Restart, BaseType
  <2> QED
    BY <2>1 DEF OrphanInv, Sound
<1>14. CASE UNCHANGED vars
  BY <1>14 DEF vars, task, requests, stack, views, OrphanInv, Sound, Owned, Before, Begun,
     Watched
<1> QED
  BY <1>1, <1>2, <1>3, <1>4, <1>5, <1>6, <1>7, <1>8, <1>9, <1>10, <1>11, <1>12, <1>13, <1>14
  DEF Next, Operate

\* The vehicle is under control only while an operation runs, after a START that succeeded,
\* after a cleanup that was reported incomplete, or after a crash of the orchestrator.
THEOREM ControlHasAnOwner ==
  ASSUME MaxOvertake <= 1
  PROVE  Spec => []NoOrphanControl
<1>1. Init => OrphanInv
  BY DEF Init, OrphanInv, Services, Before, Begun, Watched
<1>2. TypeOK /\ PlaceInv /\ OvertakeInv /\ OutcomeInv /\ OrphanInv /\ [Next]_vars => OrphanInv'
  BY OrphanStep
<1>3. PlaceInv /\ OrphanInv => NoOrphanControl
  BY DEF PlaceInv, OrphanInv, Sound, Owned, NoOrphanControl
<1> QED
  BY <1>1, <1>2, <1>3, RequestsInvariant, PTL DEF Spec
=============================================================================
