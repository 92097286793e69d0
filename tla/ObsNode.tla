------------------------------- MODULE ObsNode -------------------------------
(***************************************************************************)
(* The control lifecycle of brov_base/obs_node.py: PREPARE -> ARM -> START *)
(* and the gateway that lets a controller's PWM reach the autopilot.       *)
(*                                                                         *)
(* Two executor threads run the node.  Every callback but one belongs to   *)
(* the node's default, mutually exclusive callback group: the main thread. *)
(* /brov/arm_control has a group of its own, because arming blocks for     *)
(* seconds: the arm thread.  The two share the node's attributes with no   *)
(* lock.  main_pc and arm_pc name the next statement of each thread where  *)
(* the other thread can tell whether it has run.                           *)
(*                                                                         *)
(* Telemetry, mode, authority, feedback and drift gates are data: their    *)
(* verdict is the parameter "ok" of the operators below, free at each      *)
(* evaluation.  The gates that compare pieces of the node's own state      *)
(* (localization identity, resolved mission, prepared contract, cached     *)
(* armed flag) are kept.  send_pwm and arm are TRUE: with either FALSE no  *)
(* arming happens.                                                         *)
(***************************************************************************)
EXTENDS Naturals, Sequences

CONSTANTS
  Missions,                 \* resolved missions: [id, loc], loc is the pool
                            \* alignment (epoch, session, alignment id) bound
  Locs,                     \* identities of initialized pool alignments
  None,                     \* absence of a mission, alignment or contract
  RequirePoolLocalization,  \* parameter require_pool_localization
  RequireResolvedMission,   \* parameter require_resolved_mission
  MaxArmSends,              \* ARM commands one arm() call may send
  MaxInFlight               \* bound: commands on the link at once

ASSUME ModesAssumption ==
  /\ RequirePoolLocalization \in BOOLEAN
  /\ RequireResolvedMission \in BOOLEAN
  /\ RequireResolvedMission => RequirePoolLocalization

\* What START fixes without a resolved mission: the alignment alone.
LegacyContracts == [id : {None}, loc : Locs \cup {None}]

ASSUME DataAssumption ==
  /\ \A m \in Missions : m.loc \in Locs
  /\ None \notin Missions /\ None \notin Locs
  /\ None \notin LegacyContracts

ASSUME BoundsAssumption ==
  /\ MaxArmSends \in Nat \ {0}
  /\ MaxInFlight \in Nat \ {0}

VARIABLES
  main_pc, arm_pc,          \* where each thread is
  estopped, faulted,        \* latches
  control_active, active_obs_published,
  generation_moved,         \* _arm_transaction_generation differs from the
                            \* value the latest ARM call captured
  hardware_arm_approved, hardware_arm_deadline,
  prepared,                 \* mission fixed by PREPARE, or None
  active_contract,          \* what START copied from it, or None
  first_pwm_deadline, last_pwm_rx,
  mission, loc,             \* latest messages of the two subscriptions
  arm_sends,                \* commands sent by the current arm() call
  cached_armed,             \* RealRobotInterface._armed
  heartbeat,                \* HEARTBEAT on its way, or "none"
  link,                     \* ARM/DISARM commands on their way, in order
  vehicle_armed,            \* the autopilot's own state
  thrust,                   \* last PWM the node sent: "neutral" or "drive"
  policy_alive,             \* a controller still publishes PWM
  disarm_requested          \* history: a path asked for disarm and no ARM
                            \* transaction has begun since

latches == <<estopped, faulted>>
active == <<control_active, active_obs_published, active_contract>>
approval == <<generation_moved, hardware_arm_approved, hardware_arm_deadline,
              prepared>>
watch == <<first_pwm_deadline, last_pwm_rx>>
inputs == <<mission, loc>>
vehicle == <<cached_armed, heartbeat, vehicle_armed>>
node == <<latches, active, approval, watch>>
vars == <<main_pc, arm_pc, node, inputs, arm_sends, vehicle, link, thrust,
          policy_alive, disarm_requested>>

Timer == {"none", "running", "expired"}
Command == {"arm", "disarm"}
MainPc == {"idle", "prepare", "start", "pwm", "neutral", "cleanup"}
ArmPc == {"idle", "gate", "capture", "neutral", "check", "send", "post",
          "confirm", "approve", "deadline", "revoke", "disarm", "done"}

ThreadType ==
  /\ main_pc \in MainPc /\ arm_pc \in ArmPc
  /\ arm_sends \in 0..MaxArmSends

\* arm() decides to send only while its budget lasts.
SendBudget == arm_pc = "send" => arm_sends < MaxArmSends

ControlType ==
  /\ estopped \in BOOLEAN /\ faulted \in BOOLEAN
  /\ control_active \in BOOLEAN /\ active_obs_published \in BOOLEAN
  /\ generation_moved \in BOOLEAN /\ hardware_arm_approved \in BOOLEAN
  /\ hardware_arm_deadline \in Timer
  /\ first_pwm_deadline \in Timer /\ last_pwm_rx \in Timer
  /\ disarm_requested \in BOOLEAN

ContractType ==
  /\ prepared \in Missions \cup {None}
  /\ active_contract \in Missions \cup LegacyContracts \cup {None}
  /\ mission \in Missions \cup {None} /\ loc \in Locs \cup {None}

VehicleType ==
  /\ cached_armed \in BOOLEAN /\ vehicle_armed \in BOOLEAN
  /\ heartbeat \in {"none", "armed", "disarmed"}
  /\ link \in Seq(Command)
  /\ thrust \in {"neutral", "drive"}
  /\ policy_alive \in BOOLEAN

TypeOK == ThreadType /\ ControlType /\ ContractType /\ VehicleType

Init ==
  /\ main_pc = "idle" /\ arm_pc = "idle"
  /\ estopped = FALSE /\ faulted = FALSE
  /\ control_active = FALSE /\ active_obs_published = FALSE
  /\ generation_moved = FALSE /\ hardware_arm_approved = FALSE
  /\ hardware_arm_deadline = "none"
  /\ prepared = None /\ active_contract = None
  /\ first_pwm_deadline = "none" /\ last_pwm_rx = "none"
  /\ mission = None /\ loc = None
  /\ arm_sends = 0
  /\ cached_armed = FALSE /\ heartbeat = "none" /\ link = <<>>
  /\ vehicle_armed = FALSE   \* the constructor refuses an armed vehicle
  /\ thrust = "neutral"
  /\ policy_alive = TRUE
  /\ disarm_requested = FALSE

-----------------------------------------------------------------------------
(* Gates and shared assignments.                                           *)

ArmInProgress ==
  arm_pc \in {"neutral", "check", "send", "post", "confirm", "approve",
              "deadline", "revoke", "disarm", "done"}

\* _pool_localization_gate against localization identity l.
PoolGate(l) ==
  /\ l # None
  /\ control_active /\ active_contract # None => l = active_contract.loc

MissionGate == mission # None /\ mission.loc = loc

PreparedGate == prepared # None /\ mission = prepared /\ loc = prepared.loc

ContractGate ==
  /\ RequirePoolLocalization => PoolGate(loc)
  /\ RequireResolvedMission => MissionGate

\* _arm_lifecycle_gate: "ok" stands for telemetry, feedback, authority, mode.
LifecycleGate(ok) ==
  ok /\ ContractGate /\ (RequireResolvedMission => PreparedGate)

\* The cancel_check predicate handed to RealRobotInterface.arm.
Cancelled == estopped \/ faulted \/ generation_moved

\* _clear_prepared_contract
ClearPrepared ==
  /\ generation_moved' = TRUE
  /\ hardware_arm_approved' = FALSE
  /\ hardware_arm_deadline' = "none"
  /\ prepared' = None

ClearWatch == first_pwm_deadline' = "none" /\ last_pwm_rx' = "none"

\* The assignments STOP, DISARM, RESET, ESTOP, a fault and the end of a random
\* mission share.
FreezeControl ==
  /\ control_active' = FALSE
  /\ active_obs_published' = FALSE
  /\ active_contract' = None
  /\ ClearPrepared
  /\ ClearWatch

\* _revoke_hardware_arm, up to its neutral and DISARM.
RevokeFields ==
  /\ ClearPrepared
  /\ ClearWatch
  /\ disarm_requested' = TRUE
  /\ UNCHANGED <<latches, active>>

Send(command) ==
  /\ Len(link) < MaxInFlight
  /\ link' = Append(link, command)

\* _neutral_and_disarm: neutral, then one DISARM that nothing acknowledges.
NeutralAndDisarm == thrust' = "neutral" /\ Send("disarm")

-----------------------------------------------------------------------------
(* The main thread.                                                        *)

\* A callback that runs in one piece starts and ends with the thread idle; one
\* that goes on to touch the link leaves the thread at its next statement.
MainFrom(pc) == main_pc = pc /\ UNCHANGED <<arm_pc, arm_sends, vehicle, policy_alive>>
MainGoto(pc) == main_pc' = pc
Silent == UNCHANGED <<link, thrust>>

\* _trip_fault: the callers hold control active, hence no fault is latched.
TripFault ==
  /\ faulted' = TRUE
  /\ FreezeControl
  /\ disarm_requested' = TRUE
  /\ MainGoto("cleanup")
  /\ UNCHANGED estopped

OnLocalizationStatus(l) ==
  /\ MainFrom("idle") /\ Silent
  /\ loc' = l /\ UNCHANGED mission
  /\ \E ok \in BOOLEAN :
       IF control_active /\ RequirePoolLocalization /\ ~(ok /\ PoolGate(l))
       THEN TripFault
       ELSE /\ MainGoto("idle")
            /\ UNCHANGED <<node, disarm_requested>>

\* The revocation precedes the assignment of the message; "prepared" is already
\* None by then, so the arm thread cannot tell the two apart.
OnResolvedMission(m) ==
  /\ MainFrom("idle") /\ Silent
  /\ ~control_active
  /\ mission' = m /\ UNCHANGED loc
  /\ IF ArmInProgress \/ hardware_arm_approved
     THEN RevokeFields /\ MainGoto("cleanup")
     ELSE /\ ClearPrepared /\ MainGoto("idle")
          /\ UNCHANGED <<latches, active, watch, disarm_requested>>

PrepareWanted ==
  /\ MainFrom("idle") /\ Silent
  /\ ~estopped /\ ~faulted /\ ~control_active
  /\ UNCHANGED inputs

\* PREPARE while the vehicle is (believed) armed disarms it and is refused.
PrepareWhileArmed ==
  /\ PrepareWanted
  /\ cached_armed
  /\ RevokeFields /\ MainGoto("cleanup")

\* A new PREPARE first discards the previous preview and cancels any ARM.
PrepareBegin ==
  /\ PrepareWanted
  /\ ~cached_armed
  /\ ClearPrepared /\ MainGoto("prepare")
  /\ UNCHANGED <<latches, active, watch, disarm_requested>>

PrepareEnd ==
  /\ MainFrom("prepare") /\ Silent /\ MainGoto("idle")
  /\ UNCHANGED <<latches, active, watch, inputs, generation_moved,
                 hardware_arm_deadline, disarm_requested>>
  /\ \/ RequireResolvedMission /\ ContractGate
        /\ prepared' = mission /\ hardware_arm_approved' = FALSE
     \/ UNCHANGED <<prepared, hardware_arm_approved>>   \* a gate said no

\* START up to its last check; its verdict is used by the assignments below.
StartCheck ==
  /\ MainFrom("idle") /\ Silent /\ MainGoto("start")
  /\ ~estopped /\ ~faulted /\ ~control_active
  /\ LifecycleGate(TRUE)
  /\ hardware_arm_approved /\ cached_armed
  /\ UNCHANGED <<node, inputs, disarm_requested>>

StartActivate ==
  /\ MainFrom("start") /\ Silent /\ MainGoto("idle")
  /\ active_contract' = IF RequireResolvedMission THEN prepared
                        ELSE IF RequirePoolLocalization
                             THEN [id |-> None, loc |-> loc]
                             ELSE None
  /\ control_active' = TRUE
  /\ active_obs_published' = FALSE
  /\ hardware_arm_deadline' = "none"
  /\ last_pwm_rx' = "none"
  /\ first_pwm_deadline' = "running"
  /\ UNCHANGED <<latches, generation_moved, hardware_arm_approved, prepared,
                 inputs, disarm_requested>>

\* Mutant: STOP freezes control but sends no neutral.
StopWithoutNeutral ==
  /\ MainFrom("idle") /\ Silent /\ MainGoto("idle")
  /\ FreezeControl
  /\ UNCHANGED <<latches, inputs, disarm_requested>>

OnStop ==
  /\ MainFrom("idle") /\ Silent /\ MainGoto("neutral")
  /\ FreezeControl
  /\ UNCHANGED <<latches, inputs, disarm_requested>>

OnResetIntegrator ==
  /\ MainFrom("idle") /\ Silent /\ MainGoto("neutral")
  /\ FreezeControl
  /\ faulted' = FALSE
  /\ UNCHANGED <<estopped, inputs, disarm_requested>>

OnDisarm ==
  /\ MainFrom("idle") /\ Silent /\ MainGoto("cleanup")
  /\ FreezeControl
  /\ disarm_requested' = TRUE
  /\ UNCHANGED <<latches, inputs>>

\* Mutant: ESTOP sends neutral but no DISARM.
EstopWithoutDisarm ==
  /\ MainFrom("idle") /\ Silent /\ MainGoto("neutral")
  /\ ~estopped
  /\ estopped' = TRUE
  /\ FreezeControl
  /\ disarm_requested' = TRUE
  /\ UNCHANGED <<faulted, inputs>>

OnEstop ==
  /\ MainFrom("idle") /\ Silent /\ MainGoto("cleanup")
  /\ ~estopped
  /\ estopped' = TRUE
  /\ FreezeControl
  /\ disarm_requested' = TRUE
  /\ UNCHANGED <<faulted, inputs>>

SendNeutral ==
  /\ MainFrom("neutral") /\ MainGoto("idle")
  /\ thrust' = "neutral"
  /\ UNCHANGED <<node, inputs, link, disarm_requested>>

Cleanup ==
  /\ MainFrom("cleanup") /\ MainGoto("idle")
  /\ NeutralAndDisarm
  /\ UNCHANGED <<node, inputs, disarm_requested>>

\* _on_pwm: dropped silently outside active control, otherwise accepted or a
\* fault.  The command is sent, and the watchdog fed, after the last check.
PwmWanted ==
  /\ MainFrom("idle") /\ Silent
  /\ policy_alive
  /\ ~estopped /\ ~faulted /\ control_active /\ active_obs_published
  /\ UNCHANGED inputs

\* Mutant: the gateway looks at the vehicle's flag but not at the approval.
PwmGateWithoutApproval(ok) ==
  /\ ok
  /\ RequirePoolLocalization => PoolGate(loc)
  /\ cached_armed

PwmGate(ok) ==
  /\ ok
  /\ RequirePoolLocalization => PoolGate(loc)
  /\ hardware_arm_approved /\ cached_armed

PwmAccept ==
  /\ PwmWanted /\ PwmGate(TRUE) /\ MainGoto("pwm")
  /\ UNCHANGED <<node, disarm_requested>>

PwmFault ==
  /\ PwmWanted
  /\ \E ok \in BOOLEAN : ~PwmGate(ok)
  /\ TripFault

\* Mutant: an accepted command does not feed the watchdog.
PwmSendUnwatched ==
  /\ MainFrom("pwm") /\ MainGoto("idle")
  /\ thrust' \in {"drive", "neutral"}
  /\ UNCHANGED <<node, inputs, link, disarm_requested>>

PwmSend ==
  /\ MainFrom("pwm") /\ MainGoto("idle")
  /\ thrust' \in {"drive", "neutral"}   \* a zero command is a command
  /\ last_pwm_rx' = "running"
  /\ UNCHANGED <<latches, active, approval, first_pwm_deadline, inputs, link,
                 disarm_requested>>

\* Mutant: the approval never times out.
ApprovalLost == ~cached_armed

\* _inactive_arm_watchdog, first thing of every 25 Hz tick.
ApprovalExpired == ~cached_armed \/ hardware_arm_deadline \in {"none", "expired"}

InactiveArmReason(ok) ==
  /\ ArmInProgress \/ (hardware_arm_approved /\ ~control_active)
  /\ ~LifecycleGate(ok) \/ (hardware_arm_approved /\ ApprovalExpired)

\* Mutant: only the first command has a deadline.
FirstPwmTimeout == last_pwm_rx = "none" /\ first_pwm_deadline = "expired"

\* The first-PWM deadline, replaced by the PWM watchdog at the first command.
PwmTimeout ==
  IF last_pwm_rx = "none" THEN first_pwm_deadline = "expired"
                          ELSE last_pwm_rx = "expired"

TickFrom == MainFrom("idle") /\ Silent /\ UNCHANGED inputs

TickRevoke ==
  /\ TickFrom
  /\ \E ok \in BOOLEAN : InactiveArmReason(ok)
  /\ RevokeFields /\ MainGoto("cleanup")

TickFault ==
  /\ TickFrom
  /\ ~InactiveArmReason(TRUE)
  /\ control_active
  /\ \E ok \in BOOLEAN :
       ~ok \/ (RequirePoolLocalization /\ ~PoolGate(loc)) \/ PwmTimeout
  /\ TripFault

TickHealthy ==
  /\ TickFrom
  /\ ~InactiveArmReason(TRUE)
  /\ control_active
  /\ RequirePoolLocalization => PoolGate(loc)
  /\ ~PwmTimeout

\* A fresh sample: the observation goes out, integrators advance.
TickObservation ==
  /\ TickHealthy /\ MainGoto("idle")
  /\ active_obs_published' = TRUE
  /\ UNCHANGED <<latches, control_active, active_contract, approval, watch,
                 disarm_requested>>

\* _complete_random_mission: a v2 mission ran its laps or its time.
TickComplete ==
  /\ TickHealthy /\ MainGoto("cleanup")
  /\ RequireResolvedMission
  /\ FreezeControl
  /\ disarm_requested' = TRUE
  /\ UNCHANGED latches

Tick == TickRevoke \/ TickFault \/ TickObservation \/ TickComplete

\* A tick that must act whatever the telemetry says.
TickDue ==
  /\ \/ InactiveArmReason(TRUE)
     \/ control_active /\ (PwmTimeout \/ (RequirePoolLocalization /\ ~PoolGate(loc)))
  /\ TickRevoke \/ TickFault

MainStep == PrepareEnd \/ StartActivate \/ SendNeutral \/ Cleanup \/ PwmSend

Request ==
  \/ PrepareWhileArmed \/ PrepareBegin \/ StartCheck
  \/ OnStop \/ OnResetIntegrator \/ OnDisarm \/ OnEstop
  \/ PwmAccept \/ PwmFault
  \/ \E l \in Locs \cup {None} : OnLocalizationStatus(l)
  \/ \E m \in Missions : OnResolvedMission(m)

-----------------------------------------------------------------------------
(* The arm thread: _on_arm_control and RealRobotInterface.arm.             *)

ArmFrom(pc) ==
  arm_pc = pc /\ UNCHANGED <<main_pc, latches, active, inputs, vehicle, policy_alive>>
ArmGoto(pc) == arm_pc' = pc
ArmLocal == UNCHANGED <<approval, watch, link, thrust, disarm_requested>>

ArmCall ==
  /\ ArmFrom("idle") /\ ArmGoto("gate") /\ ArmLocal
  /\ ~estopped /\ ~faulted /\ ~control_active
  /\ UNCHANGED arm_sends

ArmGate ==
  /\ ArmFrom("gate") /\ ArmLocal
  /\ \E ok \in BOOLEAN :
       ArmGoto(IF LifecycleGate(ok) THEN "capture" ELSE "idle")
  /\ UNCHANGED arm_sends

\* generation = self._arm_transaction_generation; _arm_in_progress = True
ArmCapture ==
  /\ ArmFrom("capture") /\ ArmGoto("neutral")
  /\ generation_moved' = FALSE
  /\ disarm_requested' = FALSE
  /\ UNCHANGED <<hardware_arm_approved, hardware_arm_deadline, prepared, watch,
                 link, thrust, arm_sends>>

ArmNeutral ==
  /\ ArmFrom("neutral") /\ ArmGoto("check")
  /\ thrust' = "neutral"
  /\ UNCHANGED <<approval, watch, link, disarm_requested, arm_sends>>

\* Mutant: arm() never consults the predicate.
ArmCheckUncancelled ==
  /\ ArmFrom("check") /\ ArmLocal
  /\ \/ cached_armed /\ ArmGoto("post")
     \/ ~cached_armed /\ arm_sends < MaxArmSends /\ ArmGoto("send")
     \/ ~cached_armed /\ arm_sends > 0 /\ ArmGoto("revoke")
  /\ UNCHANGED arm_sends

\* arm(): the predicate, then the cached flag, then another command or, after
\* the timeout, failure.
ArmCheck ==
  /\ ArmFrom("check") /\ ArmLocal
  /\ \/ Cancelled /\ ArmGoto("revoke")
     \/ ~Cancelled /\ cached_armed /\ ArmGoto("post")
     \/ ~Cancelled /\ ~cached_armed /\ arm_sends < MaxArmSends /\ ArmGoto("send")
     \/ ~Cancelled /\ ~cached_armed /\ arm_sends > 0 /\ ArmGoto("revoke")
  /\ UNCHANGED arm_sends

ArmSend ==
  /\ ArmFrom("send") /\ ArmGoto("check")
  /\ Send("arm")
  /\ arm_sends' = arm_sends + 1
  /\ UNCHANGED <<approval, watch, thrust, disarm_requested>>

\* neutral_stop or the command send raises.
ArmTransportError ==
  /\ arm_pc \in {"neutral", "send"}
  /\ ArmFrom(arm_pc) /\ ArmGoto("revoke") /\ ArmLocal
  /\ UNCHANGED arm_sends

ArmPostGate ==
  /\ ArmFrom("post") /\ ArmLocal
  /\ \E ok \in BOOLEAN :
       ArmGoto(IF LifecycleGate(ok) THEN "confirm" ELSE "revoke")
  /\ UNCHANGED arm_sends

ArmConfirm ==
  /\ ArmFrom("confirm") /\ ArmLocal
  /\ ArmGoto(IF Cancelled THEN "revoke" ELSE "approve")
  /\ UNCHANGED arm_sends

ArmApprove ==
  /\ ArmFrom("approve") /\ ArmGoto("deadline")
  /\ hardware_arm_approved' = TRUE
  /\ UNCHANGED <<generation_moved, hardware_arm_deadline, prepared, watch, link,
                 thrust, disarm_requested, arm_sends>>

ArmSetDeadline ==
  /\ ArmFrom("deadline") /\ ArmGoto("done")
  /\ hardware_arm_deadline' = "running"
  /\ UNCHANGED <<generation_moved, hardware_arm_approved, prepared, watch, link,
                 thrust, disarm_requested, arm_sends>>

ArmRevoke ==
  /\ ArmFrom("revoke") /\ ArmGoto("disarm")
  /\ RevokeFields
  /\ UNCHANGED <<link, thrust, arm_sends>>

ArmDisarm ==
  /\ ArmFrom("disarm") /\ ArmGoto("done")
  /\ NeutralAndDisarm
  /\ UNCHANGED <<approval, watch, disarm_requested, arm_sends>>

\* finally: _arm_in_progress = False
ArmDone ==
  /\ ArmFrom("done") /\ ArmGoto("idle") /\ ArmLocal
  /\ arm_sends' = 0

ArmStep ==
  \/ ArmGate \/ ArmCapture \/ ArmNeutral \/ ArmCheck \/ ArmSend
  \/ ArmTransportError \/ ArmPostGate \/ ArmConfirm \/ ArmApprove
  \/ ArmSetDeadline \/ ArmRevoke \/ ArmDisarm \/ ArmDone

-----------------------------------------------------------------------------
(* The autopilot, the link, time and the controller.                       *)

EnvStep == UNCHANGED <<main_pc, arm_pc, latches, active, prepared,
                       generation_moved, hardware_arm_approved, inputs,
                       arm_sends, thrust, disarm_requested>>
EnvTimers == UNCHANGED <<hardware_arm_deadline, watch>>

\* The autopilot obeys DISARM; its own pre-arm checks may refuse ARM.
VehicleReceive ==
  /\ EnvStep /\ EnvTimers
  /\ link # <<>>
  /\ link' = Tail(link)
  /\ vehicle_armed' \in IF Head(link) = "disarm" THEN {FALSE}
                                                 ELSE {TRUE, vehicle_armed}
  /\ UNCHANGED <<cached_armed, heartbeat, policy_alive>>

HeartbeatSent ==
  /\ EnvStep /\ EnvTimers
  /\ heartbeat = "none"
  /\ heartbeat' = IF vehicle_armed THEN "armed" ELSE "disarmed"
  /\ UNCHANGED <<cached_armed, vehicle_armed, link, policy_alive>>

\* _recv_loop, HEARTBEAT: the cached flag is as old as the message.
HeartbeatReceived ==
  /\ EnvStep /\ EnvTimers
  /\ heartbeat # "none"
  /\ cached_armed' = (heartbeat = "armed")
  /\ heartbeat' = "none"
  /\ UNCHANGED <<vehicle_armed, link, policy_alive>>

PolicyDies ==
  /\ EnvStep /\ EnvTimers
  /\ policy_alive
  /\ policy_alive' = FALSE
  /\ UNCHANGED <<vehicle, link>>

ArmDeadlinePasses ==
  /\ EnvStep
  /\ hardware_arm_deadline = "running" /\ hardware_arm_deadline' = "expired"
  /\ UNCHANGED <<watch, vehicle, link, policy_alive>>

FirstPwmDeadlinePasses ==
  /\ EnvStep
  /\ first_pwm_deadline = "running" /\ first_pwm_deadline' = "expired"
  /\ UNCHANGED <<hardware_arm_deadline, last_pwm_rx, vehicle, link, policy_alive>>

PwmAges ==
  /\ EnvStep
  /\ last_pwm_rx = "running" /\ last_pwm_rx' = "expired"
  /\ UNCHANGED <<hardware_arm_deadline, first_pwm_deadline, vehicle, link,
                 policy_alive>>

Clock == ArmDeadlinePasses \/ FirstPwmDeadlinePasses \/ PwmAges

Next ==
  \/ Request \/ Tick \/ MainStep
  \/ ArmCall \/ ArmStep
  \/ VehicleReceive \/ HeartbeatSent \/ HeartbeatReceived
  \/ PolicyDies \/ Clock

Spec == Init /\ [][Next]_vars

(***************************************************************************)
(* Fairness.  Both threads keep running the callback they are in; the      *)
(* timer callback is served again and again although requests compete for  *)
(* the same group (each executor round serves every ready entity), but     *)
(* only what a tick does for certain, whatever the telemetry says, is      *)
(* relied upon; the link delivers; an ARM approval and a PWM command age.  *)
(* Nothing is assumed of operators, of the controller, of heartbeats or of *)
(* the autopilot's verdict on ARM.                                         *)
(***************************************************************************)
Fairness ==
  /\ WF_vars(MainStep) /\ WF_vars(ArmStep)
  /\ SF_vars(TickDue)
  /\ WF_vars(VehicleReceive)
  /\ WF_vars(ArmDeadlinePasses) /\ WF_vars(PwmAges)

FairSpec == Spec /\ Fairness

-----------------------------------------------------------------------------
(* Properties.                                                             *)

\* The commands already sent leave the vehicle disarmed.
SettlesDisarmed ==
  IF link = <<>> THEN ~vehicle_armed ELSE link[Len(link)] = "disarm"

\* A disarm that ESTOP, a fault, DISARM, a revocation or the end of a mission
\* asked for is never undone by the ARM transaction it races with: unless a
\* thread is still on its way to send DISARM, the last word to the vehicle is
\* DISARM.  ("check" is such a place: the arm thread will see the cancellation.)
DisarmWins ==
  estopped \/ faulted \/ disarm_requested =>
    \/ SettlesDisarmed
    \/ main_pc = "cleanup"
    \/ arm_pc \in {"check", "revoke", "disarm"}

\* Thrusters are only left driven while control is active and a PWM watchdog
\* is counting, or a thread is about to send neutral.  Any revocation that
\* clears the watchdog, from either thread, must be followed by neutral.
NoUnwatchedThrust ==
  thrust = "drive" =>
    \/ main_pc \in {"neutral", "cleanup"}
    \/ control_active /\ (last_pwm_rx # "none" \/ arm_pc = "disarm")

\* In the pool, no thrust without the contract START fixed: the pool alignment
\* is still the one of the contract and, if missions are resolved, so is the
\* mission.  START copies the prepared fields after its checks, and the arm
\* thread may clear them in between.
ThrustUnderContract ==
  RequirePoolLocalization /\ thrust = "drive" =>
    \/ main_pc \in {"neutral", "cleanup"}
    \/ /\ active_contract # None /\ loc = active_contract.loc
       /\ RequireResolvedMission => active_contract = mission

\* The node implements the abstract gateway.  A neutral that the main thread
\* is about to send counts as sent: nothing else runs on that thread before it.
Gate == INSTANCE Gateway WITH
  open <- control_active,
  thrust <- IF main_pc \in {"neutral", "cleanup"} THEN "neutral" ELSE thrust

ImplementsGateway == Gate!GatewaySpec

\* An ARM approval never lingers: START uses it or the watchdog revokes it.
ApprovalResolves ==
  hardware_arm_approved /\ ~control_active
    ~> control_active \/ ~hardware_arm_approved

\* After ESTOP the vehicle ends up disarmed with neutral thrusters, for good,
\* whatever the arm thread was doing.
EstopSettles == estopped ~> [](~vehicle_armed /\ thrust = "neutral")

\* When the controller dies the thrusters become neutral and stay so.
DeadPolicyStops == ~policy_alive ~> [](thrust = "neutral")
=============================================================================
