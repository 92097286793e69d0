------------------------------ MODULE BaseNode ------------------------------
(***************************************************************************)
(* The actuator node of the split stack, brov_base/base_node.py: services  *)
(* PREPARE -> ARM -> START -> STOP / DISARM, the wrench subscription that  *)
(* becomes PWM, the fault latch, ESTOP and the wrench watchdog.            *)
(*                                                                         *)
(* One thread spins the node, so a callback is one step, except the two    *)
(* that wait on the autopilot: PREPARE (verified parameter sets, module    *)
(* Passthrough) and ARM.  While they wait nothing else runs, the watchdog  *)
(* included.  Telemetry gates are data and may refuse any service.  Any    *)
(* send to the autopilot may raise.  send_pwm and arm are TRUE.            *)
(***************************************************************************)
EXTENDS Naturals

CONSTANTS
  Servos, Cameras, NoBackup,
  MaxEnables    \* bound: PREPARE calls

VARIABLES
  prepared, armed_by_us, started, faulted, estopped,
  last_cmd,             \* _last_cmd_monotonic: no command, recent, overdue
  stopped_by_watchdog,
  pc,                   \* the service that is waiting on the autopilot
  thrust,               \* last PWM sent
  policy_alive,         \* a controller still publishes wrenches
  neutral_failed,       \* history: the last send raised instead
  repeated,             \* history: ARM or START was called while started
  fc, backup, job, todo, failed, held, found, exit, enables, runs

Pass == INSTANCE Passthrough WITH MaxRuns <- 1

ASSUME BackupAssumption == NoBackup \notin Pass!Setting

passthrough == <<fc, backup, job, todo, failed, held, found, exit, enables, runs>>
lifecycle == <<prepared, armed_by_us, started>>
latches == <<faulted, estopped>>
watch == <<last_cmd, stopped_by_watchdog>>
output == <<thrust, neutral_failed>>
callers == <<policy_alive, repeated>>
vars == <<lifecycle, latches, watch, output, pc, callers, passthrough>>

TypeOK ==
  /\ Pass!TypeOK
  /\ prepared \in BOOLEAN /\ armed_by_us \in BOOLEAN /\ started \in BOOLEAN
  /\ faulted \in BOOLEAN /\ estopped \in BOOLEAN
  /\ last_cmd \in {"none", "recent", "overdue"}
  /\ stopped_by_watchdog \in BOOLEAN
  /\ pc \in {"idle", "prepare", "arm"}
  /\ thrust \in {"neutral", "drive"}
  /\ policy_alive \in BOOLEAN /\ neutral_failed \in BOOLEAN
  /\ repeated \in BOOLEAN

Init ==
  /\ Pass!Init
  /\ prepared = FALSE /\ armed_by_us = FALSE /\ started = FALSE
  /\ faulted = FALSE /\ estopped = FALSE
  /\ last_cmd = "none" /\ stopped_by_watchdog = FALSE
  /\ pc = "idle"
  /\ thrust = "neutral" /\ neutral_failed = FALSE
  /\ policy_alive = TRUE /\ repeated = FALSE

Up == exit = "running" /\ job # "close"
Callback ==
  Up /\ pc = "idle" /\ pc' = "idle" /\ UNCHANGED <<callers, passthrough>>

Sent(pwm) == thrust' = pwm /\ neutral_failed' = FALSE

\* _neutral_stop: an exception is logged and swallowed.
NeutralStop ==
  \/ Sent("neutral")
  \/ neutral_failed' = TRUE /\ UNCHANGED thrust

ForgetCommands == last_cmd' = "none" /\ stopped_by_watchdog' = FALSE

-----------------------------------------------------------------------------
(* PREPARE: enable_passthrough, then (depth_source = pressure) the choice  *)
(* of a barometer, which may refuse.  It looks at no latch.                *)

PrepareUnread ==
  /\ Up /\ pc = "idle"
  /\ Pass!EnableUnread
  /\ UNCHANGED <<lifecycle, latches, watch, output, pc, callers>>

PrepareBegin ==
  /\ Up /\ pc = "idle" /\ pc' = "prepare"
  /\ Pass!EnableBegin
  /\ UNCHANGED <<lifecycle, latches, watch, output, callers>>

PrepareWork ==
  /\ Up /\ pc = "prepare"
  /\ Pass!EnableStep \/ Pass!RestoreStep
  /\ pc' = IF job' = "none" THEN "idle" ELSE pc
  /\ prepared' \in IF held' THEN {TRUE, prepared} ELSE {prepared}
  /\ UNCHANGED <<armed_by_us, started, latches, watch, output,
                 callers>>

-----------------------------------------------------------------------------
(* The other services.                                                     *)

SrvArm ==
  /\ Up /\ pc = "idle" /\ pc' = "arm"
  /\ ~faulted /\ prepared
  /\ repeated' = (repeated \/ started)
  /\ UNCHANGED <<lifecycle, latches, watch, output, policy_alive, passthrough>>

\* arm() returned; its result, False after a timeout, is not looked at.
ArmReturns ==
  /\ Up /\ pc = "arm" /\ pc' = "idle"
  /\ armed_by_us' = TRUE
  /\ ForgetCommands
  /\ UNCHANGED <<prepared, started, latches, output, callers, passthrough>>

ArmRaises ==
  /\ Up /\ pc = "arm" /\ pc' = "idle"
  /\ UNCHANGED <<lifecycle, latches, watch, output, callers, passthrough>>

SrvStart ==
  /\ Up /\ pc = "idle"
  /\ ~estopped /\ ~faulted /\ prepared /\ armed_by_us
  /\ repeated' = (repeated \/ started)
  /\ started' = TRUE
  /\ ForgetCommands
  /\ UNCHANGED <<prepared, armed_by_us, latches, output, pc,
                 policy_alive, passthrough>>

SrvStop ==
  /\ Callback
  /\ started' = FALSE
  /\ ForgetCommands
  /\ NeutralStop
  /\ UNCHANGED <<prepared, armed_by_us, latches>>

SrvDisarm ==
  /\ Callback
  /\ NeutralStop
  /\ armed_by_us' = FALSE
  /\ started' = FALSE /\ prepared' = FALSE
  /\ faulted' = FALSE
  /\ UNCHANGED <<estopped, watch>>

\* disarm() raised: only the neutral command was attempted.
SrvDisarmRaises ==
  /\ Callback
  /\ NeutralStop
  /\ UNCHANGED <<lifecycle, latches, watch>>

\* Mutant: ESTOP forgets the neutral command.
EstopSilent ==
  /\ Callback
  /\ estopped' = TRUE /\ started' = FALSE /\ prepared' = FALSE
  /\ UNCHANGED <<armed_by_us, faulted, watch, output>>

OnEstop ==
  /\ Callback
  /\ estopped' = TRUE /\ started' = FALSE /\ prepared' = FALSE
  /\ NeutralStop
  /\ UNCHANGED <<armed_by_us, faulted, watch>>

-----------------------------------------------------------------------------
(* Wrenches and the watchdog.  A send_pwm that raises ends the node: Destroy. *)

\* Mutant: START is not asked for.
WrenchUnstarted ==
  /\ Callback /\ policy_alive
  /\ ~estopped /\ ~faulted /\ armed_by_us

WrenchWanted ==
  /\ Callback /\ policy_alive
  /\ ~estopped /\ ~faulted /\ armed_by_us /\ started

\* Mutant: a command after a watchdog stop leaves the watchdog tripped.
WrenchKeepsStop ==
  /\ WrenchWanted
  /\ \E pwm \in {"drive", "neutral"} : Sent(pwm)
  /\ last_cmd' = "recent"
  /\ UNCHANGED <<lifecycle, latches, stopped_by_watchdog>>

WrenchSent ==
  /\ WrenchWanted
  /\ \E pwm \in {"drive", "neutral"} : Sent(pwm)   \* zero is a command, too
  /\ last_cmd' = "recent" /\ stopped_by_watchdog' = FALSE
  /\ UNCHANGED <<lifecycle, latches>>

\* _trip: not finite, too large or too fast.
WrenchTrips ==
  /\ WrenchWanted
  /\ faulted' = TRUE
  /\ NeutralStop
  /\ UNCHANGED <<lifecycle, estopped, watch>>

\* The neutral is sent once per silence, whether or not sending it raises.
TickWatchdog ==
  /\ Callback
  /\ last_cmd = "overdue" /\ ~stopped_by_watchdog
  /\ NeutralStop
  /\ stopped_by_watchdog' = TRUE
  /\ UNCHANGED <<lifecycle, latches, last_cmd>>

CommandAges ==
  /\ last_cmd = "recent" /\ last_cmd' = "overdue"
  /\ UNCHANGED <<lifecycle, latches, stopped_by_watchdog, output, pc,
                 callers, passthrough>>

PolicyDies ==
  /\ policy_alive /\ policy_alive' = FALSE
  /\ UNCHANGED <<repeated, lifecycle, latches, watch, output, pc, passthrough>>

-----------------------------------------------------------------------------
(* destroy_node, out of any callback (a keyboard interrupt, an exception): *)
(* neutral, disarm, close.  A disarm or a neutral that raises skips the    *)
(* restoration.                                                            *)

Destroy ==
  /\ Up /\ pc' = "idle"
  /\ NeutralStop
  /\ Pass!CloseBegin \/ Pass!CloseSkipped
  /\ UNCHANGED <<lifecycle, latches, watch, callers>>

CloseWork ==
  /\ job = "close" /\ Pass!RestoreStep
  /\ UNCHANGED <<lifecycle, latches, watch, output, pc, callers>>

Waiting == PrepareWork \/ ArmReturns \/ ArmRaises

Request ==
  \/ PrepareUnread \/ PrepareBegin \/ SrvArm \/ SrvStart \/ SrvStop
  \/ SrvDisarm \/ SrvDisarmRaises \/ OnEstop

Next ==
  \/ Request \/ Waiting
  \/ WrenchSent \/ WrenchTrips \/ TickWatchdog
  \/ CommandAges \/ PolicyDies
  \/ Destroy \/ CloseWork

Spec == Init /\ [][Next]_vars

(***************************************************************************)
(* Fairness.  A service that waits on the autopilot ends; the timer        *)
(* callback is served again and again although requests compete for the    *)
(* one thread; time passes.  Nothing is assumed of operators or of the     *)
(* controller.                                                             *)
(***************************************************************************)
Fairness == WF_vars(Waiting) /\ SF_vars(TickWatchdog) /\ WF_vars(CommandAges)

FairSpec == Spec /\ Fairness

-----------------------------------------------------------------------------
(* Properties.                                                             *)

\* Thrusters are left driven only while every gate is open: prepared, armed,
\* started, no fault, no ESTOP.  Whatever closes one of them also sends
\* neutral; the one excuse is a neutral whose sending raised.
DriveGated ==
  thrust = "drive" =>
    \/ neutral_failed
    \/ prepared /\ armed_by_us /\ started /\ ~faulted /\ ~estopped

\* PWM reaches the servos as PWM: while thrusters are driven every borrowed
\* parameter is set, also when PREPARE is called again and fails half way, and
\* when the node is destroyed.
DriveUnderPassthrough == thrust = "drive" => neutral_failed \/ fc = Pass!Borrowed

\* Driven thrusters have an untripped watchdog counting from the last command,
\* until ARM or START is called again while control runs: each forgets the last
\* command and with it the watchdog.
WatchedDrive ==
  thrust = "drive" /\ ~neutral_failed =>
    repeated \/ (last_cmd # "none" /\ ~stopped_by_watchdog)

\* When the controller dies the watchdog sends neutral, after which nothing
\* drives the thrusters again.  The excuses are a neutral whose sending raised
\* and a repeated ARM or START.
DeadControllerStops ==
  ~policy_alive ~> [](thrust = "neutral" \/ neutral_failed \/ repeated)

\* The split-stack node makes the same gateway promises as the monolith, as
\* far as it is up to the node: a neutral whose sending raised counts as sent,
\* because nothing sends it again.
Gate == INSTANCE Gateway WITH
  open <- armed_by_us /\ started /\ ~faulted /\ ~estopped,
  thrust <- IF neutral_failed THEN "neutral" ELSE thrust

ImplementsGateway == Gate!GatewaySpec
=============================================================================
