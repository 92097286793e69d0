# TLA+ models of the BROV2 software stack

`brov_ros2` drives an underwater vehicle (BlueROV2 with an ArduSub autopilot)
from ROS 2. Its safety rests on a few Python processes that decide when a
learned or model-based controller may reach the thrusters. The modules here
model that part of the code, TLC checks them on small instances and TLAPS
proves the main results for every value of the constants. Paths below are
relative to the repository's root.

## 1. Inventory

### Two stacks, one autopilot

* **Monolith** `brov_base/brov_base/obs_node.py`: telemetry, observation,
  guidance and PWM gateway in one process. Controllers publish
  `/brov/thruster_pwm`.
* **Split stack** `brov_base/brov_base/base_node.py` with `observation_node`,
  `guidance_node` and a policy node. Controllers publish `/brov/cmd/wrench`,
  `base_node` turns it into PWM.

Both use `RealRobotInterface` (`mavlink_interface.py`) for the MAVLink link.
Around them: `brov_perception` (marker pose) -> `brov_localization` (pool
alignment) -> `brov_mission` (draft, validate, commit) -> `obs_node`;
`brov_bringup`'s `demo_orchestrator_node` calls their services in order.

### Components

| Component | State | Operations | Hard behaviour | What makes it correct |
|---|---|---|---|---|
| `obs_node` control lifecycle | latches, control flag, ARM transaction (generation, approval, deadline), prepared and active contract, PWM timers | PREPARE, ARM, START, STOP, RESET, DISARM, ESTOP, localization and mission messages, PWM, 25 Hz tick | ARM blocks on a second executor thread and shares every attribute without a lock; deadlines; one unacknowledged DISARM | a cancelled ARM never has the last word; thrust only in watched, active control under the contract START fixed |
| `mavlink_interface` arming | cached `armed` flag, last PWM | `arm`, `disarm`, `neutral_stop`, `send_pwm`, receive loop | cached flag lags; ARM is repeated until a timeout | part of the above |
| `mavlink_interface` parameters | backup of servo functions and camera options; the autopilot's parameters | `enable_passthrough`, `disable_passthrough`, `close` | each of ten verified sets can fail, the rollback too; process death | parameters are held while borrowed and given back |
| `base_node` | prepared / armed / started flags, fault latch, ESTOP, last command time | PREPARE, ARM, START, STOP, DISARM, ESTOP, wrench, timer, shutdown | every service blocks the only thread; sends may raise; services in any order | thrust only behind open gates, watched, with parameters borrowed |
| `mavlink_time` | last boot time per telemetry stream, reset candidates, counters | `observe` | reordered and delayed telemetry, uint32 wrap, reboot | a session changes exactly when the autopilot rebooted |
| `odometry` and the nodes' sessions | last sample, reset count, jump count | convert, compare with the last sample | the EKF moves its origin without a word; the clock wraps | one session identifier names one origin |
| `guidance`, `guidance_node` | waypoint index, laps, random attitude events, timers; mission frame, locked alignment | advance, reset, terminate; fix the frame, fall silent | progress counters that move together; the edge of control and a sample in either order | one attitude per arrival, a complete mission stays complete, no target in a frame that is over |
| `observation`, `observation_node` | integrators, last inputs and their times | build an observation | a target of a dead or of an earlier guidance, integrals cleared by an edge another node sees later | nothing of an earlier session reaches the policy |
| `mission` | parsed YAML | load once | - | pure validation |
| `gazebo_truth` | bounded sample buffer | add, look up | reordered samples | simulation only |
| `brov_localization` | session id, epoch, alignment, sample and pending buffers, tilt confirmation | odometry, vision, visible, initialize, reset, confirm | session changes under buffered samples; two topics | an alignment uses one session's samples; an identity names one alignment |
| `brov_mission` | draft, revision, validated and active mission, latest status and odometry | draft, validate, commit | status, odometry and draft change between validate and commit | one immutable mission per process, bound to the alignment it was validated on |
| `demo_orchestrator_node` | prepared / active flags, latest messages, operation lock | PREPARE, START, STOP: sequences of service calls | timeouts that abandon a call the server carries out; cleanup that fails; re-entrant callbacks | a failed START leaves the vehicle disarmed, also when what it abandoned is served later |
| policy nodes (`policy_node`, `policy_node_mk2`, `policy_wrench_node`, `model_based_controller_node`) | gate, discard flag, last observation, started flag | infer and publish | the edge of control and observations on different topics; previews | commands only from samples of the present session; silent without input |
| `drag_test_node`, `diag_excite_node` | state, phase, level, results, saved file, timers | PREPARE, START, STOP, 40 ms tick, save | a reentrant group: STOP, START and tick overlap around calls of up to 8 s, with a PWM watchdog running | what was stopped is off; the record is complete; the watchdog is fed |
| DVL reader and recorder | socket, file | read, record | - | pure I/O |
| `brov_perception` | camera, detector | detect, publish pose and visible | - | numeric |
| `brov_viz` | display | - | - | nothing in control reads it |
| `cmg_deploy` | latched target and its session, gate | another policy node | an odometry session that changes between target and pose | a target and a pose of one frame |
| `diag_terminal_velocity`, `diag_thruster_map` | armed by the script, parameters borrowed, records | arm, drive, put back, save | an exception or Ctrl-C anywhere | all undone at exit |
| other `diag_*` scripts, `runtime/` scripts | - | run by hand | - | measurement tools |
| `vendor/` (thruster tables), launch, compose, messages | none | - | - | data and configuration |

## 2. What is modelled

### `ObsNode` (with `Gateway`, `MCObsNode`, `ObsNodeProofs`)

The control lifecycle of the monolith and the path of a PWM command. Two
program counters stand for the two executor threads: `main_pc` (the default,
mutually exclusive callback group) and `arm_pc` (`/brov/arm_control`'s own
group). A callback of the main thread is one step, cut where it touches the
link or where the arm thread could tell: PREPARE's and START's checks and
assignments are two steps each, neutral and DISARM a step of their own. Each
statement of `_on_arm_control` and `RealRobotInterface.arm` that reads or writes
something shared is a step.

| Variables | Code |
|---|---|
| `estopped`, `faulted`, `control_active`, `active_obs_published` | attributes of the same name |
| `generation_moved` | `_arm_transaction_generation` differs from what the latest ARM captured; only the comparison is used, so the counter is not needed |
| `hardware_arm_approved`, `hardware_arm_deadline` | attributes; a deadline is none, running or expired |
| `prepared` | `_prepared` and the prepared fields, written and cleared together |
| `active_contract` | `_active_localization_*` and the mission START used |
| `first_pwm_deadline`, `last_pwm_rx` | attributes, as timers |
| `mission`, `loc` | latest messages; a mission carries the pool alignment it is bound to |
| `cached_armed`, `heartbeat`, `link`, `vehicle_armed` | the interface's flag, HEARTBEAT and COMMAND_LONG in flight, the autopilot |
| `thrust` | the last PWM sent, neutral or not |
| `disarm_requested` | history variable: some path asked for DISARM since the last ARM transaction began |

Abstractions. Telemetry, mode, authority, feedback and drift gates compare
numbers with thresholds: their verdict is a free Boolean at each evaluation,
which over-approximates the code. Gates on the node's own state are kept.
`_ready` is part of the free verdict. The link is a FIFO that loses nothing and
holds `MaxInFlight` commands; a lost DISARM is listed as a hazard no code
handles. STOP's `neutral_stop` does not raise. Camera tilt, observation values,
guidance and odometry output are left out. `send_pwm` and `arm` are TRUE.

### `Gateway`

What either PWM gateway promises the vehicle, with no threads, approvals or
contracts: thrust only while the gate is open, closing and ESTOP make it neutral
in the same step, the gate opens on neutral thrusters, after ESTOP it never
opens again. `ObsNode` and `BaseNode` both implement it
(`ImplementsGateway`). For `ObsNode` a neutral the main thread is about to send
counts as sent, since nothing else runs on that thread before; for `BaseNode` a
neutral whose sending raised counts as sent, since nothing sends it again.

### `Passthrough` (with `MCPassthrough`, `InterfaceProofs`)

The parameters `RealRobotInterface` borrows from the autopilot. They outlive the
process, its backup does not. One verified set (three attempts to write and read
back) is one step which succeeds, fails with or without effect, or raises;
`enable_passthrough` sets cameras first, rolls back on failure, and
`disable_passthrough` goes on past a failed parameter and keeps the backup.
`close` may be skipped by a neutral that raises, the process may die at any
point, and another one starts on what it left. A read-back that answers after
`get_parameter` gave up counts as lost.

### `BaseNode` (with `MCBaseNode`, `DriveProofs`)

The split stack's actuator node, with `Passthrough` as part of its state
(`Pass == INSTANCE Passthrough`). One thread spins the node, so a callback is one
step except PREPARE (the verified sets, one by one) and ARM, during which nothing
else runs, the watchdog included. Any send may raise: `_neutral_stop` swallows
the exception (`neutral_failed` remembers it), others end the callback or the
node (`Destroy`). `arm()` returns TRUE or FALSE, as the autopilot pleases.
`repeated` is a history variable: ARM or START was called while control was
already started, which is when the watchdog forgets the last command. Sensor
publication is left out, odometry sessions are in `Telemetry`; so is the autopilot's own state.

### `PoolAlignment` and `AlignmentService` (with `MCPoolAlignment`, `PoolAlignmentProofs`)

`PoolAlignment` is `localization_node.py`, one action per callback (one executor
thread runs them all). A record of odometry is represented by the session it was
measured in, a sample by that and the stamp of its image, a transform by the
set of sessions its samples came from and one of a few values, so that "the
estimate mixes two frames" is a statement about data and not about flags.

| Variables | Code |
|---|---|
| `session_id`, `epoch`, `state`, `alignment`, `alignment_id` | attributes of the same name |
| `boot`, `generation` | `AlignmentIdGenerator`: boot UUID and counter; `uuid5` of the two is the pair |
| `odometry`, `pending`, `samples`, `last_odom` | the three buffers and `_last_odom` |
| `visible`, `tilt_confirmed` | `_visible`, `_camera_tilt_neutral_confirmed` |
| `require_tilt` | the parameter, chosen for each process |
| `status`, `aligned` | the latest message on the two topics |

Ages are not modelled: what `prune` drops and whether a stamp is fresh is free,
as is the verdict of the estimator. Reasons are not modelled, so `_set_state`
with an unchanged state may or may not publish. A `deque` that overflows drops
its oldest entry, which the free pruning covers.

`AlignmentService` is what the rest of the stack relies on: a cell that is empty
or holds one alignment, never replaced in place, filled at most once per epoch
with an alignment of the session being followed and an unused id, given up with
a new epoch and a status message. A status that does not say `output_valid` is
`None` there, since every reader refuses it first.
`PoolAlignment` implements it (`ImplementsService`), so `PoolMission` can use the
small module in place of the large one.

### `MissionManager`, `MissionCore` and `PoolMission` (with `MCPoolMission`, `PoolMissionProofs`)

`MissionManager` is `mission_manager_node.py`: draft, validate, commit and a
restart. A plan stands for the content `plan_hash` covers. `MissionCore` is the
arithmetic: what `core.py` demands of a route (number of points, safe box, length
of every leg, first point, mode of the contract, ranges of the random attitude),
the pool-to-odom transform of a route, `odom_waypoints_to_mission`, the pool
mission frame that `guidance_node` works out by hand, and the goal attitude.
Coordinates are integers and rotations signed permutation matrices: signs, orders
and inverses are as for any rotation, rounding is not modelled. `PoolMission`
composes the manager with `AlignmentService` and with the pool gates of
`obs_node.py`: three processes that restart on their own, talking over topics
that keep their latest message, which a subscriber may take late, twice or never,
in any order with respect to other topics. `nav` is `_current_odometry_session_id`;
a discontinuity, an autopilot reset or a restart starts a new one. PREPARE's and
ARM's gates are the code's comparisons (`PoolGate`, `IdentityGate`,
`ContentGate`, `PreparedGate`); while control is active `obs_node` ignores
missions and supervises the contract, which is `ObsNode`'s part. `approvals` is a
history variable: what the operator had validated. The operational speed limits
of `obs_node.py:1645-1663` are left out.

The missions and localization messages that `ObsNode` takes from its environment
are what `PoolMission` produces; `ObsNode` allows any of them.

### `BootTime` and `Telemetry` (with `MCTelemetry`, `InterfaceProofs`)

`BootTime` is `MavlinkBootTimeTracker.observe` as a function on the tracker's
record, in the order of the code: late packets, small regressions, suspicious
ones that become reset candidates, confirmation by the second stream, wraps,
forward jumps. `Telemetry` puts it between an autopilot that reboots, whose clock
wraps and whose EKF moves its origin without a word, a UDP link that loses, delays
and reorders, and the timer of either node: `base_node` with its jump count in the
session identifier, `obs_node` with `_telemetry_valid`. Every packet carries, as
history, the boot and the origin it was measured in.

| Variables | Code |
|---|---|
| `tracker` | `_last_by_stream`, `_last_rx_by_stream`, candidates, epoch anchor, counters |
| `cache` | `_att_*`, `_pos_*` with their receive times, cleared by a reset |
| `odom` | last sample, its time, `autopilot_reset_count`, `_navigation_jump_count` |
| `vehicle`, `net`, `quiet` | the autopilot, packets in flight, how long each stream and the timer were silent |

Assumed of the environment: a packet is at most `Delay` late, a live stream is at
most `MaxGap` silent, an autopilot that reboots was up for `MinUptime`. `WellTimed`
states how these must compare with the limits of the tracker; its defaults
(`mavlink_time.py:79`: 250 ms, 2 s, 5 min, 5 s, 10 min, 10 s, factor 4) meet it, with
`odom_jump_max_dt_s` of 0.5 s, for packets up to 100 ms late, silences up to 150 ms and
an autopilot that was up for 11 s before it reboots. The model
also records what the tracker cannot do, each an environment it excludes: a
reboot inside the wrap window is taken for a wrap; a packet reordered across a
wrap is accepted as forward; a reboot before both streams were heard gives a
mixed snapshot; a reboot after an outage longer than the previous uptime is not
detected; an outage longer than `odom_jump_max_dt_s` hides a moved origin.
`obs_node` compares samples only while telemetry is valid (`obs_node.py:1068`),
so its own session identity has no property here.

### `DemoOrchestrator` (with `DemoOrchestratorProofs`, `MCDemo`)

`demo_orchestrator_node.py`: one operation at a time under `_operation_lock`, as a
sequence of service calls and waits (`pc`), beside its subscriptions. A call is
answered, refused, or abandoned: then `late` counts a request its server may
still serve, or has served unseen, and later requests may overtake it at most
`MaxOvertake` times. The servers are abstracted to the gates that matter
(`ServeArm`, `ServeStart`, ...), with `obs_node`'s flags in `base` and the
manager's in `mission`. The orchestrator may die and start again anywhere. The
Case-A path (`case_a_points`) is computed over integers in the plane of x and z.

Assumptions: `MaxOvertake = 1`, since with more an ARM abandoned long ago is
served behind any number of disarms and `NoOrphanControl` fails; `NoStaleMessage`,
that `/brov/control_active` is handled before the next call. What the code does
and the model keeps: a failed PREPARE may leave a committed draft that the next
PREPARE reuses (`demo_orchestrator_node.py:599`) and does not reset `_prepared`;
START called again runs the cleanup; STOP is refused while another operation
holds the lock.

### `Controllers` (with `MCControllers`, `DriveProofs`)

`policy_node.py` (and its MK2 variant), `model_based_controller_node.py` and
`cmg_policy_node.py`, one at a time in front of `obs_node`.
`/brov/control_active`, observations or odometry, and PWM are separate topics,
each in order with depth-one queues, with `Lag` ticks from publication to
callback. The fields are those of the code: the gate and
`_discard_next_active_observation`, `_enabled` and the age of the last input, the
latched target and its session. A command carries, as history, whether its sample
and the model controller's START are of the present session and whether target
and pose are of one frame; neutral commands are left out.

### `LOSGuidance` and `SplitStack` (with `MCSplitStack`, `SplitStackProofs`)

`LOSGuidance` is the mission progress of `LOSGuidance.compute`: waypoint index,
dwell, duration, arrival, lap and random-attitude event, in the order of the
code, with geometry abstracted to where the vehicle is relative to the next
waypoint. `SplitStack` is the loop `base_node` -> `guidance_node` ->
`observation_node` -> `policy_wrench_node` -> `base_node` over inboxes of depth
one: START and STOP, new pool alignments, and a `guidance_node` that dies.
`own` marks, as history, what goes back to the frame of the latest START and
alignment from a live guidance, with an integral that began since.

Kept as the code has it: `observation_node` clears its integrals only on a rising
edge it sees; `policy_wrench_node` has no discard-first rule; with
`waypoint_frame="ned"` the START position is subtracted although the parameter's
text says raw world coordinates (`guidance_node.py:379`). A pool frame with random
attitudes cannot be constructed, so `SplitStackAssumption` excludes it. A restart of
`guidance_node` and `depth_source=pressure` are not modelled.

### `DragTest` (with `MCExperiments`, `ExperimentsProofs`)

`drag_test_node.py` in front of `obs_node`'s gate and PWM watchdogs. Its tick,
services and subscriptions share one reentrant group, so a step runs from one
service call of a thread to its next: `terminal` is where PREPARE or START waits,
`ender` where STOP and the tick wait in `_finish` or `_end_single_run`. A call is
served, refused, or served with its answer lost. The phases follow the code
(`ASCEND`, `APPROACH`, `SETTLE_YAW`, `RUN`, `COAST`, `TURNAROUND`, `WAIT`), each
with its time limit and its ways to end the test. `results` are the levels
recorded, `file` what `_save_and_report` last wrote.

`history` holds what the properties excuse: `failed` (a call failed since the
vehicle was last off: nothing repeats it) and `overtaken` (a STOP came while START
waited). PREPARE and START come from one terminal that waits for the answer;
STOP at any time. `initial_ascent_m > 0` with pool alignment is excluded from
`Init`: START refuses it only after arming and leaves the vehicle armed. The
second, best-effort `_finish` of `KeyboardInterrupt` is not modelled. `_end_single_run`
saves a checkpoint although its docstring says it does not.

### `Diagnostics` (with `MCExperiments`, `ExperimentsProofs`)

`diag_terminal_velocity.py` and `diag_thruster_map.py`, a stage of `main` per
step; any stage may raise (once), before or after its effect, and the handlers and
`finally` blocks run as written. Kept outside: a DISARM that is lost, a second
Ctrl-C, sends that raise. Before the try block nothing
is promised: without telemetry `diag_terminal_velocity.py:719` returns after `arm()`,
whose result is ignored, with the vehicle armed and neutral; `ScriptEndsSafe` is
therefore about scripts that have driven the thrusters. The same script, refused by
its mode check, sends a neutral override on close, which the docstring of `close`
(`mavlink_interface.py:857`) reserves for connections that were verified.

## 3. Runs

| Run | Instance | Shows |
|---|---|---|
| `obs_pool` | two missions on two alignments, two ARM commands per transaction, two commands in flight | `DisarmWins`, `NoUnwatchedThrust`, `ThrustUnderContract`, `ImplementsGateway` under every interleaving of the two threads, link and clocks |
| `obs_live` | one mission, one alignment, one ARM command, `FairSpec` | approvals resolve, ESTOP settles disarmed and neutral, a dead controller ends in neutral |
| `pass_once` | two servos, two cameras, three processes, one `enable_passthrough` each | `PassthroughHeld`, `Recoverable`, `CleanExitRestores` under all failures and crashes |
| `base_gates` | one servo, one camera, three PREPARE calls, any operator, `FairSpec` | `DriveGated`, `DriveUnderPassthrough`, `WatchedDrive`, `ImplementsGateway`, `DeadControllerStops` |
| `pool_alignment` | two sessions and the empty id, two images, two samples wanted, two results, three epochs, two processes | `OneSession`, `EnvelopeIsOneFrame`, and the refinement `ImplementsService` with its liveness: a status keeps coming |
| `pool_mission` | two sessions, two epochs, two localizer processes, two routes, three drafts, two missions, two poses, restarts of all three processes | `IdentityNamesAlignment`, `AdmittedIsCurrent`, `AdmittedRouteIsApproved`, `MissionImmutable` |
| `telemetry` | a clock of 40 ticks with wrap window 6, one reboot, one moved origin, six ticks, packets up to one tick late and lost at will, either node | `NoSpuriousReset`, `RebootAnnounced`, `BaseSessionIsOneOrigin`, `ValidIsCurrent` |
| `demo` | the model controller, three poses (reachable, too far, no room), one abandoned request of each service, one restart, `FairSpec` | `CleanOutcomeHolds`, `NoOrphanControl`, `CommittedPathIsSafe`, `ActiveFollowsBase` |
| `controllers` | the three controllers, topics up to two ticks late, two odometry sessions, `ControllersFairSpec` | `AcceptedIsLive`, `SilentWithoutInput` |
| `split_session` | three launch configurations (NED once, pool looped with takeoff, random attitudes), three waypoints, one lap, two sessions and alignments | `PastEnds`, `AttitudePerArrival`, `CompleteIsFinal` |
| `drag` | two levels, every phase one tick long, a watchdog of one tick, all parameters, and the scripts with two bursts, `MCFairSpec` | `StoppedIsOff`, `RecordIsComplete`, `NeverStarved`, `ControlEnds`, `ScriptEndsSafe` |
| `drag_stop` | one level; expects a violation | `StopHolds` fails (section 6) |

Why the bounds are enough. Identities are only compared: two missions on two
alignments give each comparison its equal and its unequal case, and a change
back. A second ARM command is what a retry adds; a third one meets the same
states. `link` holds an ARM and the DISARM behind it. Two servo functions and
two camera options give every order of the two groups with a verified and a
failed member in each; `BaseNode` asks only whether all are set. Three PREPARE
calls give a repeated call during control and one after a DISARM. Three
processes give one that crashes, one that starts on its remains and one after
that. Two sessions, two images and two wanted samples let an estimate mix
sessions if anything survives a change; three epochs let an alignment be made,
given up and made again. In `pool_mission` one value of the transform is enough,
since two alignments already differ in session or epoch, and it is turned and far
from the origin, so that a swapped order or a missing inverse moves the route; a
second localizer process repeats the generations of the first, and a second
mission of one plan and of another exists across a restart of the manager. One of
the two routes is valid but for its closing leg.

In `telemetry` the start at uptime 38 wraps within the run and the one at 8, the
least `MinUptime` that `WellTimed` admits, reboots within it, earlier than
`CandidateMaxBoot`; `MCTimed` makes TLC check that the instance is one the theorems
speak of. In `controllers` the lag of two ticks lets a sample arrive after the
edge it precedes; `Lag = 3` or `MinGap = 4` violate `AcceptedIsLive`: the discard
of one sample is enough only while topics are not later than that and control is
off for that long, and both are named assumptions. In `split_session`
`Settle = DesiredMaxAge + 2` is the smallest value that holds and `MinGap = 0`
violates `PastEnds`; a larger instance (`Lag = 1`, `MinGap = 3`, `Settle = 8`,
6.1 million states) was checked once and holds. `drag` with one tick per phase
reaches every phase, every time limit and every overlap of the three callers with
each phase; the proofs remove the bounds.

Deadlock is checked except in `Passthrough`, `BaseNode`, `Telemetry` (time ends at
`MaxNow`), `Controllers` (`obs_node` and the controller may both be gone) and the
`drag` run (experiments end), whose cfgs say `CHECK_DEADLOCK FALSE`.

Each property of a passing run has a mutant: an operator next to the definition
it replaces, under which the property fails. `TypeOK` documents the domain of a
module's variables; it is a theorem of `ObsNode`, `Passthrough`, `Telemetry`, `PoolAlignment` and
`DemoOrchestrator` (`DragType`, `ScriptType` and `TypesInv` are parts of the
invariants proved), and holds in the runs of `BaseNode` and
`Controllers` (`ControllersType`) when it is added to their cfgs.

## 4. Fairness

`ObsNode`: weak fairness of both threads inside a callback (the executor does
not stop a running callback), strong fairness of what a tick does for certain
(`TickDue`: a due revocation of an idle approval, a passed PWM deadline, a failed
pool gate; each executor round serves every ready entity, so a timer is not
starved by requests in its group; a tick that completes, or finds a fault in the
telemetry, depends on the telemetry and nothing is assumed of it),
weak fairness of the link and of the clocks behind the ARM and PWM deadlines.
`BaseNode`: weak fairness of the service that waits on the autopilot (all its
waits have timeouts), strong fairness of the timer, weak fairness of the clock.
`PoolAlignment`: weak fairness of the status timer, for `ImplementsService`.
`DemoOrchestrator`: weak fairness of `obs_node`'s tick and of the delivery of
`/brov/control_active`; services need not answer. `Controllers`: weak fairness of
the controller's timer and of the delivery of `/brov/control_active`; observations
need not come, which is the point. `DragTest`: weak fairness of the tick, of the
subscription, of both callers (every `_call` has a timeout) and of `obs_node`'s
wait for a first PWM. `PoolMission`, `Telemetry` and `SplitStack` state safety only;
`SplitStack` and `Controllers` bound latency by `Lag` instead.
Nothing is assumed of operators, controllers, heartbeats or the autopilot's
answer to ARM.

## 5. Proofs

Every theorem holds for all values of the constants that satisfy the ASSUMEs of
the module.

`ObsNodeProofs`

* `TypeCorrect` and, with it, the ARM budget of `arm()`.
* `DisarmHasLastWord` (`DisarmWins`). The invariant needs to know, for each place
  the arm thread can be, that a cancellation which happened is still visible:
  `generation_moved` or a latch is set from the request until the thread reads
  it, and a command the thread sent is followed by a DISARM in `link`.
* `ThrustIsWatched` (`NoUnwatchedThrust`). Thrust implies active control; the
  only way to clear the watchdog during active control is the arm thread's
  revocation, and then its neutral is next.
* `ThrustHasContract` (`ThrustUnderContract`). What START copied is still
  prepared whenever the approval stands, so an approval cannot belong to another
  contract when PWM passes the gate.
* `GatewayRefined`: initial states map to initial states, each step to a step of
  `Gateway` or a stutter.

`InterfaceProofs`, `Passthrough`: `PassthroughTypes`, `PassthroughIsHeld` for any number
of calls and processes; `LoanIsRecoverable` and `CleanCloseRestores` assume
`MaxEnables = 1`, which is necessary (section 6).

`InterfaceProofs`, `Telemetry`: for any clock width, limits, number of reboots and of
moves of the origin. All but the types assume `WellTimed`: packets late by less than the
reorder tolerance, silences shorter than the windows of the tracker, an uptime before
a reboot that exceeds them. Outside it the properties fail, as section 2 lists.

* `ResetsAreReboots` (`NoSpuriousReset`) and `RebootsAreAnnounced` (`RebootAnnounced`), from
  `LinkInv`. It splits time in two. Between reboots (`HealthyInv`) no candidate exists
  and the last sample of a stream is the autopilot's clock of a known number of ticks
  ago, modulo the width of the clock; a packet of this boot is then accepted, a wrap, or
  reordered, never suspicious (`HealthyPresent`), and one of an earlier boot is dropped
  as implausibly far ahead (`HealthyBygone`). From a reboot to its detection
  (`PendingInv`) the samples are of the last boot and the candidates of this one, and
  at most one stream has reported: the second confirms the first (`PendingPresent`),
  and what is still late from before cannot clear or make a candidate that
  matters (`PendingBygone`, by `EndInv`: all that is left of the last boot is within
  `Late` of its last reading). `WrapInv` dates the last counted wrap.
* `ValidTelemetryIsCurrent` (`ValidIsCurrent`), from `CacheInv` (what is cached is what
  the tracker took last, of the epoch it counts) and `ClockInv` (each sample carries the
  clock of the boot it names). The signed difference of two readings modulo the width is
  the real one when both are recent (`SignedDifference`); it also assumes
  `2 * (MaxAge + Late) < Modulus`.
* `SessionHasOneOrigin` (`BaseSessionIsOneOrigin`) also assumes
  `JumpMaxDt + 2 >= 2 * (MaxGap + Late)`: successive samples are then close enough in
  time for the jump detector to compare them (`Contiguous`). `EnvelopeInv` ties the first
  envelope of a session to the detector's state.
* The arithmetic of remainders these need (`ModStep`, `ModLater`) is proved first.

`DriveProofs`, `BaseNode`:

* `DriveIsGated` (from: started implies prepared, armed and no ESTOP),
  `DriveIsWatched` (unless ARM or START was repeated, an exception which is
  necessary, section 6) and `BaseGatewayRefined`.
* `DriveIsPassedThrough` (`DriveUnderPassthrough`). `LoanedInv`: a prepared node that
  still runs has every parameter borrowed. A repeated PREPARE may fail and roll back
  while the thrusters are driven; what keeps the property is that its backup was
  read from the borrowed setting, so setting and giving back are both the identity
  (`BorrowedIsFixed`). A node that closes has sent neutral, or could not.

`DriveProofs`, `Controllers`: `AcceptedCommandsAreLive` (`AcceptedIsLive`) assumes
`Lag <= 2`, `MinGap > 2 * Lag` and `MinGap > Lag + 1`; the run's instance is the
least with `Lag = 2`. Both topics stay in the order of publication. `EndedInv`: out of
control, a controller that believes in it has the message that ends it waiting, as
old as the end itself, so after a gap longer than the lag no controller is active at
START and every command that waits is too old to see the first observation
(`BegunInv`). `EnabledInv`: from the first observation on, a sample of the past is at
least two ticks old once the edge can be taken; with `Lag <= 2` at most one such
sample is left, and it is the one the discard rule drops. `ModelInv` says that a
model controller that will discard has no fresh input, and `TargetInv` that a CMG
target in use is of the session of the samples.

`PoolAlignmentProofs`

* `AlignmentTypes`, `AlignmentIsOfOneSession`, `PoseIsInOneFrame`. The
  invariant that makes them inductive is `OneSessionBuffers`: every record and
  sample still held was measured in the session being followed.
* `ServiceRefined`: initial states map to initial states, each callback to a step
  of `AlignmentService` or a stutter. It needs, besides the types, that an
  alignment is held only while INITIALIZED (`HeldWhileInitialized`).

`PoolMissionProofs`

* `IdentityHolds` (`IdentityNamesAlignment`). A step either only copies what is
  somewhere already (`CopiesOnlyFromAlign`) or is `Align`, whose id is above all
  ids used (`AlignIsNew`); ids of earlier processes stay below the present one.
* `AdmittedMissionIsCurrent` (`AdmittedIsCurrent`), from: every copy's transform
  is of the one session it names, and whatever a mission or contract rests on is
  in `approvals`.
* `MissionIsImmutable`: the latched topic offers the active mission.
* `MissionFrameIsPool`: the algebra of `_pool_mission_frame` for every quarter turn and
  translation. It rests on lemmas about the integer matrices of `PoolMessages` and
  `MissionCore` (products, transposes, the quarter turns and the flip of z are
  undone by their transposes).
* `AdmittedRouteIsTheValidatedOne` (`AdmittedRouteIsApproved`): `ValueInv` (every
  transform in use came from the estimator) and `RouteInv` (a mission, wherever a
  copy of it is, holds a validated route resolved with its own transform), then the
  same algebra leads each waypoint back to the pool.

`SplitStackProofs`: `AttitudesCounted` and `CompleteStays`, both from
`GuidanceInv`. `AttitudePerArrival` is not inductive by itself: `ProgressInv` adds
the ranges of index and laps, that a last lap completes the mission, and that a
path without loop is left at its last waypoint but one. `compute` is followed
stage by stage (dwell, reached, advance, arrival), a lemma each.

`PastIsOver` (`PastEnds`) assumes `MinGap > Lag` and
`Settle > 4 * Lag + 1 + DesiredMaxAge`; the run's instance is the least that does.
The bound adds up one latency for each hop of the chain (edge of control or status,
target, observation, wrench) and the age at which a target is dropped. `SplitInv`
bounds, hop by hop, how old the latest message about the past can be, `since` being
the ticks after the event that made it past:

* `TypesInv`: types, and which inboxes hold what; `QuietInv`: out of control, a node
  that still believes in control has the message that ends it waiting, so with
  `MinGap > Lag` all believe it ended when control begins again.
* `EdgeInv`, `CarriedInv`: in control, `guidance_node` (or `observation_node`) has
  either not been told, or has the message waiting, or has taken the edge.
* `FrameInv`, `StatusInv`: a frame that is not own rests on an earlier alignment, and
  then the status that replaces it is on its way.
* `PastInv`: what is past and waits for, or is held by, a later node was published
  at most so many ticks after the event.

`DemoOrchestratorProofs`

* `DemoTypes` and `CommittedPathsAreSafe`, with `CaseAPathIsSafe`: any path
  `case_a_points` accepts has its rise vertical, its segment of full length and all
  of it in the safe box.
* `CleanOutcomesHold` assumes `MaxOvertake <= 1`, which is necessary: with 2 TLC finds
  an ARM served behind the cleanup. `OvertakeInv` counts, for each place an
  operation can be, how many abandoned ARM and START requests may still be served
  (at most two, one once the call before was answered, none after a complete
  cleanup); `OutcomeInv` is what a complete cleanup leaves.
* `ControlHasAnOwner` (`NoOrphanControl`), same assumption: `OrphanInv` follows an
  operation through before, begun and watched and says how far the orchestrator's
  view may lag behind `obs_node`.

`ExperimentsProofs`, `DragTest`: `RecordsComplete`, `StopsOff` and `WatchdogFed` from one
invariant, `DragInv`. `TurnInv` says whose turn it is (the tick ends a test only
while no START is under way, and the other way round), `RecordInv` ties the level
counter to the length of the record (one more in COAST) and the saved file to it,
`OffInv` says what is already off at each call of an ending, `FedInv` that silence
of the tick happens only while the first PWM is awaited. One lemma per action and
part of the invariant it can disturb.

`ExperimentsProofs`, `Diagnostics`: `ScriptsEndSafe`. The invariant says of each stage what is
still to be undone, and that every way out of a stage after the first thrust leads
through the stages that undo it.

The assumptions used are that `None` and `NoSession` are no session, that `None`
is no alignment, id or message (`ValueAssumption`, `NoneAssumption`), that
`NoBackup` is no setting (`BackupAssumption`), that plans, transforms, poses and goals
are integer places and matrices, the transforms quarter turns
(`FramesAssumption`), that at least one sample is wanted, and the positive sizes that
the modules' ASSUMEs name.

Left to TLC: all liveness (`ActiveFollowsBase`, `DeadControllerStops`, `ControlEnds`,
`SilentWithoutInput`, the properties of `obs_live` and the liveness part of
`ImplementsService`), because it needs fairness and ENABLED, which the provers do not
handle. Every safety property that a run checks is a theorem, but for `StopHolds`, which
is false, and the liveness part of the refinements.

## 6. Disagreements found

* **STOP during START does not stop** (`drag_stop`). `drag_test_node.py:45` offers
  STOP at any time. While `_on_start` waits for its services the state is still
  ALIGNED, so `_finish` (line 828) calls neither stop nor disarm and answers
  success; START then arms, starts control and enters RUNNING. `StoppedIsOff`
  states what holds otherwise.

The following were found with runs that are no longer part of the project (the
properties they refuted are gone from the modules, the behaviour is still in
them):

* **A revocation during active control clears its deadlines.**
  `_revoke_hardware_arm` on the arm thread resets `_first_pwm_deadline` and
  `_last_pwm_rx_monotonic` (`obs_node.py:1267`) without asking whether control is
  active; until the next command nothing bounds the wait that
  `docs/POOL_LOCALIZATION_RUNBOOK.md:357` promises to bound. `NoUnwatchedThrust`
  still holds: the revocation sends neutral.
* **A cancellation can be lost.** `_on_arm_control` checks the generation and sets
  the approval in two steps (`obs_node.py:1914`); a STOP, RESET or PREPARE in
  between leaves an approval that START accepts in the mode without missions.
* **`enable_passthrough` twice loses the originals** (`mavlink_interface.py:658`):
  the second call backs up what the first one set.
* **START or ARM during control turns the wrench watchdog off** until the next
  command (`base_node.py:925`); `WatchedDrive` excuses it by `repeated`.
* **A timed-out `arm()` counts as armed** (`base_node.py:878`).
* **Missions with per-leg speeds are always refused** (`obs_node.py:1480`).
  `canonical_plan_content` adds `cruise_speed_per_leg` to the hashed plan, and
  `_resolved_mission_gate` compares the plan's keys with a list that lacks it, so
  Case A2 of `docs/SIM2SWIM_DEMO.md:86` cannot be prepared.

Seen while modelling, without a run:

* The manager also commits `takeoff_then_align` routes that have not three
  waypoints, which `obs_node` refuses; a mission being immutable, only a restart of
  the manager helps. The closing leg of a looped v1 mission is checked by the
  manager and not by `obs_node` (`obs_node.py:1636`).
* The comment at `base_node.py:953` says DISARM gives the parameters back, which
  only `close()` does; the ESTOP answer at line 961 says no command is accepted
  until a restart, while PREPARE and ARM do not look at `_estopped` (no PWM
  follows, which `DriveGated` covers).
* `guidance_node.py:431` counts the silence before a START into the first `dt`, and
  so into the duration of a random-attitude mission.
* A lost answer to the drag test's ARM leaves the vehicle armed with state ALIGNED,
  where STOP does not disarm it; `failed` excuses it.

## 7. Not modelled, and what could follow

* Arithmetic on reals: SE(3) and frame conversion beyond quarter turns, the
  alignment estimator, velocities and attitudes of guidance, the observation
  vector, control laws, inference, thruster tables, the fits of the drag tests,
  image processing. Where control depends on such a value its verdict is free.
* Camera tilt (its ramp goes on after a localization reset, `obs_node.py:2472`),
  feedback diagnostics and the PWM slew check of `obs_node.py:2386`.
* `diag_excite_node` and the delay measurements, `gazebo_truth`, DVL reading and
  recording, `brov_viz`: no decision of the control path rests on them.
* YAML parsing, launch, compose and message files: no state.
* A lost DISARM and exceptions out of a callback of `obs_node`: nothing in the code
  handles them.

Next in order of worth: `diag_excite_node` as a second client of `obs_node`; a
restart of `guidance_node` in `SplitStack`.
