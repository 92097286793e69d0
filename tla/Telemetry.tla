------------------------------ MODULE Telemetry ------------------------------
(***************************************************************************)
(* The way of a navigation sample: the autopilot sends attitude and        *)
(* position over UDP, RealRobotInterface._recv_loop filters them with the  *)
(* boot-time tracker and caches one of each, and the timer of base_node,   *)
(* or of obs_node, publishes odometry under a session identifier that is   *)
(* to change whenever the frame of the samples does.                       *)
(*                                                                         *)
(* The autopilot may reboot and its EKF may move the origin of the local   *)
(* frame without a word; UDP loses, delays and reorders packets.           *)
(***************************************************************************)
EXTENDS BootTime, FiniteSets

CONSTANTS StartUptimes,    \* uptimes of the autopilot when the process starts
          Delay,           \* how late a packet of a stream may arrive
          MaxGap,          \* how long a stream or the timer may be silent
          JumpMaxDt,       \* odom_jump_max_dt_s
          MaxAge,          \* att_max_age_s, pos_max_age_s
          SkewMax,         \* telemetry_source_skew_max_ms
          MinUptime,       \* an autopilot that reboots was up for so long
          MaxNow, MaxBoots, MaxOrigins   \* bounds of the model

Att == "attitude"
Pos == "local_position"

ASSUME TelemetryAssumption ==
  /\ Streams = {Att, Pos}
  /\ StartUptimes \subseteq Nat /\ Delay \in [Streams -> Nat]
  /\ {MaxGap, JumpMaxDt, MaxAge, SkewMax, MinUptime, MaxNow, MaxBoots, MaxOrigins}
       \subseteq Nat

Timer == "tick"
Nodes == {"base_node", "obs_node"}

VARIABLES
  now,      \* the monotonic clock of the process
  vehicle,  \* the autopilot: boots, uptime, wraps of its clock, EKF origin
  net,      \* the packets on their way
  quiet,    \* for how long each stream and the timer have been silent
  node,     \* which of the two nodes runs the interface
  tracker,  \* _mavlink_boot_time
  cache,    \* _att_quat_ned.., _pos_ned.. with their receive times
  fresh,    \* (att_seq, pos_seq) differs from the last odometry key
  odom,     \* the state of the jump detector
  active,   \* _control_active (obs_node)
  first     \* history: session and origin of the session's first envelope

telemetryvars ==
  <<now, vehicle, net, quiet, node, tracker, cache, fresh, odom, active, first>>
autopilot == <<vehicle, net>>
publisher == <<node, fresh, odom, active, first>>

Packet == [stream : Streams, boot : Nat, up : Nat, origin : Nat, at : Nat]
Cached == [packet : Packet, rx : Nat]

ASSUME NothingAssumption == None \notin Cached /\ None \notin Nat \X Nat

TelemetryInit ==
  /\ now = 0
  /\ \E up \in StartUptimes :
       vehicle = [boot |-> 0, up |-> up, wraps |-> 0, origin |-> 0]
  /\ net = {}
  /\ quiet = [q \in Streams \cup {Timer} |-> 0]
  /\ node \in Nodes
  /\ tracker = NewTracker
  /\ cache = [s \in Streams |-> None]
  /\ fresh = FALSE
  /\ odom = [raw |-> None, nav |-> 0, origin |-> None, time |-> 0, resets |-> 0]
  /\ active = FALSE
  /\ first = [session |-> None, origin |-> None]

-----------------------------------------------------------------------------
(* The autopilot and the network *)

TimeBootMs(p) == p.up % Modulus

\* One tick: every stream sends its sample, packets that were not received
\* within Delay are lost, and nothing is silent for longer than MaxGap.
Tick ==
  /\ now < MaxNow
  /\ \A q \in DOMAIN quiet : quiet[q] < MaxGap
  /\ now' = now + 1
  /\ vehicle' = [vehicle EXCEPT
                   !.up = @ + 1,
                   !.wraps = IF (vehicle.up + 1) % Modulus = 0 THEN @ + 1 ELSE @]
  /\ net' = {p \in net : now' - p.at <= Delay[p.stream]}
            \cup {[stream |-> s, boot |-> vehicle.boot, up |-> vehicle'.up,
                   origin |-> vehicle.origin, at |-> now'] : s \in Streams}
  /\ quiet' = [q \in DOMAIN quiet |-> quiet[q] + 1]
  /\ UNCHANGED <<tracker, cache, publisher>>

\* Assumed of a reboot: both streams were heard before it, the autopilot had
\* been up for some time, and its clock was not about to wrap (in those ten
\* minutes of 49.7 days the tracker takes a reboot for a wrap).
Reboot ==
  /\ vehicle.boot < MaxBoots
  /\ \A s \in Streams : tracker.last[s] # None
  /\ vehicle.up % Modulus \in MinUptime .. Modulus - WrapWindow - 1
  /\ vehicle' = [vehicle EXCEPT !.boot = @ + 1, !.up = 0]
  /\ quiet' = [quiet EXCEPT ![Att] = 0, ![Pos] = 0]
  /\ UNCHANGED <<now, net, tracker, cache, publisher>>

MoveOrigin ==
  /\ vehicle.origin < MaxOrigins
  /\ vehicle' = [vehicle EXCEPT !.origin = @ + 1]
  /\ UNCHANGED <<now, net, quiet, tracker, cache, publisher>>

-----------------------------------------------------------------------------
(* The receiver thread *)

\* _clear_navigation_stream_locked, _clear_navigation_telemetry_locked and the
\* store of an accepted payload.
Stored(d, p) ==
  LET mine == [packet |-> p, rx |-> now]
  IN [s \in Streams |->
        IF s = p.stream
        THEN IF Accepted(d) THEN mine
             ELSE IF d = "reset_candidate" THEN None ELSE cache[s]
        ELSE IF d = "reset" THEN None ELSE cache[s]]

\* _recv_loop for one ATTITUDE_QUATERNION or LOCAL_POSITION_NED.
Receive(p) ==
  /\ p \in net
  /\ net' = net \ {p}
  /\ quiet' = [quiet EXCEPT ![p.stream] = IF p.boot = vehicle.boot THEN 0 ELSE @]
  /\ LET d == Disposition(tracker, p.stream, TimeBootMs(p), now)
     IN /\ cache' = Stored(d, p)
        /\ fresh' = (fresh \/ Accepted(d))
  /\ tracker' = Observe(tracker, p.stream, TimeBootMs(p), now)
  /\ UNCHANGED <<now, vehicle, node, odom, active, first>>

-----------------------------------------------------------------------------
(* The timer of the node *)

\* snapshot() is not None.
Snapshot == \A s \in Streams : cache[s] # None
Age(s) == now - cache[s].rx

\* The difference of the two boot times as a signed number modulo Modulus.
SignedSkew ==
  LET raw == (TimeBootMs(cache[Att].packet) - TimeBootMs(cache[Pos].packet)) % Modulus
  IN IF 2 * raw >= Modulus THEN raw - Modulus ELSE raw

\* Mutant: obs_node looks at ages only.
ValidByAge == Snapshot /\ \A s \in Streams : Age(s) < MaxAge

\* BrovState.valid of base_node, _telemetry_valid of obs_node.
Valid ==
  /\ Snapshot
  /\ IF node = "base_node"
     THEN \A s \in Streams : Age(s) <= MaxAge
     ELSE /\ \A s \in Streams : Age(s) < MaxAge
          /\ SignedSkew \in -SkewMax .. SkewMax

Origin(s) == <<cache[s].packet.boot, cache[s].packet.origin>>
SampleTime == IF cache[Att].rx > cache[Pos].rx THEN cache[Att].rx ELSE cache[Pos].rx

\* _detect_odometry_jump: a position far from the previous one, shortly after
\* it, in the same MAVLink session.
Jump ==
  /\ odom.raw = tracker.resets
  /\ SampleTime - odom.time \in 0 .. JumpMaxDt
  /\ Origin(Pos) # odom.origin

Detected ==
  [odom EXCEPT !.raw = tracker.resets,
               !.nav = IF odom.raw # tracker.resets THEN 0
                       ELSE IF Jump THEN @ + 1 ELSE @,
               !.origin = Origin(Pos),
               !.time = SampleTime]

\* Mutant: the identifier leaves out the jumps.
SessionOfBoot(o) == <<o.raw, 0>>

\* The session identifier: process and boot epoch, then the jumps within it.
Session(o) == <<o.raw, o.nav>>

\* The envelope of the sample: the first one of its session is remembered.
Published ==
  first' = IF first.session = Session(Detected) THEN first
           ELSE [session |-> Session(Detected), origin |-> Origin(Pos)]

\* base_node publishes every new sample, whatever its age.
PublishSample ==
  /\ node = "base_node"
  /\ IF Snapshot /\ fresh
     THEN /\ fresh' = FALSE
          /\ odom' = Detected
          /\ Published
     ELSE UNCHANGED <<fresh, odom, first>>
  /\ UNCHANGED active

\* obs_node faults on invalid telemetry before it looks at the sample, on a
\* jump before it publishes and on a MAVLink reset after it has published.
PublishOrFault ==
  /\ node = "obs_node"
  /\ \/ /\ ~ Valid
        /\ active' = FALSE
        /\ UNCHANGED <<fresh, odom, first>>
     \/ /\ Valid /\ ~ fresh
        /\ UNCHANGED <<fresh, odom, active, first>>
     \/ /\ Valid /\ fresh /\ Jump
        /\ fresh' = FALSE /\ odom' = Detected /\ active' = FALSE
        /\ UNCHANGED first
     \/ /\ Valid /\ fresh /\ ~ Jump
        /\ fresh' = FALSE
        /\ odom' = [Detected EXCEPT !.resets = tracker.resets]
        /\ active' = (active /\ odom.resets = tracker.resets)
        /\ Published

\* _tick
NodeTick ==
  /\ PublishSample \/ PublishOrFault
  /\ quiet' = [quiet EXCEPT ![Timer] = 0]
  /\ UNCHANGED <<now, autopilot, node, tracker, cache>>

\* START checks the telemetry; STOP does not.
StartControl ==
  /\ node = "obs_node" /\ Valid /\ ~ active
  /\ active' = TRUE
  /\ UNCHANGED <<now, autopilot, quiet, node, tracker, cache, fresh, odom, first>>

StopControl ==
  /\ active
  /\ active' = FALSE
  /\ UNCHANGED <<now, autopilot, quiet, node, tracker, cache, fresh, odom, first>>

TelemetryNext ==
  \/ Tick \/ Reboot \/ MoveOrigin
  \/ \E p \in net : Receive(p)
  \/ NodeTick \/ StartControl \/ StopControl

TelemetrySpec == TelemetryInit /\ [][TelemetryNext]_telemetryvars

-----------------------------------------------------------------------------
(* Properties *)

\* Type invariant.
TelemetryTypeOK ==
  /\ now \in Nat
  /\ vehicle \in [boot : Nat, up : Nat, wraps : Nat, origin : Nat]
  /\ net \subseteq Packet
  /\ quiet \in [Streams \cup {Timer} -> Nat]
  /\ node \in Nodes
  /\ tracker \in Tracker
  /\ cache \in [Streams -> Cached \cup {None}]
  /\ fresh \in BOOLEAN /\ active \in BOOLEAN
  /\ odom \in [raw : Nat \cup {None}, nav : Nat,
               origin : (Nat \X Nat) \cup {None}, time : Nat, resets : Nat]
  /\ first \in [session : (Nat \X Nat) \cup {None},
                origin : (Nat \X Nat) \cup {None}]

\* The longest that any packet may be on its way, and at least one tick.
Late == IF Delay[Att] >= Delay[Pos] /\ Delay[Att] >= 1 THEN Delay[Att]
        ELSE IF Delay[Pos] >= 1 THEN Delay[Pos] ELSE 1

\* What the limits of the tracker ask of the link and of the autopilot: packets
\* late within the reorder tolerance, silences shorter than the windows, and an
\* uptime before a reboot that tells its clock from the one after.
WellTimed ==
  /\ Late <= MaxGap
  /\ Late <= ReorderTolerance /\ Late <= MaxForwardJump
  /\ Late + 2 * WrapWindow < Modulus
  /\ MaxGap + Late <= WrapWindow
  /\ MaxGap + Late <= ConfirmationWindow + 1
  /\ MaxGap + Late <= CandidateSkew /\ MaxGap + Late <= CandidateMaxBoot
  /\ MinUptime > ReorderTolerance + 2 * (MaxGap + Late)
  /\ MinUptime > MaxForwardJump + ClockSlack * Late + 2 * Late

\* However the packets of the two streams are delayed, reordered or lost, a
\* session ends, and a wrap is counted, only when the autopilot really rebooted
\* and its clock really wrapped: neither is taken for the other.
NoSpuriousReset == tracker.resets <= vehicle.boot /\ tracker.wraps <= vehicle.wraps

\* A reboot is announced within a few ticks of the streams coming back, in
\* whatever order they report it and whatever arrives late from before.
AnnounceBy == 2 * MaxGap + 1
RebootAnnounced ==
  (vehicle.boot > 0 /\ vehicle.up >= AnnounceBy) => tracker.resets = vehicle.boot

\* Odometry that base_node publishes under one session identifier has one origin
\* (boot and EKF origin), while the link holds: pool alignment keeps one
\* transform per session.
BaseSessionIsOneOrigin ==
  node = "base_node" /\ first.session = Session(odom) => first.origin = odom.origin

\* The attitude and the position that snapshot() hands out together are never
\* from two boots of the autopilot, and telemetry that obs_node calls valid was
\* sampled recently, the two halves close to each other, across a wrap of the
\* boot clock and a reboot too.
ValidIsCurrent ==
  /\ Snapshot => cache[Att].packet.boot = cache[Pos].packet.boot
  /\ (Valid /\ node = "obs_node") =>
       /\ \A s \in Streams : now - cache[s].packet.at <= MaxAge + Delay[s]
       /\ Distance(cache[Att].packet.at, cache[Pos].packet.at) <= SkewMax
=============================================================================
