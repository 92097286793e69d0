----------------------------- MODULE PoolMission -----------------------------
(***************************************************************************)
(* The pool stack: the localizer (AlignmentService, which PoolAlignment    *)
(* implements), the mission manager (MissionManager) and the gates of      *)
(* brov_base/obs_node.py, three processes that talk over topics and        *)
(* restart on their own.  What ObsNode takes as given, the missions and    *)
(* alignments that arrive, is produced here; what the node does with them  *)
(* once control runs is in ObsNode.                                        *)
(*                                                                         *)
(* A topic holds its latest message, which a subscriber may take at any    *)
(* time or miss (depth 1, or best effort).  Nothing orders one topic       *)
(* against another.                                                        *)
(***************************************************************************)
EXTENDS AlignmentService, MissionManager

CONSTANTS
  Operational,              \* the limits of obs_node
  Poses,                    \* where the autopilot may see the vehicle, level
  Goals,                    \* attitudes a random mission may ask for, in the pool
  MaxSession                \* bound: odometry sessions of the vehicle

ASSUME SessionsAssumption ==
  MaxSession \in Nat \ {0} /\ Sessions = 1..MaxSession

\* Routes are of places, alignments are rigid transforms, poses are level.
ASSUME FramesAssumption ==
  /\ \A p \in Plans : Content[p].points \in Seq(Places)
  /\ \A v \in Values : Transform[v].translation \in Places /\ Transform[v].rotation \in Rotations
  /\ \A pose \in Poses : pose.position \in Places /\ pose.yaw \in Int
  /\ Goals \subseteq Matrices

VARIABLES
  nav,                      \* _current_odometry_session_id of obs_node
  odometry_topic,           \* session in the latest OdometrySession message
  obs_status, obs_mission,  \* _localization_status, _resolved_mission
  prepared                  \* mission PREPARE accepted, or None

obs_vars == <<nav, odometry_topic, obs_status, obs_mission, prepared>>
vars == <<service_vars, mission_vars, obs_vars>>

Init ==
  /\ ServiceInit /\ MissionInit
  /\ nav = 1 /\ odometry_topic = NoSession
  /\ obs_status = None /\ obs_mission = None /\ prepared = None

-----------------------------------------------------------------------------
(* The gates.  Ages and contents not modelled are free in Prepare.         *)

\* Mutant: any session will do.
PoolGateAnySession ==
  /\ obs_status # None
  /\ obs_status.epoch > 0
  /\ obs_status.session_id # NoSession /\ obs_status.alignment_id # None

\* _pool_localization_gate before control is active
PoolGate ==
  /\ obs_status # None
  /\ obs_status.epoch > 0
  /\ obs_status.session_id # NoSession /\ obs_status.alignment_id # None
  /\ obs_status.session_id = nav

\* _CANONICAL_V1_KEYS, _CANONICAL_V2_KEYS
ExpectedKeys ==
  CanonicalKeys([cruise_speed_per_leg |-> <<>>, contract |-> Settings.contract])

RandomMetadataKeys ==
  {"seed", "rpy_min", "rpy_max", "max_slew_rate", "attitude_tolerance",
   "angular_speed_tolerance", "dwell_time", "max_duration", "max_laps"}

\* RandomAttitudeConfig.validate repeats the rules of the manager.
ConfigValid(random) == ValidateRandomAttitude(random)

\* _random_attitude_config: the metadata of the plan, parsed strictly.
RandomAttitudeConfig(random) == DOMAIN random = RandomMetadataKeys /\ ConfigValid(random)

\* The node has limits of its own for a random attitude.
RandomWithinLimits(random) ==
  /\ random.max_slew_rate <= Operational.max_slew_rate
  /\ random.attitude_tolerance <= Operational.max_tolerance
  /\ random.angular_speed_tolerance <= Operational.max_angular_speed
  /\ random.dwell_time >= Operational.min_dwell
  /\ random.max_duration <= Operational.max_duration
  /\ random.max_laps <= Operational.max_laps

\* _resolved_mission_gate: its content, which is that of the manager's settings, ...
ContentGate ==
  /\ Len(obs_mission.waypoints) \in 2..Operational.max_waypoints
  /\ CanonicalKeys(Settings) = ExpectedKeys
  /\ Settings.heading_mode = "takeoff_then_align" =>
       Settings.loop /\ Len(obs_mission.waypoints) = 3
  /\ Settings.contract = "v2" =>
       /\ RandomAttitudeConfig(Settings.random_attitude)
       /\ RandomWithinLimits(Settings.random_attitude)

\* ... its identity, ...
IdentityGate ==
  /\ obs_mission # None /\ obs_status # None
  /\ SameIdentity(obs_mission.binding, obs_status)
  /\ obs_mission.binding.session_id = nav

\* ... and its waypoints, recomputed from the plan; a loop of version 1 has its
\* closing segment unchecked.
ExpectedOdom(points, pool_to_odom) ==
  LET q_op == Transposed(pool_to_odom.rotation)
      t_op == Applied(q_op, Negated(pool_to_odom.translation))
  IN [i \in DOMAIN points |-> Plus(Applied(q_op, points[i]), t_op)]

WaypointGate ==
  /\ obs_mission.waypoints =
       ExpectedOdom(Content[obs_mission.plan].points, Transform[obs_status.pool_to_odom.value])
  /\ \A s \in Segments(obs_mission.waypoints, Settings.contract = "v2") :
       SquaredDistance(s[1], s[2]) \in 1..Operational.max_segment_length ^ 2

\* _load_resolved_guidance: the mission starts near the vehicle.
StartsNear(pose) ==
  SquaredDistance(OdomWaypointsToMission(obs_mission.waypoints, pose)[1], <<0, 0, 0>>)
    <= Operational.max_start_distance ^ 2

\* _prepared_gate
PreparedGate ==
  /\ prepared # None /\ obs_mission # None /\ obs_status # None
  /\ obs_mission.mission_id = prepared.mission_id
  /\ obs_mission.plan = prepared.plan
  /\ SameIdentity(obs_status, prepared.binding)

\* What ARM and START ask of the pool stack.
Admitted == PoolGate /\ PreparedGate

-----------------------------------------------------------------------------
(* obs_node.                                                               *)

\* A reboot of the autopilot or a jump of the estimate starts a session; the
\* odometry of the tick that saw it is not published.
NavigationReset ==
  /\ nav < MaxSession /\ nav' = nav + 1
  /\ UNCHANGED <<service_vars, mission_vars, odometry_topic, obs_status,
                 obs_mission, prepared>>

PublishOdometry ==
  /\ odometry_topic' = nav
  /\ UNCHANGED <<service_vars, mission_vars, nav, obs_status, obs_mission, prepared>>

ObsOnLocalizationStatus ==
  /\ obs_status' = status
  /\ UNCHANGED <<service_vars, mission_vars, nav, odometry_topic, obs_mission,
                 prepared>>

ObsOnResolvedMission ==
  /\ resolved # None
  /\ obs_mission' = resolved /\ prepared' = None
  /\ UNCHANGED <<service_vars, mission_vars, nav, odometry_topic, obs_status>>

Prepare ==
  /\ PoolGate /\ IdentityGate /\ ContentGate /\ WaypointGate
  /\ \E pose \in Poses : StartsNear(pose)
  /\ prepared' = obs_mission
  /\ UNCHANGED <<service_vars, mission_vars, nav, odometry_topic, obs_status,
                 obs_mission>>

\* A refused PREPARE, STOP, RESET, DISARM: the prepared contract is cleared.
ClearPrepared ==
  /\ prepared' = None
  /\ UNCHANGED <<service_vars, mission_vars, nav, odometry_topic, obs_status,
                 obs_mission>>

\* A new process: a new UUID in the session id, empty caches.
ObsRestart ==
  /\ nav < MaxSession /\ nav' = nav + 1
  /\ obs_status' = None /\ obs_mission' = None /\ prepared' = None
  /\ UNCHANGED <<service_vars, mission_vars, odometry_topic>>

ObsNode ==
  \/ NavigationReset
  \/ PublishOdometry
  \/ ObsOnLocalizationStatus
  \/ ObsOnResolvedMission
  \/ Prepare
  \/ ClearPrepared
  \/ ObsRestart

-----------------------------------------------------------------------------
(* The localizer follows the odometry it is sent.  obs_node never sends an *)
(* empty session id; what the localizer would do is in PoolAlignment.      *)

LocalizerOdometry ==
  \/ odometry_topic # NoSession /\ Follow(odometry_topic)
  \/ odometry_topic \notin {NoSession, session_id} /\ session_id # NoSession
     /\ Retire(odometry_topic)
  \/ odometry_topic = session_id /\ SendAligned

Localizer ==
  \/ LocalizerOdometry
  \/ Retire(session_id)
  \/ \E v \in Values : Align(v)
  \/ SendStatus
  \/ Restart

\* The manager takes the latest message of either topic.
ManagerReceives ==
  \/ OnLocalizationStatus(status)
  \/ aligned # None /\ OnAlignedOdometry(aligned)

Next ==
  \/ Localizer /\ UNCHANGED <<mission_vars, obs_vars>>
  \/ (Manager \/ ManagerReceives) /\ UNCHANGED <<service_vars, obs_vars>>
  \/ ObsNode

Spec == Init /\ [][Next]_vars

-----------------------------------------------------------------------------
(* Properties.                                                             *)

Live(x) == IF x = None THEN {} ELSE {x}

\* Every copy, anywhere in the system, of an alignment with its identity: in
\* the localizer, in status messages sent, held or under way, in candidates
\* and in missions.
Copies ==
  {[epoch |-> epoch, session_id |-> session_id, alignment_id |-> alignment_id,
    pool_to_odom |-> alignment] : x \in Live(alignment_id)}
  \cup Live(status) \cup Live(localization) \cup Live(obs_status)
  \cup {c.binding : c \in Live(validated) \cup Live(active) \cup Live(resolved)
                          \cup Live(obs_mission) \cup Live(prepared)}

\* An alignment id names one alignment for ever: two copies with the same id
\* agree on the transform, its session and its epoch, whatever was lost,
\* delayed or restarted in between.  identity.py promises it, and the gates of
\* obs_node and of the manager rest on it.
IdentityNamesAlignment ==
  \A c, d \in Copies : c.alignment_id = d.alignment_id => c = d

\* What ARM and START admit was resolved with a transform estimated only from
\* measurements of the vehicle's present odometry session, and the operator
\* validated that very plan with that very alignment.
AdmittedIsCurrent ==
  Admitted =>
    /\ prepared.binding.pool_to_odom.sessions = {nav}
    /\ [plan |-> prepared.plan, binding |-> prepared.binding] \in approvals

\* A mission, once committed, is the only one of its process: what the latched
\* topic offers and what is active are the same until the process ends.
MissionImmutable ==
  [][active # None => (active' = active \/ active' = None) /\ resolved' = active']_vars

\* Where guidance and the observation builder, both fixed at the pose of PREPARE,
\* take the vehicle to: a place or an attitude of the mission frame, in the pool.
PoolPoint(place, pose, pool_to_odom) ==
  LET ned == Plus(Applied(Transposed(NedToMission(pose)), place), pose.position)
      odom == Applied(FlipZ, ned)
  IN Plus(Applied(pool_to_odom.rotation, odom), pool_to_odom.translation)

PoolAttitude(attitude, pose, pool_to_odom) ==
  LET ned == Composed(Transposed(NedToMission(pose)), attitude)
      odom_flu == Composed(Composed(FlipZ, ned), FlipZ)
  IN Composed(pool_to_odom.rotation, odom_flu)

\* The route that ARM and START admit is, for the pose of any PREPARE, through
\* all the frames it was taken and through the alignment now in force, the route
\* the operator validated: each leg, the closing one too, as long as allowed and
\* in the safe box; and a random attitude is the one that was drawn in the pool.
AdmittedRouteIsApproved ==
  Admitted =>
    LET points == Content[prepared.plan].points
        n == Len(points)
        pool_to_odom == Transform[obs_status.pool_to_odom.value]
    IN /\ \A i \in 1..n : InSafeBox(points[i], Limits)
       /\ \A i, j \in 1..n : j = i + 1 \/ (Settings.loop /\ i = n /\ j = 1) =>
            LengthAllowed(<<points[i], points[j]>>, Limits)
       /\ \A pose \in Poses :
            /\ LET mission == OdomWaypointsToMission(prepared.waypoints, pose)
               IN \A i \in 1..n : PoolPoint(mission[i], pose, pool_to_odom) = points[i]
            /\ \A goal \in Goals :
                 LET q_d == PoolFluToMissionFrd(PoolToMission(pool_to_odom, pose), goal)
                 IN PoolAttitude(q_d, pose, pool_to_odom) = goal
=============================================================================
