---------------------------- MODULE MissionCore ----------------------------
(***************************************************************************)
(* The calculations of a pool mission: what a route and its settings must  *)
(* satisfy, and the frames it goes through.                                *)
(*                                                                         *)
(*   pool, odom   z up            the route as drawn, as resolved          *)
(*   NED          z down          what the autopilot reports               *)
(*   mission      z down          NED seen from the pose of PREPARE        *)
(*                                                                         *)
(* Coordinates are integers and rotations signed permutation matrices, of  *)
(* which the quarter turns are the ones used: signs, orders and inverses   *)
(* are as for any rotation, rounding is not modelled.                      *)
(***************************************************************************)
EXTENDS Integers, Sequences

(* Vectors and rotations.                                                  *)

Axes == 1..3

Dot(p, q) == p[1] * q[1] + p[2] * q[2] + p[3] * q[3]
Plus(p, q) == <<p[1] + q[1], p[2] + q[2], p[3] + q[3]>>
Negated(p) == <<-p[1], -p[2], -p[3]>>
Minus(p, q) == Plus(p, Negated(q))
SquaredDistance(p, q) == Dot(Minus(p, q), Minus(p, q))

Column(r, i) == <<r[1][i], r[2][i], r[3][i]>>
Transposed(r) == <<Column(r, 1), Column(r, 2), Column(r, 3)>>
Applied(r, p) == <<Dot(r[1], p), Dot(r[2], p), Dot(r[3], p)>>
Composed(r, s) ==
  Transposed(<<Applied(r, Column(s, 1)), Applied(r, Column(s, 2)), Applied(r, Column(s, 3))>>)

Places == Int \X Int \X Int
Matrices == Places \X Places \X Places
Identity == <<<<1, 0, 0>>, <<0, 1, 0>>, <<0, 0, 1>>>>
Rotations == {r \in Matrices : Composed(r, Transposed(r)) = Identity}

\* Quarter turns about the third axis; the half turn between z up and z down.
Turn(k) ==
  LET c == <<1, 0, -1, 0>>[(k % 4) + 1]  s == <<0, 1, 0, -1>>[(k % 4) + 1]
  IN <<<<c, -s, 0>>, <<s, c, 0>>, <<0, 0, 1>>>>

FlipZ == <<<<1, 0, 0>>, <<0, -1, 0>>, <<0, 0, -1>>>>

-----------------------------------------------------------------------------
(* core.py: what a route must satisfy.                                     *)

\* validate_identity_quaternion, of an xyzw quaternion.
IsIdentity(q) == q \in {<<0, 0, 0, 1>>, <<0, 0, 0, -1>>}

InSafeBox(p, limits) ==
  \A i \in Axes : limits.safe_min_xyz[i] <= p[i] /\ p[i] <= limits.safe_max_xyz[i]

Segments(points, loop) ==
  {<<points[i], points[i + 1]>> : i \in 1..(Len(points) - 1)}
  \cup (IF loop THEN {<<points[Len(points)], points[1]>>} ELSE {})

LengthAllowed(segment, limits) ==
  LET squared == SquaredDistance(segment[1], segment[2])
  IN /\ squared >= limits.min_segment_length_m ^ 2
     /\ squared <= limits.max_segment_length_m ^ 2

\* The box is for waypoints, not for where the vehicle is.
ValidateDraftGeometry(draft, position, loop, limits) ==
  /\ Len(draft.points) \in limits.min_waypoints..limits.max_waypoints
  /\ \A i \in DOMAIN draft.points :
       IsIdentity(draft.orientations[i]) /\ InSafeBox(draft.points[i], limits)
  /\ \A s \in Segments(draft.points, loop) : LengthAllowed(s, limits)
  /\ SquaredDistance(position, draft.points[1]) <= limits.max_first_point_distance_m ^ 2

-----------------------------------------------------------------------------
(* core.py: what the settings must satisfy.                                *)

ContractHeadingModes ==
  [v1 |-> {"straight", "align", "takeoff_then_align"}, v2 |-> {"random_at_waypoint"}]

\* validate_random_attitude_settings; angles in degrees.
ValidateRandomAttitude(random) ==
  /\ random.seed >= 0
  /\ LET bound == <<90, 90, 180>>
     IN \A i \in Axes : /\ random.rpy_min[i] < random.rpy_max[i]
                        /\ -bound[i] <= random.rpy_min[i] /\ random.rpy_max[i] <= bound[i]
  /\ \A x \in {random.max_slew_rate, random.attitude_tolerance, random.angular_speed_tolerance} :
       x \in 1..180
  /\ 0 < random.dwell_time /\ random.dwell_time < random.max_duration
  /\ random.max_laps > 0

\* A speed per leg is given as a sequence, which is empty if there is none.
ValidateMissionSettings(settings, waypoints, limits) ==
  /\ settings.cruise_speed \in 1..limits.max_cruise_speed
  /\ settings.lookahead_dist \in 1..limits.max_lookahead_dist
  /\ settings.reach_threshold \in 1..limits.max_reach_threshold
  /\ settings.cruise_speed_per_leg # <<>> =>
       /\ settings.contract = "v1"
       /\ Len(settings.cruise_speed_per_leg) = waypoints
       /\ \A i \in 1..waypoints : settings.cruise_speed_per_leg[i] \in 1..limits.max_cruise_speed
  /\ settings.heading_mode \in ContractHeadingModes[settings.contract]
  /\ settings.contract = "v2" => settings.loop /\ ValidateRandomAttitude(settings.random_attitude)

\* canonical_plan_content: the keys of the hashed content.
CanonicalKeys(settings) ==
  {"contract", "frame_id", "waypoints", "cruise_speed", "lookahead_dist",
   "reach_threshold", "heading_mode", "loop"}
  \cup (IF settings.cruise_speed_per_leg # <<>> THEN {"cruise_speed_per_leg"} ELSE {})
  \cup (IF settings.contract = "v2" THEN {"random_attitude"} ELSE {})

-----------------------------------------------------------------------------
(* Frames.                                                                 *)

\* core.py: transform_points, invert_transform.
TransformPoints(points, transform) ==
  [i \in DOMAIN points |-> Plus(Applied(transform.rotation, points[i]), transform.translation)]

InvertTransform(transform) ==
  LET back == Transposed(transform.rotation)
  IN [translation |-> Applied(back, Negated(transform.translation)), rotation |-> back]

\* ObservationBuilder.reset: NED directions in the mission frame of a pose.
NedToMission(pose) == Turn(-pose.yaw)

\* Mutant: the heading of PREPARE is added, not taken away.
OdomWaypointsToMissionTurned(points, pose) ==
  [i \in DOMAIN points |-> Applied(Turn(pose.yaw), Minus(Applied(FlipZ, points[i]), pose.position))]

\* mission.py: odom_waypoints_to_mission, with waypoint_frame = "start_heading".
OdomWaypointsToMission(points, pose) ==
  [i \in DOMAIN points |->
     Applied(NedToMission(pose), Minus(Applied(FlipZ, points[i]), pose.position))]

\* mission.py: pool_to_mission_quaternion, then LOSGuidance._pool_flu_to_mission_frd.
PoolToMission(pool_to_odom, pose) ==
  Composed(Composed(NedToMission(pose), FlipZ), Transposed(pool_to_odom.rotation))

PoolFluToMissionFrd(pool_to_mission, attitude) ==
  Composed(Composed(pool_to_mission, attitude), FlipZ)

\* guidance_node.py: _pool_mission_frame, the mission frame of the split stack, in
\* which a position is Applied(ned_to_mission, position - origin).
PoolMissionFrame(pool_to_odom) ==
  [ned_to_mission |-> Composed(Composed(FlipZ, pool_to_odom.rotation), FlipZ),
   origin |-> Applied(FlipZ, Negated(Applied(Transposed(pool_to_odom.rotation),
                                             pool_to_odom.translation)))]
=============================================================================
