--------------------------- MODULE MCPoolMission ---------------------------
(* Instances of PoolMission for TLC. *)
EXTENDS PoolMission

MCSessions == 1..MaxSession

CONSTANTS v1, p1, p2, p3

\* Far from the origin, and turned.
MCTransform == [v \in Values |-> [translation |-> <<1, 2, 0>>, rotation |-> Turn(1)]]

Draft(points) == [points |-> points, orientations |-> [i \in DOMAIN points |-> <<0, 0, 0, 1>>]]

\* Two routes that are valid, and one whose closing leg is too long, which is
\* drafted only where Plans says so.
MCContent ==
  [p \in Plans |->
     CASE p = p1 -> Draft(<<<<1, 0, 1>>, <<2, 0, 1>>, <<2, 1, 1>>>>)
       [] p = p2 -> Draft(<<<<1, 0, 1>>, <<1, 1, 2>>>>)
       [] p = p3 -> Draft(<<<<1, 0, 1>>, <<2, 1, 1>>, <<3, 2, 1>>>>)]

MCPositions == {<<1, 0, 0>>, <<3, 3, 0>>}

MCSettings ==
  [contract |-> "v2", cruise_speed |-> 1, lookahead_dist |-> 1, reach_threshold |-> 1,
   heading_mode |-> "random_at_waypoint", loop |-> TRUE, cruise_speed_per_leg |-> <<>>,
   random_attitude |->
     [seed |-> 0, rpy_min |-> <<-90, -90, -180>>, rpy_max |-> <<90, 90, 180>>,
      max_slew_rate |-> 20, attitude_tolerance |-> 10, angular_speed_tolerance |-> 5,
      dwell_time |-> 2, max_duration |-> 120, max_laps |-> 1]]

MCLimits ==
  [safe_min_xyz |-> <<1, 0, 1>>, safe_max_xyz |-> <<3, 3, 2>>, min_waypoints |-> 2,
   max_waypoints |-> 3, max_first_point_distance_m |-> 1, min_segment_length_m |-> 1,
   max_segment_length_m |-> 2, max_cruise_speed |-> 1, max_lookahead_dist |-> 1,
   max_reach_threshold |-> 1]

MCOperational ==
  [max_waypoints |-> 3, max_segment_length |-> 2, max_start_distance |-> 1,
   max_slew_rate |-> 20, max_tolerance |-> 10, max_angular_speed |-> 5, min_dwell |-> 2,
   max_duration |-> 120, max_laps |-> 1]

\* The first is where a vehicle at <<1, 0, 0>> in the pool is.
MCPoses == {[position |-> <<-2, 0, 0>>, yaw |-> 3], [position |-> <<0, 1, -1>>, yaw |-> 1]}

\* The frame that guidance_node works out by hand is the pool seen with z down:
\* a position of the autopilot and the same position in the pool agree.
ASSUME MissionFrameAgrees ==
  LET side == <<<<1, 0, 0>>, <<0, 0, -1>>, <<0, 1, 0>>>>
  IN \A i, j \in 0..3, k \in {Turn(0), side}, ned \in {<<1, 0, 0>>, <<0, 3, 0>>, <<2, 5, 7>>} :
       LET pool_to_odom == [rotation |-> Composed(Turn(i), Composed(k, Turn(j))),
                            translation |-> <<11, 13, 17>>]
           frame == PoolMissionFrame(pool_to_odom)
           pool == TransformPoints(<<Applied(FlipZ, ned)>>, pool_to_odom)[1]
       IN Applied(frame.ned_to_mission, Minus(ned, frame.origin)) = Applied(FlipZ, pool)

\* A yaw, and a roll on its side.
MCGoals == {Turn(1), <<<<1, 0, 0>>, <<0, 0, -1>>, <<0, 1, 0>>>>}
=============================================================================
