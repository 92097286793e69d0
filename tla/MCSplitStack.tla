---------------------------- MODULE MCSplitStack ----------------------------
(* The split stack with each kind of mission frame and of progress. *)
EXTENDS SplitStack

Launch(frame, heading, loop) == [frame |-> frame, heading |-> heading, loop |-> loop]

MCConfigs == {Launch("ned", "straight", FALSE),
              Launch("pool", "takeoff_then_align", TRUE),
              Launch("start_heading", "random_at_waypoint", TRUE)}
=============================================================================
