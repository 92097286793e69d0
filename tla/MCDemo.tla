------------------------------- MODULE MCDemo -------------------------------
(* A small pool for DemoOrchestrator. *)
EXTENDS DemoOrchestrator

\* Outside the box and close enough, too far, and with no room on either side.
MCPoses == {[x |-> 4, z |-> -1], [x |-> 7, z |-> 0], [x |-> 2, z |-> 0]}
MCMin == [x |-> 0, z |-> 0]
MCMax == [x |-> 5, z |-> 3]
=============================================================================
