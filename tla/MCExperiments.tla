--------------------------- MODULE MCExperiments ---------------------------
(* Instances of the drag measurements for TLC: drag_test_node behind obs_node, *)
(* or one of the scripts, which need the MAVLink link for themselves.          *)
EXTENDS DragTest, Diagnostics

CONSTANT Scripts     \* scripts to run; "none": the node runs

NodeRuns == script = NoScript

MCInit == Init /\ ScriptInit(Scripts)

\* An experiment that is over is not followed by another.
MCNext ==
  \/ NodeRuns /\ Next /\ UNCHANGED script_vars
  \/ ~NodeRuns /\ ScriptNext /\ UNCHANGED vars

MCSpec == MCInit /\ [][MCNext]_<<vars, script_vars>>

MCFairSpec == MCSpec /\ Fairness
=============================================================================
