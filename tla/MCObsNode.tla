------------------------------ MODULE MCObsNode ------------------------------
(* Small instances of ObsNode. *)
EXTENDS ObsNode

CONSTANTS m1, m2, l1, l2

\* Two missions bound to two different pool alignments.
TwoMissions == {[id |-> m1, loc |-> l1], [id |-> m2, loc |-> l2]}
TwoLocs == {l1, l2}
OneMission == {[id |-> m1, loc |-> l1]}
OneLoc == {l1}
NoMissions == {}
NoLocs == {}
=============================================================================
