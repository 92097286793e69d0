----------------------------- MODULE MCBaseNode -----------------------------
(* One servo function and one camera option stand for the eight and two: the *)
(* node cares whether all of them are set.                                   *)
EXTENDS BaseNode

CONSTANTS s1, c1

OneServo == {s1}
OneCamera == {c1}
=============================================================================
