---------------------------- MODULE MCPassthrough ----------------------------
(* Two servo functions and two camera options stand for the eight and two.  *)
EXTENDS Passthrough

CONSTANTS s1, s2, c1, c2

TwoServos == {s1, s2}
TwoCameras == {c1, c2}
=============================================================================
