---------------------------- MODULE MCControllers ----------------------------
(* The three controllers, and a START early enough to follow an end of      *)
(* control by less than the topics' lag.                                    *)
EXTENDS Controllers

MCKinds == {"policy", "model", "cmg"}
=============================================================================
