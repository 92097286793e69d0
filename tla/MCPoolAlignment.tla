-------------------------- MODULE MCPoolAlignment --------------------------
(* Instance of PoolAlignment for TLC. *)
EXTENDS PoolAlignment
=============================================================================
