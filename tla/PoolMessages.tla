---------------------------- MODULE PoolMessages ----------------------------
(***************************************************************************)
(* What the messages of the pool stack have in common: the absence of a    *)
(* value, and the identity brov_interfaces' LocalizationStatus,            *)
(* AlignedOdometry and ResolvedMission carry.                              *)
(***************************************************************************)
CONSTANTS None, NoSession   \* no message or value; the empty session id

ASSUME AbsenceAssumption == None # NoSession

\* Two messages name the same alignment.
SameIdentity(m, n) ==
  m.epoch = n.epoch /\ m.session_id = n.session_id /\ m.alignment_id = n.alignment_id
=============================================================================
