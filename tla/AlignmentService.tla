--------------------------- MODULE AlignmentService ---------------------------
(***************************************************************************)
(* What the localizer promises the rest of the pool stack: a cell that is  *)
(* empty or holds one alignment, never replaced in place.  It is filled at *)
(* most once per epoch, with an alignment of the session being followed    *)
(* and an id never used before; giving it up starts another epoch, and     *)
(* goes with a status message.  PoolAlignment implements it.               *)
(***************************************************************************)
EXTENDS Integers, PoolMessages

CONSTANTS
  Sessions,                 \* odometry session ids
  Values,                   \* results the estimator may give
  MaxEpoch, MaxBoots        \* bounds: epochs of a process, processes

ASSUME ServiceAssumption ==
  /\ NoSession \notin Sessions /\ None \notin Sessions
  /\ MaxEpoch \in Nat /\ MaxBoots \in Nat

VARIABLES
  session_id, alignment, alignment_id,
  boot, generation,         \* AlignmentIdGenerator: its boot_id and counter
  epoch,
  status, aligned           \* the latest message on each of the two topics

service_vars == <<session_id, alignment, alignment_id, boot, generation, epoch,
                  status, aligned>>

\* A transform: the sessions it was estimated from, and its value.
Alignments == [sessions : SUBSET Sessions, value : Values]

\* uuid5(boot_id, generation): distinct for distinct pairs.
AlignmentIds == Nat \X Nat

ASSUME ValueAssumption == None \notin Alignments \cup AlignmentIds

\* A status message is kept as the identity and transform in it if it says the
\* output is valid.  Otherwise readers refuse it whatever else it says: None.
\* The output is not valid without fresh odometry, which is free here.
Published ==
  \/ status' = None
  \/ /\ alignment' # None
     /\ status' = [epoch |-> epoch', session_id |-> session_id',
                   alignment_id |-> alignment_id', pool_to_odom |-> alignment']

PublishedAligned ==
  aligned' = [epoch |-> epoch', session_id |-> session_id',
              alignment_id |-> alignment_id']

ServiceInit ==
  /\ session_id = NoSession /\ alignment = None /\ alignment_id = None
  /\ boot = 1 /\ generation = 0 /\ epoch = 0
  /\ status = None /\ aligned = None

-----------------------------------------------------------------------------
\* The first session, or the first after an empty one.
Follow(s) ==
  /\ session_id = NoSession /\ session_id' = s
  /\ UNCHANGED <<alignment, alignment_id, boot, generation, epoch, aligned>>
  /\ Published \/ UNCHANGED status

\* Another session, an empty one or, if s is the present one, a reset.
Retire(s) ==
  /\ epoch < MaxEpoch /\ epoch' = epoch + 1
  /\ session_id' = s
  /\ alignment' = None /\ alignment_id' = None
  /\ UNCHANGED <<boot, generation, aligned>>
  /\ Published \/ (alignment = None /\ UNCHANGED status)

\* Mutant: ids counted per process, not unique across them.
AlignSameId(v) ==
  /\ alignment = None /\ session_id # NoSession
  /\ epoch < MaxEpoch /\ epoch' = epoch + 1
  /\ generation' = generation + 1
  /\ alignment' = [sessions |-> {session_id}, value |-> v]
  /\ alignment_id' = <<1, generation'>>
  /\ UNCHANGED <<session_id, boot>>
  /\ Published
  /\ PublishedAligned \/ UNCHANGED aligned

Align(v) ==
  /\ alignment = None /\ session_id # NoSession
  /\ epoch < MaxEpoch /\ epoch' = epoch + 1
  /\ generation' = generation + 1
  /\ alignment' = [sessions |-> {session_id}, value |-> v]
  /\ alignment_id' = <<boot, generation'>>
  /\ UNCHANGED <<session_id, boot>>
  /\ Published
  /\ PublishedAligned \/ UNCHANGED aligned

SendStatus ==
  /\ UNCHANGED <<session_id, alignment, alignment_id, boot, generation, epoch,
                 aligned>>
  /\ Published

SendAligned ==
  /\ alignment # None
  /\ UNCHANGED <<session_id, alignment, alignment_id, boot, generation, epoch,
                 status>>
  /\ PublishedAligned

Restart ==
  /\ boot < MaxBoots /\ boot' = boot + 1
  /\ session_id' = NoSession /\ alignment' = None /\ alignment_id' = None
  /\ generation' = 0 /\ epoch' = 0
  /\ UNCHANGED aligned
  /\ Published

ServiceNext ==
  \/ \E s \in Sessions : Follow(s)
  \/ \E s \in Sessions \cup {NoSession} : Retire(s)
  \/ \E v \in Values : Align(v)
  \/ SendStatus
  \/ SendAligned
  \/ Restart

ServiceSpec ==
  ServiceInit /\ [][ServiceNext]_service_vars /\ WF_service_vars(SendStatus)
=============================================================================
