---------------------------- MODULE PoolAlignment ----------------------------
(***************************************************************************)
(* brov_localization/localization_node.py: the node that estimates, once   *)
(* and on an operator's request, the transform between the pool and the    *)
(* frame the vehicle's odometry lives in.  Every callback runs on one      *)
(* executor thread, so each action below is one callback.                  *)
(*                                                                         *)
(* An odometry frame is named by a session id.  A record or a sample is    *)
(* represented by the session it was measured in, and a sample also by the *)
(* stamp of its image, as AlignmentSampleBuffer.add tells samples apart.   *)
(* A transform is the set of sessions it was estimated from and one of a   *)
(* few values: the estimator may return any of them.  Ages are not         *)
(* modelled: what prune drops, and whether a stamp is fresh, is free.      *)
(***************************************************************************)
EXTENDS Integers, FiniteSets, PoolMessages

CONSTANTS
  Sessions,                 \* odometry session ids
  Images,                   \* stamps of marker images
  Values,                   \* results the estimator may give
  MinSamples,               \* parameter min_samples (the safety floor)
  MaxEpoch, MaxBoots        \* bounds: epochs of a process, processes

ASSUME AlignmentAssumption ==
  /\ NoSession \notin Sessions /\ None \notin Sessions
  /\ MinSamples \in Nat \ {0}
  /\ MaxEpoch \in Nat /\ MaxBoots \in Nat

VARIABLES
  session_id, alignment, alignment_id,
  boot, generation,         \* AlignmentIdGenerator: its boot_id and counter
  epoch, state, visible, tilt_confirmed,
  require_tilt,             \* parameter of the process:
                            \* require_camera_tilt_neutral_confirmation
  odometry,                 \* sessions of the records in _odometry
  pending,                  \* images in _pending_vision
  samples,                  \* [image, session] in the sample buffer
  last_odom,                \* session of _last_odom, or None
  status, aligned           \* the latest message on each of the two topics

identity == <<boot, generation, alignment_id>>
measurements == <<odometry, pending, samples, last_odom>>
vars == <<session_id, alignment, identity, epoch, state, visible,
          tilt_confirmed, require_tilt, measurements, status, aligned>>

Alignments == [sessions : SUBSET Sessions, value : Values]

\* uuid5(boot_id, generation): distinct for distinct pairs.
AlignmentIds == Nat \X Nat

\* AlignedOdometry messages.  The pose in one is represented by the session it
\* was measured in and the alignment that moved it to the pool.
Envelopes ==
  [epoch : Nat, session_id : Sessions, alignment_id : AlignmentIds,
   pose : [measured_in : Sessions, moved_by : Alignments]]

ASSUME ValueAssumption == None \notin Alignments \cup AlignmentIds \cup Envelopes

-----------------------------------------------------------------------------
(* What the callbacks share.                                               *)

\* _publish_status.  The freshness of the last record is free.
PublishedStatus ==
  \E fresh \in BOOLEAN :
    status' = [state |-> state', epoch |-> epoch', session_id |-> session_id',
               alignment_id |-> alignment_id', pool_to_odom |-> alignment',
               output_valid |-> /\ fresh /\ last_odom' # None
                                /\ state' = "INITIALIZED"
                                /\ alignment' # None /\ alignment_id' # None
                                /\ session_id' # NoSession]

\* _set_state: it publishes when the state or the reason differs.  Reasons are
\* not modelled, so an unchanged state may or may not publish.
SetState(s) ==
  /\ state' = s
  /\ PublishedStatus \/ (state = s /\ status' = status)

\* _publish_aligned_odometry with the record of session o.
PublishAligned(o) ==
  aligned' = [epoch |-> epoch', session_id |-> session_id',
              alignment_id |-> alignment_id',
              pose |-> [measured_in |-> o, moved_by |-> alignment']]

ClearMeasurements ==
  odometry' = {} /\ pending' = {} /\ samples' = {} /\ last_odom' = None

ForgetAlignment == alignment' = None /\ alignment_id' = None

ForgetTilt == tilt_confirmed' = ~require_tilt

\* _invalidate.  Its call of _clear_measurements is left to the caller: the
\* record that changed the session refills two of the buffers.
Invalidate(s) ==
  /\ epoch < MaxEpoch
  /\ ForgetAlignment /\ ForgetTilt
  /\ epoch' = epoch + 1
  /\ SetState(s)

\* _prune_pending and _try_pair_pending on the buffers o, p and k.  A pending
\* image pairs with some stationary record, stays, or is dropped, as it is if
\* the sample buffer already has that image.
TryPair(o, p, k) ==
  /\ odometry' \in SUBSET o
  /\ \E kept \in SUBSET k, paired \in SUBSET p :
       /\ \A x \in kept : x.image \notin paired
       /\ paired = {} \/ ( /\ state # "INITIALIZED" /\ session_id # NoSession
                           /\ tilt_confirmed /\ visible' )
       /\ pending' \in SUBSET (p \ paired)
       /\ \E measured_in \in [paired -> odometry'] :
            samples' = kept \cup {[image |-> i, session |-> measured_in[i]] :
                                    i \in paired}
       /\ IF paired = {}
          THEN UNCHANGED <<state, status>>
          ELSE SetState("COLLECTING")

-----------------------------------------------------------------------------
Init ==
  /\ session_id = NoSession /\ alignment = None /\ alignment_id = None
  /\ boot = 1 /\ generation = 0 /\ epoch = 0
  /\ state = "UNINITIALIZED" /\ visible = FALSE /\ require_tilt \in BOOLEAN
  /\ tilt_confirmed = ~require_tilt
  /\ odometry = {} /\ pending = {} /\ samples = {} /\ last_odom = None
  /\ status = [state |-> "UNINITIALIZED", epoch |-> 0,
               session_id |-> NoSession, alignment_id |-> None,
               pool_to_odom |-> None, output_valid |-> FALSE]
  /\ aligned = None

-----------------------------------------------------------------------------
(* _on_odometry_session: session and odometry arrive as one message.       *)

EmptySession ==
  /\ session_id' = NoSession
  /\ ClearMeasurements
  /\ Invalidate("INVALID")
  /\ UNCHANGED <<boot, generation, visible, aligned>>

\* Mutant: the samples outlive the session.
KeepSamplesAndTake(s) ==
  /\ pending' = {} /\ samples' = samples
  /\ \/ last_odom' = s /\ odometry' = {s}
     \/ last_odom' = None /\ odometry' = {}

\* _clear_measurements, then the record of session s is parsed: kept or not.
ClearAndTake(s) ==
  /\ pending' = {} /\ samples' = {}
  /\ \/ last_odom' = s /\ odometry' = {s}
     \/ last_odom' = None /\ odometry' = {}

FirstSession(s) ==
  /\ session_id = NoSession
  /\ session_id' = s
  /\ ClearAndTake(s)
  /\ UNCHANGED <<alignment, identity, epoch, visible, tilt_confirmed, aligned>>
  /\ SetState("UNINITIALIZED")

\* Mutant: the alignment outlives the session.
ChangedSessionInForce(s) ==
  /\ session_id \notin {NoSession, s}
  /\ session_id' = s
  /\ ClearAndTake(s)
  /\ UNCHANGED <<alignment, identity, epoch, state, visible, tilt_confirmed,
                 status, aligned>>

ChangedSession(s) ==
  /\ session_id \notin {NoSession, s}
  /\ session_id' = s
  /\ ClearAndTake(s)
  /\ Invalidate("INVALID")
  /\ UNCHANGED <<boot, generation, visible, aligned>>

SameSession(s) ==
  /\ session_id = s
  /\ last_odom' = s
  /\ UNCHANGED <<session_id, alignment, identity, epoch, visible,
                 tilt_confirmed>>
  /\ IF state = "INITIALIZED"
     THEN /\ odometry' \in SUBSET (odometry \cup {s})
          /\ pending' \in SUBSET pending /\ samples' \in SUBSET samples
          /\ UNCHANGED <<state, status>>
          /\ PublishAligned(s) \/ UNCHANGED aligned
     ELSE TryPair(odometry \cup {s}, pending, samples) /\ UNCHANGED aligned

OnOdometrySession(s) ==
  \/ s = NoSession /\ EmptySession
  \/ s # NoSession /\ (FirstSession(s) \/ ChangedSession(s) \/ SameSession(s))

-----------------------------------------------------------------------------
(* The camera.                                                             *)

OnVision(i) ==
  /\ state # "INITIALIZED" /\ tilt_confirmed
  /\ visible' = visible
  /\ UNCHANGED <<session_id, alignment, identity, epoch, tilt_confirmed,
                 last_odom, aligned>>
  /\ TryPair(odometry, pending \cup {i}, samples)

OnVisible(seen) ==
  /\ visible' = seen
  /\ UNCHANGED <<session_id, alignment, identity, epoch, tilt_confirmed,
                 last_odom, aligned>>
  /\ IF seen
     THEN TryPair(odometry, pending, samples)
     ELSE pending' = {} /\ UNCHANGED <<odometry, samples, state, status>>

-----------------------------------------------------------------------------
(* The operator's services.                                                *)

\* Mutant: an alignment in force may be replaced.
InitializeAgain ==
  session_id # NoSession /\ tilt_confirmed /\ visible /\ last_odom # None

InitializeGate ==
  /\ state # "INITIALIZED" /\ session_id # NoSession /\ tilt_confirmed
  /\ visible /\ last_odom # None

\* _on_initialize, accepted: the estimate rests on at least MinSamples inliers.
\* The vehicle is stationary and the marker and the odometry are fresh.
Initialize(inliers, v) ==
  /\ InitializeGate
  /\ epoch < MaxEpoch
  /\ inliers \subseteq samples /\ Cardinality(inliers) >= MinSamples
  /\ alignment' = [sessions |-> {x.session : x \in inliers}, value |-> v]
  /\ generation' = generation + 1
  /\ alignment_id' = <<boot, generation'>>
  /\ samples' = {} /\ pending' = {}
  /\ epoch' = epoch + 1
  /\ UNCHANGED <<session_id, boot, visible, tilt_confirmed, odometry, last_odom>>
  /\ SetState("INITIALIZED")
  /\ PublishAligned(last_odom) \/ UNCHANGED aligned

\* _on_initialize, refused for want of samples or of a good estimate.
InitializeRefused ==
  /\ InitializeGate
  /\ samples' \in SUBSET samples
  /\ UNCHANGED <<session_id, alignment, identity, epoch, visible,
                 tilt_confirmed, odometry, pending, last_odom, aligned>>
  /\ SetState("COLLECTING")

OnConfirmTiltNeutral ==
  /\ state # "INITIALIZED" /\ session_id # NoSession
  /\ ForgetAlignment /\ ClearMeasurements
  /\ tilt_confirmed' = TRUE
  /\ UNCHANGED <<session_id, boot, generation, epoch, visible, aligned>>
  /\ SetState("UNINITIALIZED")

OnReset ==
  /\ ClearMeasurements
  /\ UNCHANGED <<session_id, boot, generation, visible, aligned>>
  /\ Invalidate("UNINITIALIZED")

-----------------------------------------------------------------------------
(* The status timer, and a new process after the old one is gone: what it  *)
(* publishes first replaces the old process's message.                     *)

PublishStatus ==
  /\ samples' \in SUBSET samples
  /\ UNCHANGED <<session_id, alignment, identity, epoch, state, visible,
                 tilt_confirmed, odometry, pending, last_odom, aligned>>
  /\ PublishedStatus

LocalizerRestart ==
  /\ boot < MaxBoots
  /\ require_tilt' \in BOOLEAN /\ tilt_confirmed' = ~require_tilt'
  /\ session_id' = NoSession /\ ForgetAlignment
  /\ boot' = boot + 1 /\ generation' = 0 /\ epoch' = 0
  /\ state' = "UNINITIALIZED" /\ visible' = FALSE
  /\ ClearMeasurements
  /\ PublishedStatus
  /\ UNCHANGED aligned

Callback ==
  \/ \E s \in Sessions \cup {NoSession} : OnOdometrySession(s)
  \/ \E i \in Images : OnVision(i)
  \/ \E seen \in BOOLEAN : OnVisible(seen)
  \/ \E inliers \in SUBSET samples, v \in Values : Initialize(inliers, v)
  \/ InitializeRefused
  \/ OnConfirmTiltNeutral
  \/ OnReset
  \/ PublishStatus

Next ==
  \/ Callback /\ UNCHANGED require_tilt
  \/ LocalizerRestart

\* The status timer fires for as long as the process runs.
Spec ==
  Init /\ [][Next]_vars /\ WF_vars(PublishStatus /\ UNCHANGED require_tilt)

-----------------------------------------------------------------------------
(* Properties.                                                             *)

\* Each variable keeps its type; what a topic carries was published by this
\* node.
TypeOK ==
  /\ session_id \in Sessions \cup {NoSession}
  /\ alignment \in Alignments \cup {None}
  /\ alignment_id \in AlignmentIds \cup {None}
  /\ boot \in Nat /\ generation \in Nat /\ epoch \in Nat
  /\ state \in {"UNINITIALIZED", "COLLECTING", "INITIALIZED", "INVALID"}
  /\ {visible, tilt_confirmed, require_tilt} \subseteq BOOLEAN
  /\ odometry \subseteq Sessions /\ pending \subseteq Images
  /\ samples \subseteq [image : Images, session : Sessions]
  /\ last_odom \in Sessions \cup {None}

\* An alignment in use was estimated in one odometry session, the one the node
\* now follows, with the camera tilt confirmed: _invalidate, _on_reset and
\* _on_confirm_camera_tilt_neutral leave no sample, no record and no alignment
\* of an earlier session behind.
OneSession ==
  state = "INITIALIZED" =>
    /\ alignment # None /\ alignment_id # None /\ tilt_confirmed
    /\ alignment.sessions = {session_id}

\* The pose in an envelope was measured in the session the envelope names and
\* moved by the one alignment of that session, so the manager's first-point
\* gate compares a route with a position in the same frame.
EnvelopeIsOneFrame ==
  aligned # None =>
    /\ aligned.pose.measured_in = aligned.session_id
    /\ aligned.pose.moved_by # None
    /\ aligned.pose.moved_by.sessions = {aligned.session_id}

\* The rest of the stack sees a cell that is empty or frozen, whatever the
\* buffers, the camera and the operator do.
Service == INSTANCE AlignmentService WITH
  status <- IF ~status.output_valid THEN None
            ELSE [epoch |-> status.epoch, session_id |-> status.session_id,
                  alignment_id |-> status.alignment_id,
                  pool_to_odom |-> status.pool_to_odom],
  aligned <- IF aligned = None THEN None
             ELSE [epoch |-> aligned.epoch, session_id |-> aligned.session_id,
                   alignment_id |-> aligned.alignment_id]

ImplementsService == Service!ServiceSpec
=============================================================================
