------------------------- MODULE PoolAlignmentProofs -------------------------
(***************************************************************************)
(* Proofs about PoolAlignment for any sessions, images, estimates and      *)
(* processes.  What makes the properties inductive is that nothing in the  *)
(* buffers is older than the session the node follows (OneSessionBuffers): *)
(* every change of session, and every reset, empties them.                 *)
(***************************************************************************)
EXTENDS PoolAlignment, FiniteSetTheorems, TLAPS

Samples == [image : Images, session : Sessions]

\* Every record and every sample was measured in the session being followed.
OneSessionBuffers ==
  /\ odometry \subseteq {session_id}
  /\ \A x \in samples : x.session = session_id
  /\ last_odom \in {session_id, None}

BufferInv == TypeOK /\ OneSessionBuffers /\ OneSession

IInv == BufferInv /\ EnvelopeIsOneFrame

States == {"UNINITIALIZED", "COLLECTING", "INITIALIZED", "INVALID"}

-----------------------------------------------------------------------------
(* What the shared helpers do to the buffers and the state.                *)

\* An estimate that rests on enough samples rests on one.
LEMMA InliersExist ==
  ASSUME NEW S, Cardinality(S) >= MinSamples
  PROVE  S # {}
<1>1. Cardinality({}) = 0
  BY FS_EmptySet
<1> QED
  BY <1>1, AlignmentAssumption

\* Clearing leaves nothing of any session.
LEMMA Cleared ==
  ASSUME ClearMeasurements
  PROVE  OneSessionBuffers' /\ odometry' \subseteq Sessions /\ pending' \subseteq Images
         /\ samples' \subseteq Samples /\ last_odom' \in Sessions \cup {None}
BY DEF ClearMeasurements, OneSessionBuffers

\* So does clearing and taking one record of the new session.
LEMMA Taken ==
  ASSUME NEW s \in Sessions, session_id' = s, ClearAndTake(s)
  PROVE  OneSessionBuffers' /\ odometry' \subseteq Sessions /\ pending' \subseteq Images
         /\ samples' \subseteq Samples /\ last_odom' \in Sessions \cup {None}
BY DEF ClearAndTake, OneSessionBuffers

\* Pairing takes samples from the records it is given and never leaves or
\* reaches INITIALIZED.
LEMMA Paired ==
  ASSUME BufferInv, UNCHANGED session_id,
         NEW o \in SUBSET Sessions, o \subseteq {session_id},
         NEW p \in SUBSET Images, TryPair(o, p, samples)
  PROVE  /\ odometry' \subseteq Sessions /\ odometry' \subseteq {session_id'}
         /\ pending' \subseteq Images
         /\ samples' \subseteq Samples /\ \A x \in samples' : x.session = session_id'
         /\ state' \in States
         /\ state' = "INITIALIZED" => state = "INITIALIZED"
<1>1. odometry' \subseteq o
  BY DEF TryPair
<1>2. PICK kept \in SUBSET samples, paired \in SUBSET p :
        /\ paired = {} \/ state # "INITIALIZED"
        /\ pending' \in SUBSET (p \ paired)
        /\ \E measured_in \in [paired -> odometry'] :
             samples' = kept \cup {[image |-> i, session |-> measured_in[i]] :
                                     i \in paired}
        /\ IF paired = {}
           THEN UNCHANGED <<state, status>>
           ELSE SetState("COLLECTING")
  BY DEF TryPair
<1>3. PICK measured_in \in [paired -> odometry'] :
        samples' = kept \cup {[image |-> i, session |-> measured_in[i]] :
                                i \in paired}
  BY <1>2
<1>4. \A i \in paired : measured_in[i] \in Sessions /\ measured_in[i] = session_id'
  BY <1>1
<1>5. \A x \in kept : x \in Samples /\ x.session = session_id'
  BY DEF BufferInv, TypeOK, OneSessionBuffers, Samples
<1>6. samples' \subseteq Samples /\ \A x \in samples' : x.session = session_id'
  BY <1>3, <1>4, <1>5 DEF Samples
<1>7. state' \in States /\ (state' = "INITIALIZED" => state = "INITIALIZED")
  BY <1>2 DEF BufferInv, TypeOK, SetState, States
<1> QED
  BY <1>1, <1>2, <1>6, <1>7

-----------------------------------------------------------------------------
(* The buffers and the alignment.                                          *)

\* The buffers are empty at first.
LEMMA BufferInit == Init => BufferInv
<1> SUFFICES ASSUME Init PROVE BufferInv
  OBVIOUS
<1>1. require_tilt \in BOOLEAN /\ tilt_confirmed \in BOOLEAN /\ visible \in BOOLEAN
  BY DEF Init
<1>2. {visible, tilt_confirmed, require_tilt} \subseteq BOOLEAN
  BY <1>1
<1> QED
  BY <1>2 DEF Init, BufferInv, TypeOK, OneSessionBuffers, OneSession

\* One step per callback.
LEMMA BufferStep == BufferInv /\ [Next]_vars => BufferInv'
<1> SUFFICES ASSUME BufferInv, [Next]_vars PROVE BufferInv'
  OBVIOUS
<1> USE DEF States, Samples
<1>1. CASE EmptySession /\ UNCHANGED require_tilt
  BY <1>1, Cleared DEF EmptySession, Invalidate, ForgetAlignment, ForgetTilt,
     SetState, BufferInv, TypeOK, OneSession
<1>2. ASSUME NEW s \in Sessions, FirstSession(s), UNCHANGED require_tilt
      PROVE  BufferInv'
  BY <1>2, Taken DEF FirstSession, SetState, identity, BufferInv, TypeOK,
     OneSession
<1>3. ASSUME NEW s \in Sessions, ChangedSession(s), UNCHANGED require_tilt
      PROVE  BufferInv'
  BY <1>3, Taken DEF ChangedSession, Invalidate, ForgetAlignment, ForgetTilt,
     SetState, BufferInv, TypeOK, OneSession
<1>4. ASSUME NEW s \in Sessions, SameSession(s), UNCHANGED require_tilt
      PROVE  BufferInv'
  <2> USE <1>4 DEF SameSession, identity
  <2>1. odometry \cup {s} \in SUBSET Sessions
        /\ odometry \cup {s} \subseteq {session_id}
    BY DEF BufferInv, TypeOK, OneSessionBuffers
  <2>2. CASE state = "INITIALIZED"
    BY <2>1, <2>2 DEF BufferInv, TypeOK, OneSessionBuffers, OneSession
  <2>3. CASE state # "INITIALIZED"
    <3>1. TryPair(odometry \cup {s}, pending, samples)
      BY <2>3
    <3>2. pending \in SUBSET Images
      BY DEF BufferInv, TypeOK
    <3> QED
      BY <2>1, <2>3, <3>1, <3>2, Paired
         DEF BufferInv, TypeOK, OneSessionBuffers, OneSession
  <2> QED
    BY <2>2, <2>3
<1>5. ASSUME NEW i \in Images, OnVision(i), UNCHANGED require_tilt
      PROVE  BufferInv'
  <2> USE <1>5 DEF OnVision, identity
  <2>1. /\ odometry \in SUBSET Sessions /\ odometry \subseteq {session_id}
        /\ pending \cup {i} \in SUBSET Images
    BY DEF BufferInv, TypeOK, OneSessionBuffers
  <2> QED
    BY <2>1, Paired DEF BufferInv, TypeOK, OneSessionBuffers, OneSession
<1>6. ASSUME NEW seen \in BOOLEAN, OnVisible(seen), UNCHANGED require_tilt
      PROVE  BufferInv'
  <2> USE <1>6 DEF OnVisible, identity
  <2>1. /\ odometry \in SUBSET Sessions /\ odometry \subseteq {session_id}
        /\ pending \in SUBSET Images
    BY DEF BufferInv, TypeOK, OneSessionBuffers
  <2>2. CASE seen
    BY <2>1, <2>2, Paired DEF BufferInv, TypeOK, OneSessionBuffers, OneSession
  <2>3. CASE ~seen
    BY <2>3 DEF BufferInv, TypeOK, OneSessionBuffers, OneSession
  <2> QED
    BY <2>2, <2>3
<1>7. ASSUME NEW inliers \in SUBSET samples, NEW v \in Values,
             Initialize(inliers, v), UNCHANGED require_tilt
      PROVE  BufferInv'
  <2> USE <1>7 DEF Initialize
  <2>1. inliers # {}
    BY InliersExist
  <2>2. session_id \in Sessions /\ {x.session : x \in inliers} = {session_id}
    BY <2>1 DEF BufferInv, TypeOK, OneSessionBuffers
  <2>3. /\ alignment' = [sessions |-> {session_id}, value |-> v]
        /\ alignment' \in Alignments /\ alignment' # None
    <3>1. alignment' = [sessions |-> {session_id}, value |-> v]
      BY <2>2, Zenon
    <3>2. alignment' \in Alignments
      BY <2>2, <3>1 DEF Alignments
    <3> QED
      BY <3>1, <3>2, ValueAssumption
  <2>4. alignment_id' \in AlignmentIds /\ alignment_id' # None /\ generation' \in Nat
    BY ValueAssumption DEF AlignmentIds, BufferInv, TypeOK
  <2> QED
    BY <2>2, <2>3, <2>4 DEF InitializeGate, SetState, BufferInv, TypeOK,
       OneSessionBuffers, OneSession
<1>8. CASE InitializeRefused /\ UNCHANGED require_tilt
  BY <1>8 DEF InitializeRefused, SetState, identity, BufferInv, TypeOK,
     OneSessionBuffers, OneSession
<1>9. CASE OnConfirmTiltNeutral /\ UNCHANGED require_tilt
  BY <1>9, Cleared DEF OnConfirmTiltNeutral, ForgetAlignment, SetState,
     BufferInv, TypeOK, OneSession
<1>10. CASE OnReset /\ UNCHANGED require_tilt
  BY <1>10, Cleared DEF OnReset, Invalidate, ForgetAlignment, ForgetTilt,
     SetState, BufferInv, TypeOK, OneSession
<1>11. CASE PublishStatus /\ UNCHANGED require_tilt
  BY <1>11 DEF PublishStatus, identity, BufferInv, TypeOK, OneSessionBuffers,
     OneSession
<1>12. CASE LocalizerRestart
  <2>1. {visible', tilt_confirmed', require_tilt'} \subseteq BOOLEAN
    <3>1. tilt_confirmed' \in BOOLEAN
      BY <1>12, Zenon DEF LocalizerRestart
    <3> QED
      BY <1>12, <3>1 DEF LocalizerRestart
  <2>2. OneSession'
    BY <1>12 DEF LocalizerRestart, OneSession
  <2> QED
    BY <1>12, <2>1, <2>2, Cleared DEF LocalizerRestart, ForgetAlignment,
       BufferInv, TypeOK
<1>13. CASE UNCHANGED vars
  BY <1>13 DEF vars, identity, measurements, BufferInv, TypeOK,
     OneSessionBuffers, OneSession
<1> QED
  BY <1>1, <1>2, <1>3, <1>4, <1>5, <1>6, <1>7, <1>8, <1>9, <1>10, <1>11, <1>12,
     <1>13 DEF Next, Callback, OnOdometrySession

-----------------------------------------------------------------------------
(* The envelopes.                                                          *)

\* No envelope is published at first.
LEMMA EnvelopeInit == Init => EnvelopeIsOneFrame
BY DEF Init, EnvelopeIsOneFrame

\* A record published while INITIALIZED is one of the session being followed.
LEMMA PublishedInFrame ==
  ASSUME BufferInv, BufferInv', state' = "INITIALIZED", NEW o, o = session_id',
         PublishAligned(o)
  PROVE  EnvelopeIsOneFrame'
BY DEF PublishAligned, BufferInv, OneSession, EnvelopeIsOneFrame

\* Only SameSession and Initialize publish one.
LEMMA EnvelopeStep ==
  BufferInv /\ BufferInv' /\ EnvelopeIsOneFrame /\ [Next]_vars
    => EnvelopeIsOneFrame'
<1> SUFFICES ASSUME BufferInv, BufferInv', EnvelopeIsOneFrame, [Next]_vars
             PROVE  EnvelopeIsOneFrame'
  OBVIOUS
<1>1. ASSUME NEW s \in Sessions, SameSession(s) PROVE EnvelopeIsOneFrame'
  BY <1>1, PublishedInFrame DEF SameSession, EnvelopeIsOneFrame
<1>2. ASSUME NEW inliers \in SUBSET samples, NEW v \in Values,
             Initialize(inliers, v)
      PROVE  EnvelopeIsOneFrame'
  <2>1. last_odom = session_id' /\ state' = "INITIALIZED"
    BY <1>2 DEF Initialize, InitializeGate, SetState, BufferInv,
       OneSessionBuffers
  <2> QED
    BY <1>2, <2>1, PublishedInFrame DEF Initialize, EnvelopeIsOneFrame
<1>3. ASSUME UNCHANGED aligned PROVE EnvelopeIsOneFrame'
  BY <1>3 DEF EnvelopeIsOneFrame
<1>4. \/ UNCHANGED aligned
      \/ \E s \in Sessions : SameSession(s)
      \/ \E inliers \in SUBSET samples, v \in Values : Initialize(inliers, v)
  BY DEF Next, Callback, OnOdometrySession, EmptySession, FirstSession,
     ChangedSession, OnVision, OnVisible, InitializeRefused,
     OnConfirmTiltNeutral, OnReset, PublishStatus, LocalizerRestart, vars
<1> QED
  BY <1>1, <1>2, <1>3, <1>4

-----------------------------------------------------------------------------
(* The theorems.                                                           *)

\* The inductive invariant holds.
LEMMA Inductive == Spec => []IInv
<1>1. Init => IInv
  BY BufferInit, EnvelopeInit DEF IInv
<1>2. IInv /\ [Next]_vars => IInv'
  BY BufferStep, EnvelopeStep DEF IInv
<1> QED
  BY <1>1, <1>2, PTL DEF Spec

\* Every reachable state of the localizer is well typed.
THEOREM AlignmentTypes == Spec => []TypeOK
<1>1. IInv => TypeOK
  BY DEF IInv, BufferInv
<1> QED
  BY <1>1, Inductive, PTL

\* _on_initialize never mixes measurements of two odometry sessions, however
\* sessions change and images, records and resets interleave, and an alignment
\* never outlives its session.
THEOREM AlignmentIsOfOneSession == Spec => []OneSession
<1>1. IInv => OneSession
  BY DEF IInv, BufferInv
<1> QED
  BY <1>1, Inductive, PTL

\* A pool pose is published only in the session it was measured in.
THEOREM PoseIsInOneFrame == Spec => []EnvelopeIsOneFrame
<1>1. IInv => EnvelopeIsOneFrame
  BY DEF IInv
<1> QED
  BY <1>1, Inductive, PTL

-----------------------------------------------------------------------------
(* Refinement, the safety part: every callback is a step of the service or *)
(* invisible to it.                                                        *)

\* Without INITIALIZED there is no alignment to replace or give up.
HeldWhileInitialized ==
  state # "INITIALIZED" => alignment = None /\ alignment_id = None

\* No alignment is held at first.
LEMMA HeldInit == Init => HeldWhileInitialized
BY DEF Init, HeldWhileInitialized

\* Every step keeps an alignment only while INITIALIZED.
LEMMA HeldStep ==
  BufferInv /\ HeldWhileInitialized /\ [Next]_vars => HeldWhileInitialized'
<1> SUFFICES ASSUME BufferInv, HeldWhileInitialized, [Next]_vars
             PROVE  HeldWhileInitialized'
  OBVIOUS
<1> USE DEF HeldWhileInitialized
<1>1. ASSUME ForgetAlignment PROVE HeldWhileInitialized'
  BY <1>1 DEF ForgetAlignment
<1>2. ASSUME state' = "INITIALIZED" PROVE HeldWhileInitialized'
  BY <1>2
<1>3. ASSUME UNCHANGED <<alignment, alignment_id>>, state # "INITIALIZED"
      PROVE  HeldWhileInitialized'
  BY <1>3
<1>4. CASE state # "INITIALIZED"
  <2>1. \/ ForgetAlignment \/ state' = "INITIALIZED"
        \/ UNCHANGED <<alignment, alignment_id>>
    BY DEF Next, Callback, OnOdometrySession, EmptySession, FirstSession,
       ChangedSession, SameSession, OnVision, OnVisible, Initialize,
       InitializeRefused, OnConfirmTiltNeutral, OnReset, PublishStatus,
       LocalizerRestart, Invalidate, SetState, identity, vars
  <2> QED
    BY <1>1, <1>2, <1>3, <1>4, <2>1
<1>5. CASE state = "INITIALIZED"
  <2>1. ASSUME NEW o, NEW p, TryPair(o, p, samples) PROVE state' = state
    BY <1>5, <2>1 DEF TryPair
  <2>2. ASSUME NEW s \in Sessions, FirstSession(s) PROVE FALSE
    <3>1. alignment \in Alignments /\ alignment.sessions = {session_id}
      BY <1>5 DEF BufferInv, TypeOK, OneSession
    <3>2. session_id \in Sessions
      BY <3>1 DEF Alignments
    <3> QED
      BY <2>2, <3>2, AlignmentAssumption DEF FirstSession
  <2>3. ForgetAlignment \/ state' = "INITIALIZED"
    BY <1>5, <2>1, <2>2 DEF Next, Callback, OnOdometrySession, EmptySession,
       ChangedSession, SameSession, OnVision, OnVisible, Initialize,
       InitializeRefused, InitializeGate, OnConfirmTiltNeutral, OnReset,
       PublishStatus, LocalizerRestart, Invalidate, identity, vars
  <2> QED
    BY <1>1, <1>2, <2>3
<1> QED
  BY <1>4, <1>5

\* _publish_status sends what the service's status may be.
LEMMA StatusRefined == PublishedStatus => Service!Published
<1> SUFFICES ASSUME PublishedStatus PROVE Service!Published
  OBVIOUS
<1>1. PICK valid \in BOOLEAN :
        /\ status' = [state |-> state', epoch |-> epoch',
                      session_id |-> session_id',
                      alignment_id |-> alignment_id',
                      pool_to_odom |-> alignment', output_valid |-> valid]
        /\ valid => alignment' # None
  <2>1. PICK fresh \in BOOLEAN :
          status' = [state |-> state', epoch |-> epoch',
                     session_id |-> session_id',
                     alignment_id |-> alignment_id',
                     pool_to_odom |-> alignment',
                     output_valid |-> /\ fresh /\ last_odom' # None
                                      /\ state' = "INITIALIZED"
                                      /\ alignment' # None
                                      /\ alignment_id' # None
                                      /\ session_id' # NoSession]
    BY DEF PublishedStatus
  <2> DEFINE v == /\ fresh /\ last_odom' # None
                  /\ state' = "INITIALIZED"
                  /\ alignment' # None
                  /\ alignment_id' # None
                  /\ session_id' # NoSession
  <2>2. v \in BOOLEAN /\ (v => alignment' # None)
    OBVIOUS
  <2> QED
    BY <2>1, <2>2
<1>2. CASE valid
  BY <1>1, <1>2 DEF Service!Published
<1>3. CASE ~valid
  BY <1>1, <1>3 DEF Service!Published
<1> QED
  BY <1>2, <1>3

\* A change of state is a publication of the service, or nothing.
LEMMA SetStateRefined ==
  ASSUME NEW s, SetState(s)
  PROVE  Service!Published \/ (state = s /\ UNCHANGED status)
BY StatusRefined DEF SetState

\* An envelope is one the service may publish.
LEMMA EnvelopeRefined ==
  ASSUME BufferInv', state' = "INITIALIZED", NEW o, o = session_id',
         PublishAligned(o)
  PROVE  Service!PublishedAligned
<1>1. /\ epoch' \in Nat /\ alignment_id' \in AlignmentIds
      /\ alignment' \in Alignments /\ alignment'.sessions = {session_id'}
  BY DEF BufferInv, TypeOK, OneSession
<1>2. session_id' \in Sessions
  BY <1>1 DEF Alignments
<1>3. aligned' \in Envelopes
  BY <1>1, <1>2 DEF PublishAligned, Envelopes
<1>4. aligned' # None
  BY <1>3, ValueAssumption
<1> QED
  BY <1>4 DEF PublishAligned, Service!PublishedAligned

\* One step per callback.
LEMMA RefinedStep ==
  BufferInv /\ BufferInv' /\ HeldWhileInitialized /\ [Next]_vars
    => [Service!ServiceNext]_(Service!service_vars)
<1> SUFFICES ASSUME BufferInv, BufferInv', HeldWhileInitialized, [Next]_vars
             PROVE  Service!ServiceNext \/ UNCHANGED Service!service_vars
  OBVIOUS
<1> DEFINE Quiet == UNCHANGED <<session_id, alignment, alignment_id, boot,
                                generation, epoch, aligned>>
<1>1. ASSUME Quiet, Service!Published \/ UNCHANGED status
      PROVE  Service!SendStatus \/ UNCHANGED Service!service_vars
  BY <1>1 DEF Service!SendStatus, Service!service_vars
<1>2. ASSUME NEW s \in Sessions, FirstSession(s) PROVE Service!Follow(s)
  BY <1>2, SetStateRefined DEF FirstSession, identity, Service!Follow
<1>3. ASSUME NEW s \in Sessions \cup {NoSession}, session_id' = s,
             UNCHANGED <<boot, generation, aligned>>,
             Invalidate("INVALID") \/ Invalidate("UNINITIALIZED")
      PROVE  Service!Retire(s)
  BY <1>3, SetStateRefined DEF Invalidate, ForgetAlignment, Service!Retire,
     HeldWhileInitialized
<1>4. ASSUME NEW s \in Sessions, SameSession(s)
      PROVE  Service!ServiceNext \/ UNCHANGED Service!service_vars
  <2>1. CASE state = "INITIALIZED"
    <3>1. /\ UNCHANGED <<session_id, alignment, alignment_id, boot, generation,
                        epoch, state, status>>
          /\ alignment # None /\ session_id' = s
          /\ PublishAligned(s) \/ UNCHANGED aligned
      BY <1>4, <2>1 DEF SameSession, identity, BufferInv, OneSession
    <3>2. ASSUME PublishAligned(s) PROVE Service!SendAligned
      <4>1. Service!PublishedAligned
        BY <2>1, <3>1, <3>2, EnvelopeRefined
      <4> QED
        BY <3>1, <4>1 DEF Service!SendAligned
    <3>3. ASSUME UNCHANGED aligned PROVE UNCHANGED Service!service_vars
      BY <3>1, <3>3 DEF Service!service_vars
    <3> QED
      BY <3>1, <3>2, <3>3 DEF Service!ServiceNext
  <2>2. CASE state # "INITIALIZED"
    <3>1. Quiet /\ (Service!Published \/ UNCHANGED status)
      BY <1>4, <2>2, SetStateRefined DEF SameSession, TryPair, identity
    <3> QED
      BY <1>1, <3>1 DEF Service!ServiceNext
  <2> QED
    BY <2>1, <2>2
<1>5. ASSUME NEW inliers \in SUBSET samples, NEW v \in Values,
             Initialize(inliers, v)
      PROVE  Service!Align(v)
  <2>1. /\ alignment = None /\ session_id # NoSession /\ epoch < MaxEpoch
        /\ epoch' = epoch + 1 /\ generation' = generation + 1
        /\ alignment_id' = <<boot, generation'>>
        /\ UNCHANGED <<session_id, boot>>
    BY <1>5 DEF Initialize, InitializeGate, HeldWhileInitialized
  <2>2. {x.session : x \in inliers} = {session_id}
    BY <1>5, InliersExist DEF Initialize, BufferInv, OneSessionBuffers
  <2>3. alignment' = [sessions |-> {session_id}, value |-> v]
    BY <1>5, <2>2, Zenon DEF Initialize
  <2>4. Service!Published
    BY <1>5, SetStateRefined DEF Initialize, InitializeGate
  <2>5. Service!PublishedAligned \/ UNCHANGED aligned
    <3>1. last_odom = session_id' /\ state' = "INITIALIZED"
      BY <1>5 DEF Initialize, InitializeGate, SetState, BufferInv,
         OneSessionBuffers
    <3> QED
      BY <1>5, <3>1, EnvelopeRefined DEF Initialize
  <2> QED
    BY <2>1, <2>3, <2>4, <2>5 DEF Service!Align
<1>6. ASSUME OnConfirmTiltNeutral
      PROVE  Quiet /\ (Service!Published \/ UNCHANGED status)
  BY <1>6, SetStateRefined DEF OnConfirmTiltNeutral, ForgetAlignment,
     HeldWhileInitialized
<1>7. ASSUME \/ \E i \in Images : OnVision(i)
             \/ \E seen \in BOOLEAN : OnVisible(seen)
             \/ InitializeRefused \/ PublishStatus
      PROVE  Quiet /\ (Service!Published \/ UNCHANGED status)
  BY <1>7, SetStateRefined, StatusRefined DEF OnVision, OnVisible, TryPair,
     InitializeRefused, PublishStatus, identity
<1>8. ASSUME LocalizerRestart PROVE Service!Restart
  BY <1>8, StatusRefined DEF LocalizerRestart, ForgetAlignment, Service!Restart
<1>9. ASSUME UNCHANGED vars PROVE UNCHANGED Service!service_vars
  BY <1>9 DEF vars, identity, Service!service_vars
<1>10. ASSUME EmptySession PROVE Service!Retire(NoSession)
  BY <1>10, <1>3 DEF EmptySession
<1>11. ASSUME NEW s \in Sessions, ChangedSession(s) PROVE Service!Retire(s)
  BY <1>11, <1>3 DEF ChangedSession
<1>12. ASSUME OnReset PROVE Service!Retire(session_id)
  BY <1>12, <1>3 DEF OnReset, BufferInv, TypeOK
<1>13. session_id \in Sessions \cup {NoSession}
  BY DEF BufferInv, TypeOK
<1> QED
  BY <1>1, <1>2, <1>4, <1>5, <1>6, <1>7, <1>8, <1>9, <1>10, <1>11, <1>12, <1>13
     DEF Next, Callback, OnOdometrySession, Service!ServiceNext

\* Whatever the buffers, the camera and the operator do, the rest of the stack
\* sees a cell that is empty or holds one frozen alignment: the safety part of
\* ImplementsService, which a run checks with its liveness part.
THEOREM ServiceRefined ==
  Spec => Service!ServiceInit /\ [][Service!ServiceNext]_(Service!service_vars)
<1>1. Init => Service!ServiceInit
  BY DEF Init, Service!ServiceInit
<1>2. Init => BufferInv /\ HeldWhileInitialized
  BY BufferInit, HeldInit
<1>3. BufferInv /\ HeldWhileInitialized /\ [Next]_vars
        => (BufferInv /\ HeldWhileInitialized)'
  BY BufferStep, HeldStep
<1>4. BufferInv /\ BufferInv' /\ HeldWhileInitialized /\ [Next]_vars
        => [Service!ServiceNext]_(Service!service_vars)
  BY RefinedStep
<1> QED
  BY <1>1, <1>2, <1>3, <1>4, PTL DEF Spec
=============================================================================
