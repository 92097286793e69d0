-------------------------- MODULE PoolMissionProofs --------------------------
(***************************************************************************)
(* Proofs about PoolMission for any number of sessions, drafts, missions   *)
(* and restarts.  The argument is that a step either only copies what is   *)
(* already somewhere, or is Align, which puts a copy with an id never used *)
(* before into the system.                                                 *)
(***************************************************************************)
EXTENDS PoolMission, TLAPS

\* Ids given out so far, by this localizer process or an earlier one.
Used(id) ==
  \E b, g \in Nat : id = <<b, g>> /\ (b < boot \/ (b = boot /\ g <= generation))

\* The localizer's own alignment is of the session it follows.
ServiceInv ==
  /\ boot \in Nat /\ generation \in Nat
  /\ session_id \in Sessions \cup {NoSession}
  /\ nav \in Sessions /\ odometry_topic \in Sessions \cup {NoSession}
  /\ alignment = None <=> alignment_id = None
  /\ alignment # None => /\ session_id # NoSession
                         /\ alignment.sessions = {session_id}
                         /\ Used(alignment_id)

CopyInv ==
  \A c \in Copies : /\ c.pool_to_odom.sessions = {c.session_id}
                    /\ Used(c.alignment_id)

Current ==
  [epoch |-> epoch, session_id |-> session_id, alignment_id |-> alignment_id,
   pool_to_odom |-> alignment]

\* What candidates, missions and contracts rest on was validated.
ApprovalInv ==
  \A c \in Live(validated) \cup Live(active) \cup Live(resolved)
             \cup Live(obs_mission) \cup Live(prepared) :
    [plan |-> c.plan, binding |-> c.binding] \in approvals

\* The latched topic offers the active mission.
LatchInv == active # None => resolved = active

IInv ==
  /\ ServiceInv /\ CopyInv /\ IdentityNamesAlignment /\ ApprovalInv /\ LatchInv

-----------------------------------------------------------------------------
(* Where copies come from.                                                 *)

Alignable == \E v \in Values : Align(v)

\* The manager only copies: the latest status, the candidate, the mission.
LEMMA ManagerCopies ==
  ASSUME (Manager \/ ManagerReceives) /\ UNCHANGED <<service_vars, obs_vars>>
  PROVE  Copies' \subseteq Copies
<1> USE DEF Copies, Live, service_vars, obs_vars
<1>1. CASE ManagerReceives
  BY <1>1 DEF ManagerReceives, OnLocalizationStatus, OnAlignedOdometry
<1>2. ASSUME NEW p \in Plans, OnDraft(p) PROVE Copies' \subseteq Copies
  BY <1>2 DEF OnDraft
<1>3. CASE OnValidate
  BY <1>3 DEF OnValidate, CandidateReady, LocalizationUsable, Candidate
<1>4. CASE ValidationLost
  BY <1>4 DEF ValidationLost
<1>5. CASE OnCommit
  BY <1>5 DEF OnCommit, CandidateReady, LocalizationUsable, Candidate
<1>6. CASE ManagerRestart
  BY <1>6 DEF ManagerRestart
<1> QED
  BY <1>1, <1>2, <1>3, <1>4, <1>5, <1>6 DEF Manager

\* obs_node only copies.
LEMMA ObsCopies ==
  ASSUME ObsNode
  PROVE  Copies' \subseteq Copies /\ UNCHANGED service_vars
<1> USE DEF Copies, Live, service_vars, mission_vars
<1>1. CASE NavigationReset \/ PublishOdometry
  BY <1>1 DEF NavigationReset, PublishOdometry
<1>2. CASE ObsOnLocalizationStatus
  BY <1>2 DEF ObsOnLocalizationStatus
<1>3. CASE ObsOnResolvedMission
  BY <1>3 DEF ObsOnResolvedMission
<1>4. CASE Prepare
  BY <1>4 DEF Prepare
<1>5. CASE ClearPrepared \/ ObsRestart
  BY <1>5 DEF ClearPrepared, ObsRestart
<1> QED
  BY <1>1, <1>2, <1>3, <1>4, <1>5 DEF ObsNode

\* So does the localizer, but for Align.
LEMMA LocalizerCopies ==
  ASSUME ServiceInv, Localizer, ~Alignable, UNCHANGED <<mission_vars, obs_vars>>
  PROVE  Copies' \subseteq Copies
<1> USE DEF Copies, Live, mission_vars, obs_vars
<1>1. ASSUME NEW s, Follow(s) PROVE Copies' \subseteq Copies
  BY <1>1 DEF Follow, Published, ServiceInv
<1>2. ASSUME NEW s, Retire(s) PROVE Copies' \subseteq Copies
  BY <1>2 DEF Retire, Published
<1>3. CASE SendAligned
  BY <1>3 DEF SendAligned
<1>4. CASE SendStatus
  BY <1>4 DEF SendStatus, Published, ServiceInv
<1>5. CASE Restart
  BY <1>5 DEF Restart, Published
<1> QED
  BY <1>1, <1>2, <1>3, <1>4, <1>5 DEF Localizer, LocalizerOdometry, Alignable

\* Align adds the copy it makes.
LEMMA AlignCopies ==
  ASSUME NEW v \in Values, Align(v), UNCHANGED <<mission_vars, obs_vars>>
  PROVE  Copies' \subseteq Copies \cup {Current'}
BY DEF Align, Published, Current, Copies, Live, mission_vars, obs_vars

-----------------------------------------------------------------------------
(* The localizer's own state.                                              *)

\* Ids in use stay in use.
LEMMA UsedStep ==
  ASSUME ServiceInv, [Next]_vars, NEW id, Used(id)
  PROVE  Used(id)'
<1>1. PICK b \in Nat, g \in Nat :
        id = <<b, g>> /\ (b < boot \/ (b = boot /\ g <= generation))
  BY DEF Used
<1>2. /\ boot' \in Nat /\ generation' \in Nat /\ boot \in Nat /\ generation \in Nat
      /\ boot < boot' \/ (boot = boot' /\ generation <= generation')
  BY DEF Next, Localizer, LocalizerOdometry, Follow, Retire, Align, SendStatus,
     SendAligned, Restart, ObsNode, NavigationReset, PublishOdometry,
     ObsOnLocalizationStatus, ObsOnResolvedMission, Prepare, ClearPrepared,
     ObsRestart, service_vars, vars, ServiceInv
<1>3. b < boot' \/ (b = boot' /\ g <= generation')
  BY <1>1, <1>2
<1> QED
  BY <1>1, <1>3 DEF Used

\* Every step keeps what the alignment service knows.
LEMMA ServiceStep == ServiceInv /\ [Next]_vars => ServiceInv'
<1> SUFFICES ASSUME ServiceInv, [Next]_vars PROVE ServiceInv'
  OBVIOUS
<1>1. nav' \in Sessions /\ odometry_topic' \in Sessions \cup {NoSession}
  BY SessionsAssumption DEF Next, Localizer, ObsNode, NavigationReset,
     PublishOdometry, ObsOnLocalizationStatus, ObsOnResolvedMission, Prepare,
     ClearPrepared, ObsRestart, obs_vars, vars, ServiceInv
<1>2. CASE UNCHANGED service_vars
  BY <1>1, <1>2 DEF service_vars, ServiceInv, Used
<1>3. ASSUME NEW s \in Sessions \cup {NoSession}, Follow(s) \/ Retire(s)
      PROVE  ServiceInv'
  BY <1>1, <1>3 DEF Follow, Retire, ServiceInv
<1>4. ASSUME NEW v \in Values, Align(v) PROVE ServiceInv'
  <2>1. /\ session_id \in Sessions /\ session_id' = session_id /\ boot' = boot
        /\ generation' = generation + 1
        /\ alignment' = [sessions |-> {session_id}, value |-> v]
        /\ alignment_id' = <<boot, generation'>>
    BY <1>4 DEF Align, ServiceInv
  <2>2. alignment' \in Alignments /\ alignment_id' \in AlignmentIds
    BY <2>1 DEF Alignments, AlignmentIds, ServiceInv
  <2>3. Used(alignment_id)'
    BY <2>1 DEF Used, ServiceInv
  <2>4. session_id' # NoSession
    BY <2>1, ServiceAssumption
  <2>5. alignment' # None /\ alignment_id' # None
    BY <2>2, ValueAssumption
  <2> QED
    BY <1>1, <2>1, <2>3, <2>4, <2>5 DEF ServiceInv
<1>5. CASE SendStatus \/ SendAligned
  BY <1>1, <1>5 DEF SendStatus, SendAligned, ServiceInv, Used
<1>6. CASE Restart
  BY <1>1, <1>6 DEF Restart, ServiceInv
<1> QED
  BY <1>2, <1>3, <1>4, <1>5, <1>6, ObsCopies
     DEF Next, Localizer, LocalizerOdometry, vars, ServiceInv

-----------------------------------------------------------------------------
(* The copies.                                                             *)

\* A step without Align adds no copy.
LEMMA CopiesOnlyFromAlign ==
  ASSUME ServiceInv, [Next]_vars,
         ~(Alignable /\ UNCHANGED <<mission_vars, obs_vars>>)
  PROVE  Copies' \subseteq Copies
<1>1. CASE Localizer /\ UNCHANGED <<mission_vars, obs_vars>>
  BY <1>1, LocalizerCopies
<1>2. CASE (Manager \/ ManagerReceives) /\ UNCHANGED <<service_vars, obs_vars>>
  BY <1>2, ManagerCopies
<1>3. CASE ObsNode
  BY <1>3, ObsCopies
<1>4. CASE UNCHANGED vars
  BY <1>4 DEF vars, service_vars, mission_vars, obs_vars, Copies, Live
<1> QED
  BY <1>1, <1>2, <1>3, <1>4 DEF Next

\* What Align makes has an id of its own.
LEMMA AlignIsNew ==
  ASSUME ServiceInv, CopyInv, NEW v \in Values, Align(v)
  PROVE  /\ Current'.pool_to_odom.sessions = {Current'.session_id}
         /\ \A c \in Copies : c.alignment_id # Current'.alignment_id
<1>1. /\ Current'.alignment_id = <<boot, generation + 1>>
      /\ Current'.session_id = session_id
      /\ Current'.pool_to_odom = [sessions |-> {session_id}, value |-> v]
  BY DEF Align, Current
<1>2. ASSUME NEW c \in Copies PROVE c.alignment_id # <<boot, generation + 1>>
  <2>1. PICK b \in Nat, g \in Nat :
          /\ c.alignment_id = <<b, g>>
          /\ b < boot \/ (b = boot /\ g <= generation)
    BY DEF CopyInv, Used
  <2>2. b # boot \/ g # generation + 1
    BY <2>1 DEF ServiceInv
  <2> QED
    BY <2>1, <2>2
<1> QED
  BY <1>1, <1>2

\* Every step keeps what the copies of a mission say.
LEMMA CopyStep ==
  ServiceInv /\ CopyInv /\ IdentityNamesAlignment /\ [Next]_vars
    => CopyInv' /\ IdentityNamesAlignment'
<1> SUFFICES ASSUME ServiceInv, CopyInv, IdentityNamesAlignment, [Next]_vars
             PROVE  CopyInv' /\ IdentityNamesAlignment'
  OBVIOUS
<1>1. \A c \in Copies : c.pool_to_odom.sessions = {c.session_id}
                          /\ Used(c.alignment_id)'
  BY UsedStep DEF CopyInv
<1>2. CASE Copies' \subseteq Copies
  BY <1>1, <1>2 DEF CopyInv, IdentityNamesAlignment
<1>3. ASSUME NEW v \in Values, Align(v), UNCHANGED <<mission_vars, obs_vars>>
      PROVE  CopyInv' /\ IdentityNamesAlignment'
  <2>1. Copies' \subseteq Copies \cup {Current'}
    BY <1>3, AlignCopies
  <2>2. /\ Current'.pool_to_odom.sessions = {Current'.session_id}
        /\ \A c \in Copies : c.alignment_id # Current'.alignment_id
    BY <1>3, AlignIsNew
  <2>3. Used(Current.alignment_id)'
    BY <1>3 DEF Align, Current, Used, ServiceInv
  <2> QED
    BY <1>1, <2>1, <2>2, <2>3 DEF CopyInv, IdentityNamesAlignment
<1> QED
  BY <1>2, <1>3, CopiesOnlyFromAlign DEF Alignable

-----------------------------------------------------------------------------
(* Approvals and the latched mission.                                      *)

\* _on_validate approves what it keeps; the rest copies.
LEMMA ApprovalStep == ApprovalInv /\ [Next]_vars => ApprovalInv'
<1> SUFFICES ASSUME ApprovalInv, [Next]_vars PROVE ApprovalInv'
  OBVIOUS
<1> USE DEF ApprovalInv, Live
<1>1. CASE UNCHANGED <<mission_vars, obs_vars>>
  BY <1>1 DEF mission_vars, obs_vars
<1>2. CASE Manager /\ UNCHANGED obs_vars
  <2> USE DEF obs_vars
  <2>1. ASSUME NEW p \in Plans, OnDraft(p) PROVE ApprovalInv'
    BY <1>2, <2>1 DEF OnDraft
  <2>2. CASE OnValidate
    <3>1. /\ approvals \subseteq approvals'
          /\ [plan |-> validated'.plan, binding |-> validated'.binding]
               \in approvals'
      BY <2>2 DEF OnValidate, Approve
    <3>2. UNCHANGED <<active, resolved, obs_mission, prepared>>
      BY <1>2, <2>2 DEF OnValidate
    <3>3. ASSUME NEW c \in {active, resolved, obs_mission, prepared}, c # None
          PROVE  [plan |-> c.plan, binding |-> c.binding] \in approvals'
      BY <3>1, <3>3
    <3> QED
      BY <3>1, <3>2, <3>3
  <2>3. CASE ValidationLost
    BY <1>2, <2>3 DEF ValidationLost
  <2>4. CASE OnCommit
    <3>1. [plan |-> draft, binding |-> localization] \in approvals
      BY <2>4 DEF OnCommit, Candidate
    <3>2. active'.plan = draft /\ active'.binding = localization
      BY <2>4 DEF OnCommit
    <3>3. /\ resolved' = active'
          /\ UNCHANGED <<validated, obs_mission, prepared, approvals>>
      BY <1>2, <2>4 DEF OnCommit
    <3> QED
      BY <3>1, <3>2, <3>3
  <2>5. CASE ManagerRestart
    BY <1>2, <2>5 DEF ManagerRestart
  <2> QED
    BY <1>2, <2>1, <2>2, <2>3, <2>4, <2>5 DEF Manager
<1>3. CASE ManagerReceives /\ UNCHANGED obs_vars
  BY <1>3 DEF ManagerReceives, OnLocalizationStatus, OnAlignedOdometry, obs_vars
<1>4. CASE ObsNode
  BY <1>4 DEF ObsNode, NavigationReset, PublishOdometry, ObsOnLocalizationStatus,
     ObsOnResolvedMission, Prepare, ClearPrepared, ObsRestart, mission_vars
<1> QED
  BY <1>1, <1>2, <1>3, <1>4 DEF Next, vars

\* Only _on_commit, once, and the end of the process change the mission.
LEMMA MissionChanges ==
  ASSUME [Next]_vars
  PROVE  \/ UNCHANGED <<active, resolved>>
         \/ active = None /\ resolved' = active'
         \/ active' = None /\ resolved' = None
BY DEF Next, Manager, ManagerReceives, OnLocalizationStatus, OnAlignedOdometry,
   OnDraft, OnValidate, ValidationLost, OnCommit, ManagerRestart, ObsNode,
   NavigationReset, PublishOdometry, ObsOnLocalizationStatus,
   ObsOnResolvedMission, Prepare, ClearPrepared, ObsRestart, mission_vars, vars

\* Every step keeps the latch of the mission in use.
LEMMA LatchStep ==
  ASSUME LatchInv, [Next]_vars
  PROVE  /\ LatchInv'
         /\ active # None =>
              (active' = active \/ active' = None) /\ resolved' = active'
BY MissionChanges DEF LatchInv

-----------------------------------------------------------------------------
(* The theorems.                                                           *)

\* Nothing is aligned, copied or approved at first.
LEMMA Initially == Init => IInv
<1> SUFFICES ASSUME Init PROVE IInv
  OBVIOUS
<1>1. Copies = {}
  BY DEF Init, ServiceInit, MissionInit, Copies, Live
<1>2. ServiceInv
  BY SessionsAssumption DEF Init, ServiceInit, ServiceInv
<1>3. ApprovalInv /\ LatchInv
  BY DEF Init, MissionInit, ApprovalInv, LatchInv, Live
<1> QED
  BY <1>1, <1>2, <1>3 DEF IInv, CopyInv, IdentityNamesAlignment

\* The inductive invariant holds.
LEMMA Inductive == Spec => []IInv
<1>1. IInv /\ [Next]_vars => IInv'
  BY ServiceStep, CopyStep, ApprovalStep, LatchStep DEF IInv
<1> QED
  BY <1>1, Initially, PTL DEF Spec

\* identity.py's promise, for any number of localizer processes: an alignment
\* id that appears twice anywhere in the stack stands for one transform.
THEOREM IdentityHolds == Spec => []IdentityNamesAlignment
<1>1. IInv => IdentityNamesAlignment
  BY DEF IInv
<1> QED
  BY <1>1, Inductive, PTL

\* What passes the gates of ARM and START was resolved in the vehicle's present
\* frame and was validated by the operator, whatever was delayed or restarted.
THEOREM AdmittedMissionIsCurrent == Spec => []AdmittedIsCurrent
<1>1. ASSUME IInv, Admitted PROVE AdmittedIsCurrent
  <2>1. /\ prepared # None /\ obs_status # None
        /\ prepared.binding.session_id = nav
    BY <1>1 DEF Admitted, PoolGate, PreparedGate, SameIdentity
  <2>2. prepared.binding \in Copies /\ prepared \in Live(prepared)
    BY <2>1 DEF Copies, Live
  <2>3. prepared.binding.pool_to_odom.sessions = {nav}
    BY <1>1, <2>1, <2>2 DEF IInv, CopyInv
  <2>4. [plan |-> prepared.plan, binding |-> prepared.binding] \in approvals
    BY <1>1, <2>2 DEF IInv, ApprovalInv
  <2> QED
    BY <2>3, <2>4 DEF AdmittedIsCurrent
<1>2. IInv => AdmittedIsCurrent
  BY <1>1 DEF AdmittedIsCurrent
<1> QED
  BY <1>2, Inductive, PTL

\* A process of the mission manager commits one mission.
THEOREM MissionIsImmutable == Spec => MissionImmutable
<1>1. IInv /\ [Next]_vars =>
        [active # None =>
          (active' = active \/ active' = None) /\ resolved' = active']_vars
  BY LatchStep DEF IInv
<1> QED
  BY <1>1, Inductive, PTL DEF Spec, MissionImmutable

-----------------------------------------------------------------------------
(* Vectors and matrices of integers.                                       *)

\* A vector of integers is its three coordinates, and a matrix its three rows.
LEMMA PlaceParts ==
  ASSUME NEW p \in Places
  PROVE  p[1] \in Int /\ p[2] \in Int /\ p[3] \in Int /\ p = <<p[1], p[2], p[3]>>
BY DEF Places

\* A matrix is its three rows.
LEMMA MatrixParts ==
  ASSUME NEW r \in Matrices
  PROVE  r[1] \in Places /\ r[2] \in Places /\ r[3] \in Places /\ r = <<r[1], r[2], r[3]>>
BY DEF Matrices

\* A row of a product, times a vector: the order in which sums are taken does not matter.
LEMMA RowProduct ==
  ASSUME NEW a1 \in Int, NEW a2 \in Int, NEW a3 \in Int,
         NEW b11 \in Int, NEW b12 \in Int, NEW b13 \in Int,
         NEW b21 \in Int, NEW b22 \in Int, NEW b23 \in Int,
         NEW b31 \in Int, NEW b32 \in Int, NEW b33 \in Int,
         NEW c1 \in Int, NEW c2 \in Int, NEW c3 \in Int
  PROVE  (a1 * b11 + a2 * b21 + a3 * b31) * c1 + (a1 * b12 + a2 * b22 + a3 * b32) * c2
           + (a1 * b13 + a2 * b23 + a3 * b33) * c3
         = a1 * (b11 * c1 + b12 * c2 + b13 * c3) + a2 * (b21 * c1 + b22 * c2 + b23 * c3)
           + a3 * (b31 * c1 + b32 * c2 + b33 * c3)
OBVIOUS

\* The types of what the operations give.
LEMMA AppliedType ==
  ASSUME NEW r \in Matrices, NEW p \in Places
  PROVE  Applied(r, p) \in Places
BY PlaceParts, MatrixParts DEF Applied, Dot, Places

\* The columns of a matrix are the rows of its transpose.
LEMMA TransposedType ==
  ASSUME NEW r \in Matrices
  PROVE  Transposed(r) \in Matrices /\ Column(r, 1) \in Places /\ Column(r, 2) \in Places /\ Column(r, 3) \in Places
BY PlaceParts, MatrixParts DEF Transposed, Column, Places, Matrices

\* A matrix transposed twice is itself.
LEMMA ColumnsOfRows ==
  ASSUME NEW r \in Matrices
  PROVE Transposed(Transposed(r)) = r
<1>1. r[1] \in Places /\ r[2] \in Places /\ r[3] \in Places /\ r = <<r[1], r[2], r[3]>>
  BY MatrixParts
<1> QED
BY <1>1, PlaceParts DEF Transposed, Column

\* A product of matrices is a matrix.
LEMMA ComposedType ==
  ASSUME NEW r \in Matrices, NEW s \in Matrices
  PROVE  Composed(r, s) \in Matrices
<1>1. <<Applied(r, Column(s, 1)), Applied(r, Column(s, 2)), Applied(r, Column(s, 3))>> \in Matrices
  BY TransposedType, AppliedType DEF Matrices
<1> QED BY <1>1, TransposedType DEF Composed

\* The rows and the columns of a matrix that is given by its columns.
LEMMA RowsGiven ==
  ASSUME NEW u, NEW v, NEW w
  PROVE  Transposed(<<u, v, w>>) =
           <<<<u[1], v[1], w[1]>>, <<u[2], v[2], w[2]>>, <<u[3], v[3], w[3]>>>>
BY DEF Transposed, Column

\* Its columns are those it was given by.
LEMMA ColumnsGiven ==
  ASSUME NEW u \in Places, NEW v \in Places, NEW w \in Places
  PROVE  /\ Column(Transposed(<<u, v, w>>), 1) = u
         /\ Column(Transposed(<<u, v, w>>), 2) = v
         /\ Column(Transposed(<<u, v, w>>), 3) = w
BY RowsGiven, PlaceParts DEF Column

\* A product takes a place where its factors do, one after the other.
LEMMA ComposedApplied ==
  ASSUME NEW r \in Matrices, NEW s \in Matrices, NEW p \in Places
  PROVE  Applied(Composed(r, s), p) = Applied(r, Applied(s, p))
<1>1. ASSUME NEW a \in Places
      PROVE  Dot(<<Dot(a, Column(s, 1)), Dot(a, Column(s, 2)), Dot(a, Column(s, 3))>>, p)
               = Dot(a, Applied(s, p))
  <2>1. /\ a[1] \in Int /\ a[2] \in Int /\ a[3] \in Int /\ p[1] \in Int /\ p[2] \in Int /\ p[3] \in Int
        /\ s[1][1] \in Int /\ s[1][2] \in Int /\ s[1][3] \in Int
        /\ s[2][1] \in Int /\ s[2][2] \in Int /\ s[2][3] \in Int
        /\ s[3][1] \in Int /\ s[3][2] \in Int /\ s[3][3] \in Int
    BY PlaceParts, MatrixParts
  <2> QED BY <2>1, RowProduct DEF Dot, Column, Applied
<1>2. r[1] \in Places /\ r[2] \in Places /\ r[3] \in Places
  BY MatrixParts
<1>3. Composed(r, s) =
        <<<<Applied(r, Column(s, 1))[1], Applied(r, Column(s, 2))[1], Applied(r, Column(s, 3))[1]>>,
          <<Applied(r, Column(s, 1))[2], Applied(r, Column(s, 2))[2], Applied(r, Column(s, 3))[2]>>,
          <<Applied(r, Column(s, 1))[3], Applied(r, Column(s, 2))[3], Applied(r, Column(s, 3))[3]>>>>
  BY RowsGiven DEF Composed
<1>4. ASSUME NEW q
      PROVE  /\ Applied(r, q)[1] = Dot(r[1], q)
             /\ Applied(r, q)[2] = Dot(r[2], q)
             /\ Applied(r, q)[3] = Dot(r[3], q)
  BY DEF Applied
<1>5. /\ Composed(r, s)[1] =
           <<Dot(r[1], Column(s, 1)), Dot(r[1], Column(s, 2)), Dot(r[1], Column(s, 3))>>
      /\ Composed(r, s)[2] =
           <<Dot(r[2], Column(s, 1)), Dot(r[2], Column(s, 2)), Dot(r[2], Column(s, 3))>>
      /\ Composed(r, s)[3] =
           <<Dot(r[3], Column(s, 1)), Dot(r[3], Column(s, 2)), Dot(r[3], Column(s, 3))>>
  BY <1>3, <1>4
<1>6. Dot(Composed(r, s)[1], p) = Dot(r[1], Applied(s, p))
  BY <1>1, <1>2, <1>5
<1>7. Dot(Composed(r, s)[2], p) = Dot(r[2], Applied(s, p))
  BY <1>1, <1>2, <1>5
<1>8. Dot(Composed(r, s)[3], p) = Dot(r[3], Applied(s, p))
  BY <1>1, <1>2, <1>5
<1> QED
  BY <1>6, <1>7, <1>8, Zenon DEF Applied

\* The columns of a product are those of its right factor, taken through the left one.
LEMMA ComposedColumns ==
  ASSUME NEW r \in Matrices, NEW s \in Matrices
  PROVE  /\ Column(Composed(r, s), 1) = Applied(r, Column(s, 1))
         /\ Column(Composed(r, s), 2) = Applied(r, Column(s, 2))
         /\ Column(Composed(r, s), 3) = Applied(r, Column(s, 3))
BY ColumnsGiven, AppliedType, TransposedType DEF Composed

\* Rotations in a row may be taken together in any grouping.
LEMMA ComposedAssociates ==
  ASSUME NEW r \in Matrices, NEW s \in Matrices, NEW t \in Matrices
  PROVE  Composed(Composed(r, s), t) = Composed(r, Composed(s, t))
<1>1. /\ Composed(r, s) \in Matrices
      /\ Column(t, 1) \in Places /\ Column(t, 2) \in Places /\ Column(t, 3) \in Places
  BY ComposedType, TransposedType
<1>2. /\ Applied(Composed(r, s), Column(t, 1)) = Applied(r, Column(Composed(s, t), 1))
      /\ Applied(Composed(r, s), Column(t, 2)) = Applied(r, Column(Composed(s, t), 2))
      /\ Applied(Composed(r, s), Column(t, 3)) = Applied(r, Column(Composed(s, t), 3))
  BY <1>1, ComposedApplied, ComposedColumns
<1> QED
  BY <1>2, Zenon DEF Composed

\* The identity changes nothing.
LEMMA IdentityNeutral ==
  /\ Identity \in Matrices
  /\ \A p \in Places : Applied(Identity, p) = p
  /\ \A r \in Matrices : Composed(r, Identity) = r /\ Composed(Identity, r) = r
<1>1. Identity = <<<<1, 0, 0>>, <<0, 1, 0>>, <<0, 0, 1>>>>
  BY DEF Identity
<1>2. Identity \in Matrices
  BY <1>1 DEF Matrices, Places
<1>3. ASSUME NEW p \in Places PROVE Applied(Identity, p) = p
  <2>1. p[1] \in Int /\ p[2] \in Int /\ p[3] \in Int /\ p = <<p[1], p[2], p[3]>>
    BY PlaceParts
  <2> QED
    BY <1>1, <2>1 DEF Applied, Dot
<1>4. ASSUME NEW r \in Matrices PROVE Composed(Identity, r) = r
  <2>1. /\ Column(r, 1) \in Places /\ Column(r, 2) \in Places /\ Column(r, 3) \in Places
    BY TransposedType
  <2>2. Composed(Identity, r) = Transposed(<<Column(r, 1), Column(r, 2), Column(r, 3)>>)
    BY <1>3, <2>1, Zenon DEF Composed
  <2> QED
    BY <2>2, ColumnsOfRows DEF Transposed
<1>5. ASSUME NEW r \in Matrices PROVE Composed(r, Identity) = r
  <2>1. /\ r[1] \in Places /\ r[2] \in Places /\ r[3] \in Places
        /\ r = <<r[1], r[2], r[3]>>
    BY MatrixParts
  <2>2. ASSUME NEW a \in Places
        PROVE  /\ a = <<a[1], a[2], a[3]>>
               /\ a[1] * 1 + a[2] * 0 + a[3] * 0 = a[1]
               /\ a[1] * 0 + a[2] * 1 + a[3] * 0 = a[2]
               /\ a[1] * 0 + a[2] * 0 + a[3] * 1 = a[3]
    BY PlaceParts
  <2>3. /\ Applied(r, Column(Identity, 1)) = Column(r, 1)
        /\ Applied(r, Column(Identity, 2)) = Column(r, 2)
        /\ Applied(r, Column(Identity, 3)) = Column(r, 3)
    BY <1>1, <2>1, <2>2 DEF Applied, Column, Dot
  <2> QED
    BY <2>3, ColumnsOfRows DEF Transposed, Composed
<1> QED
  BY <1>2, <1>3, <1>4, <1>5

\* The transpose of a rotation, which code takes for its inverse, undoes it.
LEMMA RotationUndone ==
  ASSUME NEW r \in Rotations, NEW p \in Places
  PROVE  Applied(r, Applied(Transposed(r), p)) = p
BY ComposedApplied, TransposedType, IdentityNeutral DEF Rotations

\* A level heading is a rotation, and so is its transpose.
LEMMA TurnUndone ==
  ASSUME NEW k \in Int
  PROVE  /\ Turn(k) \in Matrices
         /\ Composed(Turn(k), Transposed(Turn(k))) = Identity
         /\ Composed(Transposed(Turn(k)), Turn(k)) = Identity
<1>1. k % 4 \in 0..3
  OBVIOUS
<1>2. PICK c \in {-1, 0, 1}, s \in {-1, 0, 1} :
        /\ Turn(k) = <<<<c, -s, 0>>, <<s, c, 0>>, <<0, 0, 1>>>>
        /\ (c = 0 /\ s \in {-1, 1}) \/ (s = 0 /\ c \in {-1, 1})
  BY <1>1 DEF Turn
<1>3. Identity = <<<<1, 0, 0>>, <<0, 1, 0>>, <<0, 0, 1>>>>
  BY DEF Identity
<1>4. Turn(k) \in Matrices
  BY <1>2 DEF Matrices, Places
<1>5. Transposed(Turn(k)) = <<<<c, s, 0>>, <<-s, c, 0>>, <<0, 0, 1>>>>
  BY <1>2 DEF Transposed, Column
<1>6. /\ c * c + (-s) * (-s) = 1 /\ s * s + c * c = 1 /\ c * c + s * s = 1
      /\ (-s) * (-s) + c * c = 1
      /\ c * s + (-s) * c = 0 /\ s * c + c * (-s) = 0 /\ c * (-s) + s * c = 0
      /\ (-s) * c + c * s = 0
  BY <1>2
<1>7. Composed(Turn(k), Transposed(Turn(k))) = Identity
  <2>1. /\ Column(Transposed(Turn(k)), 1) = <<c, -s, 0>>
        /\ Column(Transposed(Turn(k)), 2) = <<s, c, 0>>
        /\ Column(Transposed(Turn(k)), 3) = <<0, 0, 1>>
    BY <1>5 DEF Column
  <2>2. /\ Applied(Turn(k), <<c, -s, 0>>) = <<1, 0, 0>>
        /\ Applied(Turn(k), <<s, c, 0>>) = <<0, 1, 0>>
        /\ Applied(Turn(k), <<0, 0, 1>>) = <<0, 0, 1>>
    BY <1>2, <1>6 DEF Applied, Dot
  <2>3. Composed(Turn(k), Transposed(Turn(k)))
          = Transposed(<<<<1, 0, 0>>, <<0, 1, 0>>, <<0, 0, 1>>>>)
    BY <2>1, <2>2, Zenon DEF Composed
  <2> QED
    BY <2>3, <1>3, RowsGiven
<1>8. Composed(Transposed(Turn(k)), Turn(k)) = Identity
  <2>1. /\ Column(Turn(k), 1) = <<c, s, 0>>
        /\ Column(Turn(k), 2) = <<-s, c, 0>>
        /\ Column(Turn(k), 3) = <<0, 0, 1>>
    BY <1>2 DEF Column
  <2>2. /\ Applied(Transposed(Turn(k)), <<c, s, 0>>) = <<1, 0, 0>>
        /\ Applied(Transposed(Turn(k)), <<-s, c, 0>>) = <<0, 1, 0>>
        /\ Applied(Transposed(Turn(k)), <<0, 0, 1>>) = <<0, 0, 1>>
    BY <1>2, <1>5, <1>6 DEF Applied, Dot
  <2>3. Composed(Transposed(Turn(k)), Turn(k))
          = Transposed(<<<<1, 0, 0>>, <<0, 1, 0>>, <<0, 0, 1>>>>)
    BY <2>1, <2>2, Zenon DEF Composed
  <2> QED
    BY <2>3, <1>3, RowsGiven
<1> QED
  BY <1>4, <1>7, <1>8

\* z up to z down and back.
LEMMA FlipUndone ==
  FlipZ \in Matrices /\ Composed(FlipZ, FlipZ) = Identity
<1>1. /\ Applied(FlipZ, Column(FlipZ, 1)) = <<1, 0, 0>>
      /\ Applied(FlipZ, Column(FlipZ, 2)) = <<0, 1, 0>>
      /\ Applied(FlipZ, Column(FlipZ, 3)) = <<0, 0, 1>>
  BY DEF FlipZ, Applied, Dot, Column
<1>2. Composed(FlipZ, FlipZ) = Transposed(<<<<1, 0, 0>>, <<0, 1, 0>>, <<0, 0, 1>>>>)
  BY <1>1, Zenon DEF Composed
<1>3. FlipZ \in Matrices
  BY DEF FlipZ, Matrices, Places
<1> QED
  BY <1>2, <1>3, RowsGiven DEF Identity

\* Sums and differences of places.
LEMMA PlaceSums ==
  ASSUME NEW p \in Places, NEW q \in Places
  PROVE  /\ Plus(p, q) \in Places /\ Minus(p, q) \in Places /\ Negated(p) \in Places
         /\ Plus(Minus(p, q), q) = p /\ Plus(Plus(p, Negated(q)), q) = p
BY PlaceParts DEF Plus, Minus, Negated, Places

\* A matrix distributes over sums.
LEMMA AppliedSum ==
  ASSUME NEW r \in Matrices, NEW p \in Places, NEW q \in Places
  PROVE  Applied(r, Plus(p, q)) = Plus(Applied(r, p), Applied(r, q))
<1>1. /\ r[1] \in Places /\ r[2] \in Places /\ r[3] \in Places
  BY MatrixParts
<1>2. ASSUME NEW a \in Places PROVE Dot(a, Plus(p, q)) = Dot(a, p) + Dot(a, q)
  BY PlaceParts DEF Dot, Plus
<1> QED
  BY <1>1, <1>2 DEF Applied, Plus

-----------------------------------------------------------------------------
(* Frames.                                                                 *)

\* A rigid transform undoes its inverse: what invert_transform and transform_points
\* resolve into odom lies, in the pool, where it was drawn.
LEMMA ResolvedBack ==
  ASSUME NEW r \in Rotations, NEW t \in Places, NEW p \in Places
  PROVE  LET w == Plus(Applied(Transposed(r), p), Applied(Transposed(r), Negated(t)))
         IN w \in Places /\ Plus(Applied(r, w), t) = p
<1>1. r \in Matrices /\ Transposed(r) \in Matrices /\ Negated(t) \in Places
  BY TransposedType, PlaceSums DEF Rotations
<1>2. /\ Applied(Transposed(r), p) \in Places
      /\ Applied(Transposed(r), Negated(t)) \in Places
  BY <1>1, AppliedType
<1> DEFINE w == Plus(Applied(Transposed(r), p), Applied(Transposed(r), Negated(t)))
<1>3. w \in Places
  BY <1>2, PlaceSums
<1>4. Applied(r, w) = Plus(p, Negated(t))
  BY <1>1, <1>2, AppliedSum, RotationUndone
<1> QED
  BY <1>3, <1>4, PlaceSums

\* The mission frame of a pose and back: z up to z down and the heading of PREPARE.
LEMMA MissionFrameBack ==
  ASSUME NEW w \in Places, NEW position \in Places, NEW yaw \in Int
  PROVE  LET mission == Applied(Turn(-yaw), Minus(Applied(FlipZ, w), position))
         IN Applied(FlipZ, Plus(Applied(Transposed(Turn(-yaw)), mission), position)) = w
<1>1. -yaw \in Int
  OBVIOUS
<1>2. /\ Turn(-yaw) \in Matrices /\ Transposed(Turn(-yaw)) \in Matrices
      /\ Composed(Transposed(Turn(-yaw)), Turn(-yaw)) = Identity
  BY <1>1, TurnUndone, TransposedType
<1>3. FlipZ \in Matrices /\ Applied(FlipZ, w) \in Places
  BY FlipUndone, AppliedType
<1> DEFINE seen == Minus(Applied(FlipZ, w), position)
<1>4. seen \in Places
  BY <1>3, PlaceSums
<1>5. Applied(Transposed(Turn(-yaw)), Applied(Turn(-yaw), seen)) = seen
  BY <1>2, <1>4, ComposedApplied, IdentityNeutral
<1>6. Plus(seen, position) = Applied(FlipZ, w)
  BY <1>3, PlaceSums
<1>7. Applied(FlipZ, Applied(FlipZ, w)) = w
  BY <1>3, FlipUndone, ComposedApplied, IdentityNeutral
<1> QED
  BY <1>5, <1>6, <1>7

\* An attitude of the pool, taken to the mission frame and out of it.
LEMMA AttitudeBack ==
  ASSUME NEW transform, transform.rotation \in Rotations,
         NEW pose, pose.yaw \in Int, NEW goal \in Matrices
  PROVE  PoolAttitude(PoolFluToMissionFrd(PoolToMission(transform, pose), goal), pose, transform)
           = goal
<1> DEFINE r == transform.rotation  back == Transposed(r)
           n == Turn(-pose.yaw)  nt == Transposed(n)
           x == Composed(Composed(FlipZ, back), goal)
<1>1. r \in Matrices /\ back \in Matrices /\ Composed(r, back) = Identity
  BY TransposedType DEF Rotations
<1>2. n \in Matrices /\ nt \in Matrices /\ Composed(nt, n) = Identity
  <2>1. -pose.yaw \in Int
    OBVIOUS
  <2> QED
    BY <2>1, TurnUndone, TransposedType
<1>3. FlipZ \in Matrices /\ Composed(FlipZ, FlipZ) = Identity
  BY FlipUndone
<1>4. /\ Composed(FlipZ, back) \in Matrices /\ x \in Matrices
      /\ Composed(x, FlipZ) \in Matrices
      /\ Composed(FlipZ, Composed(x, FlipZ)) \in Matrices
  BY <1>1, <1>3, ComposedType
<1> HIDE DEF r, back, n, nt
<1>5. Composed(Composed(Composed(Composed(n, FlipZ), back), goal), FlipZ)
        = Composed(n, Composed(x, FlipZ))
  <2>1. Composed(Composed(n, FlipZ), back) = Composed(n, Composed(FlipZ, back))
    BY <1>1, <1>2, <1>3, ComposedAssociates
  <2>2. Composed(Composed(n, Composed(FlipZ, back)), goal) = Composed(n, x)
    BY <1>2, <1>4, ComposedAssociates
  <2>3. Composed(Composed(n, x), FlipZ) = Composed(n, Composed(x, FlipZ))
    BY <1>2, <1>3, <1>4, ComposedAssociates
  <2> QED
    BY <2>1, <2>2, <2>3
<1>6. Composed(nt, Composed(n, Composed(x, FlipZ))) = Composed(x, FlipZ)
  BY <1>2, <1>4, ComposedAssociates, IdentityNeutral
<1>7. Composed(Composed(FlipZ, Composed(x, FlipZ)), FlipZ) = Composed(FlipZ, x)
  <2>1. Composed(Composed(FlipZ, Composed(x, FlipZ)), FlipZ)
          = Composed(FlipZ, Composed(Composed(x, FlipZ), FlipZ))
    BY <1>3, <1>4, ComposedAssociates
  <2>2. Composed(Composed(x, FlipZ), FlipZ) = x
    BY <1>3, <1>4, ComposedAssociates, IdentityNeutral
  <2> QED
    BY <2>1, <2>2
<1>8. Composed(FlipZ, x) = Composed(back, goal)
  <2>1. Composed(FlipZ, Composed(FlipZ, back)) = back
    BY <1>1, <1>3, ComposedAssociates, IdentityNeutral
  <2>2. Composed(FlipZ, x) = Composed(Composed(FlipZ, Composed(FlipZ, back)), goal)
    BY <1>3, <1>4, ComposedAssociates
  <2> QED
    BY <2>1, <2>2
<1>9. Composed(r, Composed(back, goal)) = goal
  BY <1>1, ComposedAssociates, IdentityNeutral
<1> QED
  BY <1>5, <1>6, <1>7, <1>8, <1>9
  DEF PoolAttitude, PoolFluToMissionFrd, PoolToMission, NedToMission, r, back, n, nt

\* Two changes of sign are none.
LEMMA FlippedDifference ==
  ASSUME NEW p \in Places, NEW q \in Places
  PROVE  Minus(p, Applied(FlipZ, Negated(q))) = Plus(p, Applied(FlipZ, q))
<1>1. Applied(FlipZ, q) = <<q[1], -q[2], -q[3]>>
  BY PlaceParts DEF Applied, Dot, FlipZ
<1>2. Negated(q) = <<-q[1], -q[2], -q[3]>>
  BY DEF Negated
<1>3. Applied(FlipZ, <<-q[1], -q[2], -q[3]>>) = <<-q[1], q[2], q[3]>>
  BY PlaceParts DEF Applied, Dot, FlipZ
<1>4. Minus(p, <<-q[1], q[2], q[3]>>) = Plus(p, <<q[1], -q[2], -q[3]>>)
  BY PlaceParts DEF Minus, Plus, Negated
<1> QED
  BY <1>1, <1>2, <1>3, <1>4

\* The frame that _pool_mission_frame works out by hand (guidance_node.py:310) is the
\* pool seen with z down: a position of the autopilot and the same position in the
\* pool agree, for every alignment.
THEOREM MissionFrameIsPool ==
  ASSUME NEW transform, transform.rotation \in Rotations, transform.translation \in Places,
         NEW ned \in Places
  PROVE  LET frame == PoolMissionFrame(transform)
             pool == TransformPoints(<<Applied(FlipZ, ned)>>, transform)[1]
         IN Applied(frame.ned_to_mission, Minus(ned, frame.origin)) = Applied(FlipZ, pool)
<1> DEFINE r == transform.rotation  t == transform.translation  back == Transposed(r)
           o == Applied(back, t)
<1>1. r \in Matrices /\ back \in Matrices /\ FlipZ \in Matrices /\ t \in Places
  BY TransposedType, FlipUndone DEF Rotations
<1>2. o \in Places /\ Negated(o) \in Places /\ Applied(FlipZ, ned) \in Places
  BY <1>1, AppliedType, PlaceSums
<1> HIDE DEF r, t, back, o
<1>3. Applied(FlipZ, Minus(ned, Applied(FlipZ, Negated(o)))) = Plus(Applied(FlipZ, ned), o)
  <2>1. Minus(ned, Applied(FlipZ, Negated(o))) = Plus(ned, Applied(FlipZ, o))
    BY <1>2, FlippedDifference
  <2>2. Applied(FlipZ, o) \in Places
    BY <1>1, <1>2, AppliedType
  <2>3. Applied(FlipZ, Plus(ned, Applied(FlipZ, o)))
          = Plus(Applied(FlipZ, ned), Applied(FlipZ, Applied(FlipZ, o)))
    BY <1>1, <2>2, AppliedSum
  <2>4. Applied(FlipZ, Applied(FlipZ, o)) = o
    BY <1>1, <1>2, FlipUndone, ComposedApplied, IdentityNeutral
  <2> QED
    BY <1>2, <2>1, <2>3, <2>4
<1>4. Applied(r, Plus(Applied(FlipZ, ned), o)) = Plus(Applied(r, Applied(FlipZ, ned)), t)
  BY <1>1, <1>2, AppliedSum, RotationUndone DEF r, back, o
<1>5. Applied(Composed(Composed(FlipZ, r), FlipZ), Minus(ned, Applied(FlipZ, Negated(o))))
        = Applied(FlipZ, Applied(r, Applied(FlipZ, Minus(ned, Applied(FlipZ, Negated(o))))))
  <2>1. Minus(ned, Applied(FlipZ, Negated(o))) \in Places
    BY <1>1, <1>2, AppliedType, PlaceSums
  <2> QED
    BY <1>1, <2>1, ComposedType, ComposedApplied, AppliedType
<1>6. TransformPoints(<<Applied(FlipZ, ned)>>, transform)[1]
        = Plus(Applied(r, Applied(FlipZ, ned)), t)
  BY DEF TransformPoints, r, t
<1>7. PoolMissionFrame(transform)
        = [ned_to_mission |-> Composed(Composed(FlipZ, r), FlipZ),
           origin |-> Applied(FlipZ, Negated(o))]
  BY DEF PoolMissionFrame, r, t, o, back
<1> QED
  BY <1>3, <1>4, <1>5, <1>6, <1>7

-----------------------------------------------------------------------------
(* The admitted route.                                                     *)

\* A transform in use is one the estimator gave.
ValueInv ==
  /\ draft \in Plans \cup {None}
  /\ \A c \in Copies : c.pool_to_odom.value \in Values

RouteMade(c) ==
  /\ c.plan \in Plans
  /\ \E position \in Positions :
       ValidateDraftGeometry(Content[c.plan], position, Settings.loop, Limits)
  /\ c.waypoints = TransformPoints(Content[c.plan].points,
                                   InvertTransform(Transform[c.binding.pool_to_odom.value]))

Missions == Live(active) \cup Live(resolved) \cup Live(obs_mission) \cup Live(prepared)

\* A mission, wherever it is, is a validated route resolved with its own alignment.
RouteInv == \A c \in Missions : RouteMade(c)

\* Only Align brings a transform into the system.
LEMMA ValueStep == ServiceInv /\ ValueInv /\ [Next]_vars => ValueInv'
<1> SUFFICES ASSUME ServiceInv, ValueInv, [Next]_vars PROVE ValueInv'
  OBVIOUS
<1>1. draft' \in Plans \cup {None}
  BY ObsCopies DEF ValueInv, Next, vars, mission_vars, Manager, ManagerReceives, OnDraft,
     OnValidate, ValidationLost, OnCommit, ManagerRestart, OnLocalizationStatus,
     OnAlignedOdometry, ObsNode, NavigationReset, PublishOdometry, ObsOnLocalizationStatus,
     ObsOnResolvedMission, Prepare, ClearPrepared, ObsRestart
<1>2. CASE Copies' \subseteq Copies
  BY <1>1, <1>2 DEF ValueInv
<1>3. ASSUME NEW v \in Values, Align(v), UNCHANGED <<mission_vars, obs_vars>>
      PROVE  ValueInv'
  <2>1. Copies' \subseteq Copies \cup {Current'}
    BY <1>3, AlignCopies
  <2>2. Current'.pool_to_odom.value = v
    BY <1>3 DEF Align, Current
  <2> QED
    BY <1>1, <2>1, <2>2 DEF ValueInv
<1> QED
  BY <1>2, <1>3, CopiesOnlyFromAlign DEF Alignable

\* _on_commit makes a mission of the draft it validates; every other step copies one or
\* drops it.
LEMMA RouteStep == ValueInv /\ RouteInv /\ [Next]_vars => RouteInv'
<1> SUFFICES ASSUME ValueInv, RouteInv, [Next]_vars PROVE RouteInv'
  OBVIOUS
<1>1. CASE Missions' \subseteq Missions
  BY <1>1 DEF RouteInv, RouteMade
<1>2. CASE UNCHANGED <<active, resolved, obs_mission, prepared>>
  BY <1>1, <1>2 DEF Missions
<1>3. CASE OnCommit /\ UNCHANGED obs_vars
  <2>1. draft \in Plans
    BY <1>3 DEF OnCommit, CandidateReady, ValueInv
  <2>2. /\ active'.plan = draft /\ active'.binding = localization
        /\ active'.waypoints = ResolvedWaypoints
        /\ resolved' = active' /\ UNCHANGED <<obs_mission, prepared>>
    BY <1>3 DEF OnCommit, obs_vars
  <2>3. \E position \in Positions :
          ValidateDraftGeometry(Content[draft], position, Settings.loop, Limits)
    BY <1>3 DEF OnCommit, CandidateReady
  <2>4. RouteMade(active')
    BY <2>1, <2>2, <2>3 DEF RouteMade, ResolvedWaypoints
  <2>5. Missions' \subseteq Missions \cup {active'}
    BY <2>2 DEF Missions, Live
  <2> QED
    BY <2>4, <2>5 DEF RouteInv, RouteMade
<1>4. CASE Manager /\ UNCHANGED obs_vars
  <2>1. ASSUME NEW p \in Plans, OnDraft(p) PROVE RouteInv'
    BY <1>2, <1>4, <2>1 DEF OnDraft, obs_vars
  <2>2. CASE OnValidate \/ ValidationLost
    BY <1>2, <1>4, <2>2 DEF OnValidate, ValidationLost, obs_vars
  <2>3. CASE ManagerRestart
    BY <1>1, <1>4, <2>3 DEF ManagerRestart, obs_vars, Missions, Live
  <2> QED
    BY <1>3, <1>4, <2>1, <2>2, <2>3 DEF Manager
<1>5. CASE ManagerReceives /\ UNCHANGED obs_vars
  BY <1>2, <1>5 DEF ManagerReceives, OnLocalizationStatus, OnAlignedOdometry, obs_vars
<1>6. CASE ObsNode
  <2>1. CASE NavigationReset \/ PublishOdometry \/ ObsOnLocalizationStatus
    BY <1>2, <2>1 DEF NavigationReset, PublishOdometry, ObsOnLocalizationStatus, mission_vars
  <2>2. CASE ObsOnResolvedMission
    BY <1>1, <2>2 DEF ObsOnResolvedMission, mission_vars, Missions, Live
  <2>3. CASE Prepare
    BY <1>1, <2>3 DEF Prepare, mission_vars, Missions, Live
  <2>4. CASE ClearPrepared \/ ObsRestart
    BY <1>1, <2>4 DEF ClearPrepared, ObsRestart, mission_vars, Missions, Live
  <2> QED
    BY <1>6, <2>1, <2>2, <2>3, <2>4 DEF ObsNode
<1>7. CASE UNCHANGED <<mission_vars, obs_vars>>
  BY <1>2, <1>7 DEF mission_vars, obs_vars
<1> QED
  BY <1>4, <1>5, <1>6, <1>7 DEF Next, vars

\* Both hold of every reachable state.
LEMMA RouteInvariant == Spec => [](ValueInv /\ RouteInv)
<1>1. Init => ValueInv /\ RouteInv
  BY DEF Init, ServiceInit, MissionInit, ValueInv, RouteInv, Missions, Copies, Live
<1>2. IInv /\ ValueInv /\ RouteInv /\ [Next]_vars => (ValueInv /\ RouteInv)'
  BY ValueStep, RouteStep DEF IInv
<1> QED
  BY <1>1, <1>2, Inductive, PTL DEF Spec

\* A route that was made is, back in the pool, the route that was drawn.
LEMMA RouteBack ==
  ASSUME NEW c, RouteMade(c), c.binding.pool_to_odom.value \in Values,
         NEW pose \in Poses, NEW i \in 1 .. Len(Content[c.plan].points)
  PROVE  PoolPoint(OdomWaypointsToMission(c.waypoints, pose)[i], pose,
                   Transform[c.binding.pool_to_odom.value])
           = Content[c.plan].points[i]
<1> DEFINE points == Content[c.plan].points
           transform == Transform[c.binding.pool_to_odom.value]
           r == transform.rotation  t == transform.translation
           w == Plus(Applied(Transposed(r), points[i]), Applied(Transposed(r), Negated(t)))
<1>1. points \in Seq(Places) /\ r \in Rotations /\ t \in Places
  BY FramesAssumption DEF RouteMade
<1>2. points[i] \in Places /\ i \in DOMAIN points
  BY <1>1
<1>3. pose.position \in Places /\ pose.yaw \in Int
  BY FramesAssumption
<1>4. c.waypoints[i] = w /\ i \in DOMAIN c.waypoints
  BY <1>2 DEF RouteMade, TransformPoints, InvertTransform
<1>5. w \in Places /\ Plus(Applied(r, w), t) = points[i]
  BY <1>1, <1>2, ResolvedBack
<1> HIDE DEF w, r, t, points, transform
<1>6. OdomWaypointsToMission(c.waypoints, pose)[i]
        = Applied(Turn(-pose.yaw), Minus(Applied(FlipZ, w), pose.position))
  BY <1>4 DEF OdomWaypointsToMission, NedToMission
<1>7. Applied(FlipZ, Plus(Applied(Transposed(Turn(-pose.yaw)),
                                  OdomWaypointsToMission(c.waypoints, pose)[i]),
                          pose.position)) = w
  BY <1>3, <1>5, <1>6, MissionFrameBack
<1> QED
  BY <1>5, <1>7 DEF PoolPoint, NedToMission, r, t, points, transform

\* What ARM and START admit is the route the operator validated, seen through the
\* alignment now in force and from the pose of any PREPARE: each leg in the box and as
\* long as allowed, and each attitude as it was drawn.
THEOREM AdmittedRouteIsTheValidatedOne == Spec => []AdmittedRouteIsApproved
<1>1. ASSUME IInv, ValueInv, RouteInv, Admitted PROVE AdmittedRouteIsApproved
  <2> DEFINE points == Content[prepared.plan].points
             n == Len(points)
             transform == Transform[obs_status.pool_to_odom.value]
  <2>1. prepared # None /\ obs_status # None /\ SameIdentity(obs_status, prepared.binding)
    BY <1>1 DEF Admitted, PreparedGate
  <2>2. prepared.binding \in Copies /\ obs_status \in Copies /\ prepared \in Missions
    BY <2>1 DEF Copies, Live, Missions
  <2>3. obs_status = prepared.binding
    BY <1>1, <2>1, <2>2 DEF IInv, IdentityNamesAlignment, SameIdentity
  <2>4. RouteMade(prepared) /\ prepared.binding.pool_to_odom.value \in Values
    BY <1>1, <2>2 DEF RouteInv, ValueInv
  <2>5. points \in Seq(Places) /\ n \in Nat /\ DOMAIN points = 1 .. n
    BY <2>4, FramesAssumption DEF RouteMade
  <2>6. PICK position \in Positions :
          ValidateDraftGeometry(Content[prepared.plan], position, Settings.loop, Limits)
    BY <2>4 DEF RouteMade
  <2>7. \A i \in 1 .. n : InSafeBox(points[i], Limits)
    BY <2>5, <2>6 DEF ValidateDraftGeometry
  <2>8. ASSUME NEW i \in 1 .. n, NEW j \in 1 .. n,
               j = i + 1 \/ (Settings.loop /\ i = n /\ j = 1)
        PROVE  LengthAllowed(<<points[i], points[j]>>, Limits)
    <3>1. <<points[i], points[j]>> \in Segments(points, Settings.loop)
      <4>1. CASE j = i + 1
        BY <2>5, <4>1 DEF Segments
      <4>2. CASE Settings.loop /\ i = n /\ j = 1
        BY <4>2 DEF Segments
      <4> QED
        BY <2>8, <4>1, <4>2
    <3> QED
      BY <2>6, <3>1 DEF ValidateDraftGeometry
  <2>9. ASSUME NEW pose \in Poses, NEW i \in 1 .. n
        PROVE  PoolPoint(OdomWaypointsToMission(prepared.waypoints, pose)[i], pose, transform)
                 = points[i]
    BY <2>3, <2>4, RouteBack
  <2>10. ASSUME NEW pose \in Poses, NEW goal \in Goals
         PROVE  PoolAttitude(PoolFluToMissionFrd(PoolToMission(transform, pose), goal), pose,
                             transform) = goal
    BY <2>3, <2>4, AttitudeBack, FramesAssumption
  <2> HIDE DEF n, transform
  <2> QED
    BY <2>7, <2>8, <2>9, <2>10 DEF AdmittedRouteIsApproved, n, transform
<1>2. IInv /\ ValueInv /\ RouteInv => AdmittedRouteIsApproved
  BY <1>1 DEF AdmittedRouteIsApproved
<1> QED
  BY <1>2, Inductive, RouteInvariant, PTL
=============================================================================
