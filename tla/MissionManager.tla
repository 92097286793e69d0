--------------------------- MODULE MissionManager ---------------------------
(***************************************************************************)
(* brov_mission/mission_manager_node.py: draft, validate, commit.  A route *)
(* drawn in the pool is validated on the operator's request, and on a      *)
(* second request resolved into the odometry frame and published, once per *)
(* process.  One executor thread runs every callback.                      *)
(*                                                                         *)
(* A plan names the content of a draft: waypoints and their orientations.  *)
(* Settings and limits are fixed for the process.  Message ages are data:  *)
(* a validation whose other conditions hold may still fail.                *)
(***************************************************************************)
EXTENDS FiniteSets, PoolMessages, MissionCore

CONSTANTS
  Plans,                    \* drafts that differ in content
  Content,                  \* of a plan: its points and orientations
  Transform,                \* of a value of the estimator: the rigid transform
  Positions,                \* where in the pool the vehicle may be
  Settings,                 \* _mission_settings, with the contract version
  Limits,                   \* _validation_settings, _mission_setting_limits
  MaxDrafts, MaxCommits     \* bounds: drafts of a process, missions in all

ASSUME ManagerAssumption ==
  /\ None \notin Plans
  /\ MaxDrafts \in Nat /\ MaxCommits \in Nat

VARIABLES
  draft, draft_revision,
  localization, aligned_odometry,   \* latest messages received
  validated, active,                \* candidate, mission, or None
  resolved,                         \* the message on /brov/mission/resolved
  commits,                          \* uuid4: ids handed out so far
  approvals                         \* history, not in the code: what the
                                    \* operator had validated

mission_vars == <<draft, draft_revision, localization, aligned_odometry,
                  validated, active, resolved, commits, approvals>>

-----------------------------------------------------------------------------
MissionInit ==
  /\ draft = None /\ draft_revision = 0
  /\ localization = None /\ aligned_odometry = None
  /\ validated = None /\ active = None /\ resolved = None
  /\ commits = 0 /\ approvals = {}

\* _on_draft: a heartbeat with the content of the current draft changes nothing.
OnDraft(p) ==
  /\ p # draft /\ draft_revision < MaxDrafts
  /\ draft' = p /\ draft_revision' = draft_revision + 1
  /\ validated' = None
  /\ UNCHANGED <<localization, aligned_odometry, active, resolved, commits,
                 approvals>>

OnLocalizationStatus(l) ==
  /\ localization' = l
  /\ UNCHANGED <<draft, draft_revision, aligned_odometry, validated, active,
                 resolved, commits, approvals>>

OnAlignedOdometry(e) ==
  /\ aligned_odometry' = e
  /\ UNCHANGED <<draft, draft_revision, localization, validated, active,
                 resolved, commits, approvals>>

-----------------------------------------------------------------------------
\* _localization_snapshot: a status was received, says INITIALIZED and valid,
LocalizationUsable ==
  /\ localization # None
  /\ localization.epoch > 0
  /\ localization.session_id # NoSession /\ localization.alignment_id # None

\* _current_pool_position
PositionUsable ==
  aligned_odometry # None /\ SameIdentity(aligned_odometry, localization)

\* _validated_snapshot: refusals.  The position is that of the moment.
CandidateReady ==
  /\ draft # None /\ LocalizationUsable /\ PositionUsable
  /\ \E position \in Positions :
       ValidateDraftGeometry(Content[draft], position, Settings.loop, Limits)
  /\ ValidateMissionSettings(Settings, Len(Content[draft].points), Limits)

\* _validated_snapshot
Candidate == [revision |-> draft_revision, plan |-> draft,
              binding |-> localization]

\* The route in odom, by the inverse of ^pool T_odom.
ResolvedWaypoints ==
  TransformPoints(Content[draft].points, InvertTransform(Transform[localization.pool_to_odom.value]))

Approve(c) == approvals' = approvals \cup {[plan |-> c.plan, binding |-> c.binding]}

OnValidate ==
  /\ CandidateReady
  /\ validated' = Candidate /\ Approve(Candidate)
  /\ UNCHANGED <<draft, draft_revision, localization, aligned_odometry, active,
                 resolved, commits>>

\* A failed validation, or a commit whose revalidation fails or differs from
\* what was validated, forgets the candidate.
ValidationLost ==
  /\ validated' = None
  /\ UNCHANGED <<draft, draft_revision, localization, aligned_odometry, active,
                 resolved, commits, approvals>>

\* Mutant: a second mission replaces the first.
CommitAgain ==
  /\ validated # None /\ CandidateReady /\ Candidate = validated
  /\ commits < MaxCommits /\ commits' = commits + 1
  /\ active' = [mission_id |-> commits', plan |-> draft,
                binding |-> localization,
                waypoints |-> ResolvedWaypoints]
  /\ resolved' = active'
  /\ UNCHANGED <<draft, draft_revision, localization, aligned_odometry,
                 validated, approvals>>

\* _on_commit, to its end.  With an active mission it only answers.
OnCommit ==
  /\ validated # None /\ CandidateReady /\ Candidate = validated
  /\ active = None
  /\ commits < MaxCommits /\ commits' = commits + 1
  /\ active' = [mission_id |-> commits', plan |-> draft,
                binding |-> localization,
                waypoints |-> ResolvedWaypoints]
  /\ resolved' = active'
  /\ UNCHANGED <<draft, draft_revision, localization, aligned_odometry,
                 validated, approvals>>

\* A new process.  The old publisher's latched message goes with it.
ManagerRestart ==
  /\ draft' = None /\ draft_revision' = 0
  /\ localization' = None /\ aligned_odometry' = None
  /\ validated' = None /\ active' = None /\ resolved' = None
  /\ UNCHANGED <<commits, approvals>>

Manager ==
  \/ \E p \in Plans : OnDraft(p)
  \/ OnValidate
  \/ ValidationLost
  \/ OnCommit
  \/ ManagerRestart
=============================================================================
