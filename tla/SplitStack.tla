----------------------------- MODULE SplitStack -----------------------------
(***************************************************************************)
(* The control loop of the split stack: base_node publishes state and      *)
(* /brov/control_active, guidance_node.py turns state into a target,       *)
(* observation_node.py turns both into an observation and integrates,      *)
(* policy_wrench_node.py answers with a wrench, base_node drives on it.    *)
(* base_node's own gates and watchdog are module BaseNode.                 *)
(*                                                                         *)
(* Each subscription is an inbox of depth one.  Messages arrive at once    *)
(* and a newer one replaces the older; the executor of a node takes what   *)
(* is in its inboxes in any order, within Lag ticks of base_node.          *)
(***************************************************************************)
EXTENDS LOSGuidance

CONSTANTS
  Configs,        \* launch: [frame, heading, loop]
  None,
  Lag,            \* assumed: ticks from arrival to callback at most
  MinGap,         \* assumed: ticks from the end of control to the next START
  DesiredMaxAge,  \* desired_max_age_s, in ticks
  Settle,         \* ticks after which nothing past reaches the thrusters
  MaxEpochs       \* bound: pool alignments

ASSUME SplitStackAssumption ==
  /\ Configs \subseteq [frame : {"start_heading", "ned", "pool"}, heading : Headings,
                        loop : BOOLEAN]
  /\ \A config \in Configs :
       /\ Takeoff(config) => NumWp = 3
       /\ config.frame = "pool" => ~IsRandom(config)
  /\ {Lag, MinGap} \subseteq Nat /\ {DesiredMaxAge, Settle, MaxEpochs} \subseteq Nat \ {0}

\* None is no count and no message in an inbox.
ASSUME NoneAssumption ==
  None \notin Nat \cup [message : BOOLEAN \cup Nat \cup {None}
                                   \cup [active : BOOLEAN, own : BOOLEAN],
                       age : Nat]

VARIABLES
  config,
  base,         \* base_node: in control, and where it is in its tick
  localization, \* the pool alignment
  guidance, observation,   \* fields of the nodes
  inbox,        \* what the nodes have not taken yet
  alive,        \* guidance_node runs
  since         \* history: ticks since the latest START, alignment or death of guidance

vars == <<config, base, localization, guidance, observation, inbox, alive, since>>

Inboxes == {"state_guidance", "active_guidance", "status_guidance",
            "state_observation", "active_observation", "desired_observation",
            "observation_policy", "wrench_base"}

Computed == {"desired_observation", "observation_policy", "wrench_base"}
GuidanceInboxes == {"state_guidance", "active_guidance", "status_guidance"}

Control == base.active /\ ~base.publishing

-----------------------------------------------------------------------------
(* Inboxes.                                                                *)

Put(box, i, message) ==
  IF i \in GuidanceInboxes /\ ~alive THEN box
  ELSE [box EXCEPT ![i] = [message |-> message, age |-> IF @ = None THEN 0 ELSE @.age]]

Taken(i) == [inbox EXCEPT ![i] = None]

Older(box) == [i \in Inboxes |-> IF box[i] = None THEN None ELSE [box[i] EXCEPT !.age = @ + 1]]

InTime == \A i \in Inboxes : inbox[i] # None => inbox[i].age < Lag

\* History.  What goes back to the mission frame of the latest START and alignment,
\* from a guidance_node that runs, with an integral that began since, is own.  Here
\* it ceases to be.
PastDesired == IF observation.desired = None THEN None ELSE [own |-> FALSE]

Past(box, inboxes) ==
  [i \in Inboxes |-> IF box[i] = None \/ i \notin inboxes THEN box[i]
                     ELSE [box[i] EXCEPT !.message.own = FALSE]]

-----------------------------------------------------------------------------
NewGuidance ==
  [active |-> FALSE,        \* _control_active
   initialized |-> FALSE, locked |-> None,   \* the mission frame, _locked_alignment
   status |-> None,         \* epoch of a _pool_status that is good and fresh
   progress |-> NewProgress,
   last |-> None,           \* ticks since _last_state_wall
   edge |-> FALSE,          \* history: it has taken the edge of the latest START
   own |-> FALSE]           \* history: the frame is of the latest START and alignment

NewObservation ==
  [active |-> FALSE, desired |-> None, desired_age |-> 0,
   integral |-> "zero"]     \* z_v, z_q: "zero", "own" session's, or "carried" over

Init ==
  /\ config \in Configs
  /\ base = [active |-> FALSE, idle |-> MinGap, publishing |-> FALSE]
  /\ localization = 1
  /\ guidance = NewGuidance /\ observation = NewObservation
  /\ inbox = [i \in Inboxes |-> None]
  /\ alive = TRUE
  /\ since = Settle

-----------------------------------------------------------------------------
(* base_node.  A tick publishes the state, then /brov/control_active.      *)

Tally(limit, n) == IF n = None \/ n >= limit THEN n ELSE n + 1

PublishState ==
  /\ ~base.publishing /\ InTime
  /\ \E reading \in {"good", "aged", "invalid"} :
       inbox' = Put(Put(Older(inbox), "state_guidance", reading), "state_observation", reading)
  /\ base' = [base EXCEPT !.publishing = TRUE,
                          !.idle = IF base.active THEN @ ELSE Tally(MinGap, @)]
  /\ guidance' = [guidance EXCEPT !.last = Tally(MaxDuration, @)]
  /\ observation' = [observation EXCEPT !.desired_age = Tally(DesiredMaxAge + 1, @)]
  /\ since' = Tally(Settle, since)
  /\ UNCHANGED <<config, localization, alive>>

PublishActive ==
  /\ base.publishing
  /\ LET message == [active |-> base.active, own |-> TRUE]
     IN inbox' = Put(Put(inbox, "active_guidance", message), "active_observation", base.active)
  /\ base' = [base EXCEPT !.publishing = FALSE]
  /\ UNCHANGED <<config, localization, guidance, observation, alive, since>>

\* _srv_start
Start ==
  /\ ~base.publishing /\ ~base.active /\ base.idle = MinGap
  /\ base' = [base EXCEPT !.active = TRUE]
  /\ since' = 0
  /\ guidance' = [guidance EXCEPT !.edge = FALSE, !.own = FALSE]
  /\ observation' = [observation EXCEPT !.desired = PastDesired,
                                        !.integral = IF @ = "zero" THEN "zero" ELSE "carried"]
  /\ inbox' = Past(inbox, Computed \cup {"active_guidance"})
  /\ UNCHANGED <<config, localization, alive>>

Stopped == [base EXCEPT !.active = FALSE, !.idle = 0]

\* _srv_stop, _srv_disarm, _on_estop
Stop ==
  /\ Control
  /\ base' = Stopped
  /\ UNCHANGED <<config, localization, guidance, observation, inbox, alive, since>>

\* _on_wrench: ignored out of control; in it, driven on, or a fault.
OnWrench ==
  /\ ~base.publishing /\ inbox["wrench_base"] # None
  /\ inbox' = Taken("wrench_base")
  /\ base' \in IF base.active THEN {base, Stopped} ELSE {base}
  /\ UNCHANGED <<config, localization, guidance, observation, alive, since>>

-----------------------------------------------------------------------------
(* The pool alignment: a new one is published at once.                     *)

PublishStatus ==
  /\ config.frame = "pool"
  /\ \E epoch \in {localization, None} : inbox' = Put(inbox, "status_guidance", epoch)
  /\ UNCHANGED <<config, base, localization, guidance, observation, alive, since>>

Realign ==
  /\ config.frame = "pool" /\ localization < MaxEpochs
  /\ localization' = localization + 1
  /\ since' = 0
  /\ guidance' = [guidance EXCEPT !.own = FALSE]
  /\ observation' = [observation EXCEPT !.desired = PastDesired]
  /\ inbox' = Put(Past(inbox, Computed), "status_guidance", localization')
  /\ UNCHANGED <<config, base, alive>>

-----------------------------------------------------------------------------
(* guidance_node.                                                          *)

\* _on_active: a rising edge asks for a new frame and releases the alignment.
Edge(g, message) ==
  IF message.active /\ ~g.active
  THEN [g EXCEPT !.active = TRUE, !.initialized = FALSE, !.locked = None,
                 !.edge = message.own, !.own = FALSE]
  ELSE [g EXCEPT !.active = message.active]

GuidanceOnActive ==
  /\ inbox["active_guidance"] # None
  /\ inbox' = Taken("active_guidance")
  /\ guidance' = Edge(guidance, inbox["active_guidance"].message)
  /\ UNCHANGED <<config, base, localization, observation, alive, since>>

OnPoolStatus ==
  /\ inbox["status_guidance"] # None
  /\ inbox' = Taken("status_guidance")
  /\ guidance' = [guidance EXCEPT !.status = inbox["status_guidance"].message]
  /\ UNCHANGED <<config, base, localization, observation, alive, since>>

\* pool_status_max_age_s passes without a status.
StatusAges ==
  /\ guidance.status # None
  /\ guidance' = [guidance EXCEPT !.status = None]
  /\ UNCHANGED <<config, base, localization, observation, inbox, alive, since>>

\* _usable_pool_status
UsablePoolStatus(g) ==
  g.status # None /\ g.locked \in {None, g.status}

\* The first usable state after the edge fixes the mission frame and resets progress.
Framed(g) ==
  IF g.initialized THEN g
  ELSE [g EXCEPT !.initialized = TRUE, !.progress = NewProgress,
                 !.locked = g.status,
                 !.own = g.edge /\ (config.frame = "pool" => g.status = localization)]

GuidanceSilent(state) ==
  \/ state # "good"
  \/ config.frame = "pool" /\ ~UsablePoolStatus(guidance)

\* _on_state; the time since the last target is only kept for random attitudes.
GuidanceOnState ==
  /\ inbox["state_guidance"] # None
  /\ LET state == inbox["state_guidance"].message
         framed == Framed(guidance)
         dt == IF framed.last = None THEN 0 ELSE framed.last
     IN \/ /\ GuidanceSilent(state)
           /\ inbox' = Taken("state_guidance")
           /\ UNCHANGED guidance
        \/ /\ ~GuidanceSilent(state)
           /\ \E place \in Places, settled \in BOOLEAN :
                guidance' = [framed EXCEPT
                  !.progress = Compute(config, @, place, settled, dt),
                  !.last = IF IsRandom(config) THEN 0 ELSE @]
           /\ inbox' = Put(Taken("state_guidance"), "desired_observation",
                           [own |-> framed.own])
  /\ UNCHANGED <<config, base, localization, observation, alive, since>>

GuidanceDies ==
  /\ alive /\ alive' = FALSE
  /\ since' = 0
  /\ guidance' = NewGuidance
  /\ observation' = [observation EXCEPT !.desired = PastDesired]
  /\ LET past == Past(inbox, Computed)
     IN inbox' = [i \in Inboxes |-> IF i \in GuidanceInboxes THEN None ELSE past[i]]
  /\ UNCHANGED <<config, base, localization>>

-----------------------------------------------------------------------------
(* observation_node and policy_wrench_node.                                *)

\* _on_active: control begins with integrals of zero.
ObservationEdge(o, active) ==
  [o EXCEPT !.active = active, !.integral = IF active /\ ~o.active THEN "zero" ELSE @]

ObservationOnActive ==
  /\ inbox["active_observation"] # None
  /\ inbox' = Taken("active_observation")
  /\ observation' = ObservationEdge(observation, inbox["active_observation"].message)
  /\ UNCHANGED <<config, base, localization, guidance, alive, since>>

OnDesired ==
  /\ inbox["desired_observation"] # None
  /\ inbox' = Taken("desired_observation")
  /\ observation' = [observation EXCEPT !.desired = inbox["desired_observation"].message,
                                        !.desired_age = 0]
  /\ UNCHANGED <<config, base, localization, guidance, alive, since>>

ResetIntegrator ==
  /\ observation.integral # "zero"
  /\ observation' = [observation EXCEPT !.integral = "zero"]
  /\ UNCHANGED <<config, base, localization, guidance, inbox, alive, since>>

\* Mutant: a target is good for ever.
ObservesAnyDesired(state) == state # "invalid" /\ observation.desired # None

Observes(state) ==
  /\ state # "invalid"
  /\ observation.desired # None /\ observation.desired_age <= DesiredMaxAge

\* _on_state; a gap in the states is not integrated.
ObservationOnState ==
  /\ inbox["state_observation"] # None
  /\ LET state == inbox["state_observation"].message
         published(message) == inbox' = Put(Taken("state_observation"), "observation_policy",
                                            message)
     IN \/ /\ ~Observes(state)
           /\ published([valid |-> FALSE, own |-> FALSE])
           /\ UNCHANGED observation
        \/ /\ Observes(state)
           /\ \E gap \in BOOLEAN :
                observation' = [observation EXCEPT !.integral =
                  IF @ = "zero" /\ observation.active /\ ~gap THEN "own" ELSE @]
           /\ published([valid |-> TRUE,
                         own |-> observation.desired.own /\ observation'.integral # "carried"])
  /\ UNCHANGED <<config, base, localization, guidance, alive, since>>

\* _on_obs of policy_wrench_node: in control or not.  Contract, dimension and
\* finiteness are data.
OnObservation ==
  /\ inbox["observation_policy"] # None
  /\ LET message == inbox["observation_policy"].message
         answer == Put(Taken("observation_policy"), "wrench_base", [own |-> message.own])
     IN inbox' \in IF message.valid THEN {answer, Taken("observation_policy")}
                   ELSE {Taken("observation_policy")}
  /\ UNCHANGED <<config, base, localization, guidance, observation, alive, since>>

-----------------------------------------------------------------------------
Handlers ==
  \/ GuidanceOnActive \/ OnPoolStatus \/ GuidanceOnState
  \/ ObservationOnActive \/ OnDesired \/ ObservationOnState
  \/ OnObservation \/ OnWrench

Next ==
  \/ PublishState \/ PublishActive \/ Start \/ Stop
  \/ PublishStatus \/ Realign \/ StatusAges
  \/ Handlers \/ ResetIntegrator \/ GuidanceDies

Spec == Init /\ [][Next]_vars

-----------------------------------------------------------------------------
(* Properties.                                                             *)

\* A wrench that base_node is about to drive the thrusters with.
Driving == Control /\ inbox["wrench_base"] # None

\* Once Settle ticks have passed since a START, a new pool alignment or the death of
\* guidance_node, nothing that drives the thrusters goes back to before: neither the
\* mission frame of an earlier session or alignment, nor an integral carried over,
\* nor a target of a node that is gone.
PastEnds == Driving /\ since = Settle => inbox["wrench_base"].message.own

\* Every waypoint that was reached, but the last, brought one random attitude.
AttitudePerArrival ==
  LET p == guidance.progress
  IN IsRandom(config) => p.event + (IF p.laps = MaxLaps THEN 1 ELSE 0) = p.laps * NumWp + p.wp_idx

\* A mission that is complete stays where it is until the frame is fixed anew.
CompleteIsFinal ==
  [][guidance.progress.complete /\ guidance.initialized /\ guidance'.initialized
       => [guidance'.progress EXCEPT !.elapsed = 0, !.dwell = 0]
            = [guidance.progress EXCEPT !.elapsed = 0, !.dwell = 0]]_vars
=============================================================================
