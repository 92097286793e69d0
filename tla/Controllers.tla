---------------------------- MODULE Controllers ----------------------------
(***************************************************************************)
(* The controllers that turn observations into PWM: policy_node.py (and    *)
(* its MK2 variant), model_based_controller_node.py and cmg_policy_node.py,*)
(* one at a time, in front of obs_node.                                    *)
(*                                                                         *)
(* /brov/control_active and the controller's input are different topics,   *)
(* each in order, with queues of depth one: taking a message takes the     *)
(* newest that has arrived and drops the older ones.  Nothing orders one   *)
(* topic with the other; Lag bounds the time from publication to callback. *)
(* Time advances by ticks of obs_node.                                     *)
(***************************************************************************)
EXTENDS Integers, Sequences

CONSTANTS
  Kinds,        \* controllers the launch files choose from
  None,
  Lag,          \* assumed: ticks from publication to callback at most
  MinGap,       \* assumed: ticks from the end of control to the next START
  ObsTimeout,   \* observation_timeout_s, in ticks of the controller's timer
  MaxOrigins    \* bound: odometry sessions

ASSUME ControllersAssumption ==
  /\ Kinds \subseteq {"policy", "model", "cmg"}
  /\ None \notin Int
  /\ {Lag, MinGap, MaxOrigins} \subseteq Nat
  /\ ObsTimeout \in Nat \ {0}

VARIABLES
  kind,        \* which controller this is
  base,        \* obs_node
  controller,  \* the controller's fields
  control_topic, input_topic, pwm_topic,  \* published and not yet handled
  accepted     \* history: the latest command obs_node passed on, if not neutral

topics == <<control_topic, input_topic, pwm_topic>>
controllersvars == <<kind, base, controller, topics, accepted>>

Origins == 1 .. MaxOrigins
\* History of a command: its sample, and the START that enabled it, are of the
\* present session of obs_node, and its target is of the sample's frame.  Neutral
\* commands are left out.
Command == [present : BOOLEAN, start : BOOLEAN, one_frame : BOOLEAN]

-----------------------------------------------------------------------------
(* Topics.                                                                 *)

Publish(topic, message) == Append(topic, [message |-> message, age |-> 0])

Older(topic) == [i \in DOMAIN topic |-> [topic[i] EXCEPT !.age = @ + 1]]

InTime(topic) == \A i \in DOMAIN topic : topic[i].age < Lag

\* What is left once the i-th message has been taken.
Rest(topic, i) == SubSeq(topic, i + 1, Len(topic))

-----------------------------------------------------------------------------
\* __init__ of the nodes: closed until the topic says otherwise.
NewController ==
  [active |-> FALSE, discard |-> FALSE,                    \* _control_active, _discard_next...
   enabled |-> FALSE, obs_age |-> None, started |-> FALSE, \* model: _enabled, since
                          \* _last_obs_time; history: enabled in this session
   session_id |-> None, target |-> None]                   \* cmg: last id, latched target

ControllersInit ==
  /\ kind \in Kinds
  /\ base = [alive |-> TRUE, active |-> FALSE, published |-> FALSE, idle |-> MinGap,
             odometry |-> 1]
  /\ controller = NewController
  /\ control_topic = <<>> /\ input_topic = <<>> /\ pwm_topic = <<>>
  /\ accepted = None

-----------------------------------------------------------------------------
(* obs_node.                                                               *)

\* The enable edge waits for the first observation of the session.
OutputEnabled == base.active /\ base.published

\* _tick: /brov/control_active first, then the observation, or none when the
\* sample is an old one.  The CMG node takes odometry samples instead.
Tick ==
  /\ base.alive
  /\ InTime(control_topic) /\ InTime(input_topic) /\ InTime(pwm_topic)
  /\ control_topic' = Publish(Older(control_topic), OutputEnabled)
  /\ pwm_topic' = Older(pwm_topic)
  /\ \E new \in BOOLEAN :
       /\ input_topic' =
            IF new THEN Publish(Older(input_topic), [present |-> base.active,
                                                     odometry |-> base.odometry])
            ELSE Older(input_topic)
       /\ base' = [base EXCEPT !.published = base.active /\ (@ \/ new),
                               !.idle = IF base.active \/ @ = MinGap THEN @ ELSE @ + 1]
  /\ UNCHANGED <<kind, controller, accepted>>

\* _on_start_control
Start ==
  /\ base.alive /\ ~base.active /\ base.idle = MinGap
  /\ base' = [base EXCEPT !.active = TRUE, !.published = FALSE]
  /\ UNCHANGED <<kind, controller, topics, accepted>>

\* The end of a session makes past what is on its way.
EndSession(next) ==
  /\ base' = [next EXCEPT !.active = FALSE, !.published = FALSE, !.idle = 0]
  /\ controller' = [controller EXCEPT !.started = FALSE]
  /\ input_topic' = [i \in DOMAIN input_topic |->
                       [input_topic[i] EXCEPT !.message.present = FALSE]]
  /\ pwm_topic' = [i \in DOMAIN pwm_topic |->
                     [pwm_topic[i] EXCEPT !.message.present = FALSE,
                                          !.message.start = FALSE]]
  /\ UNCHANGED <<kind, control_topic, accepted>>

\* _on_stop_control, _trip_fault and the end of a mission.
Stop == base.alive /\ base.active /\ EndSession(base)

\* A new odometry session; under control it is a fault (module Telemetry).
NewOdometrySession ==
  /\ base.alive /\ base.odometry < MaxOrigins
  /\ LET next == [base EXCEPT !.odometry = @ + 1]
     IN IF base.active THEN EndSession(next)
        ELSE base' = next /\ UNCHANGED <<kind, controller, topics, accepted>>

BaseDies == base.alive /\ EndSession([base EXCEPT !.alive = FALSE])

\* _on_pwm as far as the session goes: commands before its first observation
\* and outside of it are ignored.
OnPwm ==
  \E i \in DOMAIN pwm_topic :
    /\ pwm_topic' = Rest(pwm_topic, i)
    /\ accepted' = IF OutputEnabled THEN pwm_topic[i].message ELSE accepted
    /\ UNCHANGED <<kind, base, controller, control_topic, input_topic>>

-----------------------------------------------------------------------------
(* The controller.  One executor thread: its callbacks do not overlap.     *)

\* Mutant: the sample after the edge is used.
AfterEdgeAtOnce(c, active) == [c EXCEPT !.active = active]

\* policy_node: a rising edge arms the discard rule.
AfterEdge(c, active) ==
  [c EXCEPT !.active = active, !.discard = active /\ (@ \/ ~c.active)]

\* _disable
Disabled(c) == [c EXCEPT !.enabled = FALSE, !.started = FALSE]

\* The model controller forgets how fresh its input is, and stops.
ModelEdge(c, active) ==
  LET next == [AfterEdge(c, active) EXCEPT !.obs_age = IF active /\ c.active THEN @ ELSE None]
  IN IF active THEN next ELSE Disabled(next)

\* The CMG forgets its target on the edge.
CmgEdge(c, active) ==
  [AfterEdge(c, active) EXCEPT !.target = IF active /\ ~c.active THEN None ELSE @]

OnControlActive ==
  \E i \in DOMAIN control_topic :
    LET active == control_topic[i].message
    IN /\ control_topic' = Rest(control_topic, i)
       /\ controller' = CASE kind = "policy" -> AfterEdge(controller, active)
                          [] kind = "model" -> ModelEdge(controller, active)
                          [] kind = "cmg" -> CmgEdge(controller, active)
       /\ UNCHANGED <<kind, base, input_topic, pwm_topic, accepted>>

\* Takes the input handle is for; the command, if it is live, is published.
Handle(handle(_), live(_), command(_, _)) ==
  \E i \in DOMAIN input_topic :
    LET sample == input_topic[i].message
        seen == handle(sample)
    IN /\ input_topic' = Rest(input_topic, i)
       /\ controller' = [seen EXCEPT !.discard = FALSE]
       /\ pwm_topic' = IF live(seen) THEN Publish(pwm_topic, command(seen, sample))
                       ELSE pwm_topic
       /\ UNCHANGED <<kind, base, control_topic, accepted>>

Released(c) == c.active /\ ~c.discard

\* policy_node
OnObservation ==
  /\ kind = "policy"
  /\ LET handle(sample) == controller
         command(c, sample) == [present |-> sample.present, start |-> FALSE, one_frame |-> TRUE]
     IN Handle(handle, Released, command)

\* model_based_controller_node: the discarded sample is not a fresh one.
OnModelObservation ==
  /\ kind = "model"
  /\ LET handle(sample) == [controller EXCEPT !.obs_age = IF controller.discard THEN None ELSE 0]
         enabled(c) == c.enabled
         command(c, sample) == [present |-> sample.present, start |-> c.started, one_frame |-> TRUE]
     IN Handle(handle, enabled, command)

\* cmg: _on_odometry_session, then TargetManager.update.
Latched(c, sample) ==
  LET moved == c.active /\ c.session_id \notin {None, sample.odometry}
  IN [c EXCEPT !.session_id = sample.odometry,
               !.target = IF moved \/ @ = None THEN sample.odometry ELSE @]

\* cmg_policy_node
OnOdometry ==
  /\ kind = "cmg"
  /\ LET handle(sample) == Latched(controller, sample)
         command(c, sample) == [present |-> sample.present, start |-> FALSE,
                                one_frame |-> c.target = sample.odometry]
     IN Handle(handle, Released, command)

\* A sample or an output that does not pass the checks: the model disables, the
\* others ignore it.  It does not count as the discarded one.
OnBadInput ==
  \E i \in DOMAIN input_topic :
    /\ input_topic' = Rest(input_topic, i)
    /\ controller' = CASE kind = "policy" -> controller
                       [] kind = "model" -> Disabled(controller)
                       [] kind = "cmg" -> Latched(controller, input_topic[i].message)
    /\ UNCHANGED <<kind, base, control_topic, pwm_topic, accepted>>

\* model: _on_start, unless another PWM publisher is there.
StartModel ==
  /\ kind = "model" /\ ~controller.enabled
  /\ controller.active
  /\ controller.obs_age # None /\ controller.obs_age < ObsTimeout
  /\ controller' = [controller EXCEPT !.enabled = TRUE, !.started = base.active]
  /\ UNCHANGED <<kind, base, topics, accepted>>

\* model: _on_stop
StopModel ==
  /\ kind = "model" /\ controller.enabled
  /\ controller' = Disabled(controller)
  /\ UNCHANGED <<kind, base, topics, accepted>>

\* Mutant: the watchdog only looks at controllers that have seen no input.
SafetyTickWithoutAge ==
  /\ kind = "model"
  /\ controller' = IF controller.obs_age = None THEN Disabled(controller) ELSE controller
  /\ UNCHANGED <<kind, base, topics, accepted>>

\* model: _safety_tick; the age of the input is counted in its ticks.
SafetyTick ==
  /\ kind = "model"
  /\ controller' = IF controller.obs_age = None \/ controller.obs_age >= ObsTimeout
                    THEN Disabled(controller)
                    ELSE [controller EXCEPT !.obs_age = @ + 1]
  /\ UNCHANGED <<kind, base, topics, accepted>>

\* model: _safety_tick sees another publisher on /brov/thruster_pwm.
RivalSeen ==
  /\ kind = "model" /\ controller.enabled
  /\ controller' = Disabled(controller)
  /\ UNCHANGED <<kind, base, topics, accepted>>

\* The controller's process dies and is started again; its queues are lost.
Restart ==
  /\ controller # NewController
  /\ controller' = NewController
  /\ control_topic' = <<>> /\ input_topic' = <<>>
  /\ UNCHANGED <<kind, base, pwm_topic, accepted>>

ControllersNext ==
  \/ Tick \/ Start \/ Stop \/ NewOdometrySession \/ BaseDies \/ OnPwm
  \/ OnControlActive \/ OnObservation \/ OnModelObservation \/ OnOdometry \/ OnBadInput
  \/ StartModel \/ StopModel \/ SafetyTick \/ RivalSeen \/ Restart

ControllersSpec == ControllersInit /\ [][ControllersNext]_controllersvars

\* The controller's timer runs, its executor takes what has arrived.
ControllersFairness == WF_controllersvars(SafetyTick) /\ WF_controllersvars(OnControlActive)

ControllersFairSpec == ControllersSpec /\ ControllersFairness

-----------------------------------------------------------------------------
(* Properties.                                                             *)

Messages(topic) == {topic[i].message : i \in DOMAIN topic}
Ages(topic) == {topic[i].age : i \in DOMAIN topic}

\* Type invariant.
ControllersType ==
  /\ kind \in Kinds
  /\ base \in [alive : BOOLEAN, active : BOOLEAN, published : BOOLEAN,
               idle : 0 .. MinGap, odometry : Origins]
  /\ controller \in [active : BOOLEAN, discard : BOOLEAN, enabled : BOOLEAN,
                     obs_age : (0 .. ObsTimeout) \cup {None},
                     session_id : Origins \cup {None}, target : Origins \cup {None},
                     started : BOOLEAN]
  /\ Messages(control_topic) \subseteq BOOLEAN
  /\ Messages(input_topic) \subseteq [present : BOOLEAN, odometry : Origins]
  /\ Messages(pwm_topic) \subseteq Command
  /\ Ages(control_topic) \cup Ages(input_topic) \cup Ages(pwm_topic) \subseteq 0 .. Lag
  /\ accepted = None \/ accepted \in Command

\* Every command obs_node passes on was computed from a sample of the present
\* session, never from a preview or from the session before it; the CMG computed
\* it against a target of the sample's own odometry frame, and the model
\* controller on a START given for this session, not for an earlier one.
AcceptedIsLive ==
  accepted # None =>
    /\ accepted.present
    /\ accepted.one_frame
    /\ kind = "model" => accepted.start

\* A model controller whose input has ceased does not stay enabled.
SilentWithoutInput == ~base.alive ~> ~controller.enabled
=============================================================================
