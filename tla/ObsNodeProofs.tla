---------------------------- MODULE ObsNodeProofs ----------------------------
(***************************************************************************)
(* Proofs about ObsNode, for any set of missions and alignments, either    *)
(* setting of the two pool parameters and any bounds.                      *)
(***************************************************************************)
EXTENDS ObsNode, SequenceTheorems, TLAPS

-----------------------------------------------------------------------------
(* Type correctness, one part of the state at a time: each part is         *)
(* inductive by itself.                                                    *)

\* The two program counters and arm()'s loop counter stay in their ranges.
LEMMA ThreadTypeStep ==
  ThreadType /\ SendBudget /\ [Next]_vars => ThreadType' /\ SendBudget'
<1> SUFFICES ASSUME ThreadType, SendBudget, [Next]_vars
             PROVE  ThreadType' /\ SendBudget'
  OBVIOUS
<1> USE BoundsAssumption DEF ThreadType, SendBudget, MainPc, ArmPc
<1>1. CASE Request
  BY <1>1 DEF Request, PrepareWhileArmed, PrepareBegin, PrepareWanted,
     StartCheck, OnStop, OnResetIntegrator, OnDisarm, OnEstop, PwmAccept,
     PwmFault, PwmWanted, OnLocalizationStatus, OnResolvedMission, MainFrom,
     MainGoto, TripFault
<1>2. CASE Tick
  BY <1>2 DEF Tick, TickRevoke, TickFault, TickObservation, TickComplete,
     TickHealthy, TickFrom, MainFrom, MainGoto, TripFault
<1>3. CASE MainStep
  BY <1>3 DEF MainStep, PrepareEnd, StartActivate, SendNeutral, Cleanup, PwmSend,
     MainFrom, MainGoto
<1>4. CASE ArmCall
  BY <1>4 DEF ArmCall, ArmFrom, ArmGoto
<1>5. CASE ArmStep
  BY <1>5 DEF ArmStep, ArmGate, ArmCapture, ArmNeutral, ArmCheck, ArmSend,
     ArmTransportError, ArmPostGate, ArmConfirm, ArmApprove, ArmSetDeadline,
     ArmRevoke, ArmDisarm, ArmDone, ArmFrom, ArmGoto
<1>6. CASE VehicleReceive \/ HeartbeatSent \/ HeartbeatReceived \/ PolicyDies \/ Clock
  BY <1>6 DEF VehicleReceive, HeartbeatSent, HeartbeatReceived, PolicyDies, Clock,
     ArmDeadlinePasses, FirstPwmDeadlinePasses, PwmAges, EnvStep
<1>7. CASE UNCHANGED vars
  BY <1>7 DEF vars
<1> QED
  BY <1>1, <1>2, <1>3, <1>4, <1>5, <1>6, <1>7 DEF Next

\* The contract parts are None, a received mission, or START's copy of one.
LEMMA ContractTypeStep == ContractType /\ [Next]_vars => ContractType'
<1> SUFFICES ASSUME ContractType, [Next]_vars PROVE ContractType'
  OBVIOUS
<1> USE DEF ContractType, LegacyContracts, FreezeControl, RevokeFields, ClearPrepared, active,
            approval, inputs
<1>1. CASE Request
  BY <1>1 DEF Request, PrepareWhileArmed, PrepareBegin, PrepareWanted,
     StartCheck, OnStop, OnResetIntegrator, OnDisarm, OnEstop, PwmAccept,
     PwmFault, PwmWanted, OnLocalizationStatus, OnResolvedMission, TripFault, node
<1>2. CASE Tick
  BY <1>2 DEF Tick, TickRevoke, TickFault, TickObservation, TickComplete,
     TickHealthy, TickFrom, TripFault
<1>3. CASE MainStep
  BY <1>3 DEF MainStep, PrepareEnd, StartActivate, SendNeutral, Cleanup, PwmSend,
     node
<1>4. CASE ArmCall
  BY <1>4 DEF ArmCall, ArmFrom, ArmLocal
<1>5. CASE ArmStep
  BY <1>5 DEF ArmStep, ArmGate, ArmCapture, ArmNeutral, ArmCheck, ArmSend,
     ArmTransportError, ArmPostGate, ArmConfirm, ArmApprove, ArmSetDeadline,
     ArmRevoke, ArmDisarm, ArmDone, ArmFrom, ArmLocal
<1>6. CASE VehicleReceive \/ HeartbeatSent \/ HeartbeatReceived \/ PolicyDies \/ Clock
  BY <1>6 DEF VehicleReceive, HeartbeatSent, HeartbeatReceived, PolicyDies, Clock,
     ArmDeadlinePasses, FirstPwmDeadlinePasses, PwmAges, EnvStep
<1>7. CASE UNCHANGED vars
  BY <1>7 DEF vars, node
<1> QED
  BY <1>1, <1>2, <1>3, <1>4, <1>5, <1>6, <1>7 DEF Next

\* Commands on the link are ARM or DISARM; the vehicle's flags are Booleans.
LEMMA VehicleTypeStep == VehicleType /\ [Next]_vars => VehicleType'
<1> SUFFICES ASSUME VehicleType, [Next]_vars PROVE VehicleType'
  OBVIOUS
<1> USE DEF VehicleType, Command, MainFrom, Silent, vehicle, NeutralAndDisarm, Send
<1>1. CASE Request
  BY <1>1 DEF Request, PrepareWhileArmed, PrepareBegin, PrepareWanted,
     StartCheck, OnStop, OnResetIntegrator, OnDisarm, OnEstop, PwmAccept,
     PwmFault, PwmWanted, OnLocalizationStatus, OnResolvedMission
<1>2. CASE Tick
  BY <1>2 DEF Tick, TickRevoke, TickFault, TickObservation, TickComplete,
     TickHealthy, TickFrom
<1>3. CASE MainStep
  BY <1>3 DEF MainStep, PrepareEnd, StartActivate, SendNeutral, Cleanup, PwmSend
<1>4. CASE ArmCall
  BY <1>4 DEF ArmCall, ArmFrom, ArmLocal
<1>5. CASE ArmStep
  <2>1. CASE ArmSend \/ ArmDisarm \/ ArmNeutral
    BY <2>1 DEF ArmSend, ArmDisarm, ArmNeutral, ArmFrom
  <2>2. CASE ArmGate \/ ArmCapture \/ ArmCheck \/ ArmTransportError \/ ArmPostGate
    BY <2>2 DEF ArmGate, ArmCapture, ArmCheck, ArmTransportError, ArmPostGate,
       ArmFrom, ArmLocal
  <2>3. CASE ArmConfirm \/ ArmApprove \/ ArmSetDeadline \/ ArmRevoke \/ ArmDone
    BY <2>3 DEF ArmConfirm, ArmApprove, ArmSetDeadline, ArmRevoke, ArmDone,
       ArmFrom, ArmLocal
  <2> QED
    BY <1>5, <2>1, <2>2, <2>3 DEF ArmStep
<1>6. CASE VehicleReceive
  <2>1. link' \in Seq(Command)
    BY <1>6 DEF VehicleReceive
  <2>2. vehicle_armed' \in BOOLEAN
    BY <1>6 DEF VehicleReceive
  <2> QED
    BY <1>6, <2>1, <2>2 DEF VehicleReceive, EnvStep
<1>7. CASE HeartbeatSent \/ HeartbeatReceived
  BY <1>7 DEF HeartbeatSent, HeartbeatReceived, EnvStep
<1>8. CASE PolicyDies \/ Clock
  BY <1>8 DEF PolicyDies, Clock, ArmDeadlinePasses, FirstPwmDeadlinePasses,
     PwmAges, EnvStep
<1>9. CASE UNCHANGED vars
  BY <1>9 DEF vars
<1> QED
  BY <1>1, <1>2, <1>3, <1>4, <1>5, <1>6, <1>7, <1>8, <1>9 DEF Next

\* Latches, approval, deadlines and the control flags keep their types.
LEMMA ControlTypeStep == ControlType /\ [Next]_vars => ControlType'
<1> SUFFICES ASSUME ControlType, [Next]_vars PROVE ControlType'
  OBVIOUS
<1> USE DEF ControlType, Timer, latches, active, approval, watch
<1>1. CASE Request
  <2> USE DEF FreezeControl, RevokeFields, ClearPrepared, ClearWatch
  <2>1. CASE PrepareWhileArmed
    BY <2>1 DEF PrepareWhileArmed, PrepareWanted
  <2>2. CASE PrepareBegin
    BY <2>2 DEF PrepareBegin, PrepareWanted
  <2>3. CASE StartCheck
    BY <2>3 DEF StartCheck, node
  <2>4. CASE OnStop
    BY <2>4 DEF OnStop
  <2>5. CASE OnResetIntegrator
    BY <2>5 DEF OnResetIntegrator
  <2>6. CASE OnDisarm
    BY <2>6 DEF OnDisarm
  <2>7. CASE OnEstop
    BY <2>7 DEF OnEstop
  <2>8. CASE PwmAccept
    BY <2>8 DEF PwmAccept, PwmWanted, node
  <2>9. CASE PwmFault
    BY <2>9 DEF PwmFault, PwmWanted, TripFault
  <2>10. ASSUME NEW l \in Locs \cup {None}, OnLocalizationStatus(l)
         PROVE  ControlType'
    <3>1. TripFault => ControlType'
      BY DEF TripFault
    <3>2. UNCHANGED <<node, disarm_requested>> => ControlType'
      BY DEF node
    <3> QED
      BY <2>10, <3>1, <3>2 DEF OnLocalizationStatus
  <2>11. ASSUME NEW m \in Missions, OnResolvedMission(m)
         PROVE  ControlType'
    BY <2>11 DEF OnResolvedMission
  <2> QED
    BY <1>1, <2>1, <2>2, <2>3, <2>4, <2>5, <2>6, <2>7, <2>8, <2>9, <2>10, <2>11 DEF Request
<1>2. CASE Tick
  <2> USE DEF FreezeControl, RevokeFields, ClearPrepared, ClearWatch
  <2>1. CASE TickRevoke
    BY <2>1 DEF TickRevoke, TickFrom
  <2>2. CASE TickFault
    BY <2>2 DEF TickFault, TickFrom, TripFault
  <2>3. CASE TickObservation
    BY <2>3 DEF TickObservation, TickHealthy, TickFrom
  <2>4. CASE TickComplete
    BY <2>4 DEF TickComplete, TickHealthy, TickFrom
  <2> QED
    BY <1>2, <2>1, <2>2, <2>3, <2>4 DEF Tick
<1>3. CASE MainStep
  <2>1. CASE PrepareEnd
    BY <2>1 DEF PrepareEnd
  <2>2. CASE StartActivate
    BY <2>2 DEF StartActivate
  <2>3. CASE SendNeutral
    BY <2>3 DEF SendNeutral, node
  <2>4. CASE Cleanup
    BY <2>4 DEF Cleanup, node
  <2>5. CASE PwmSend
    BY <2>5 DEF PwmSend
  <2> QED
    BY <1>3, <2>1, <2>2, <2>3, <2>4, <2>5 DEF MainStep
<1>4. CASE ArmCall
  BY <1>4 DEF ArmCall, ArmFrom, ArmLocal
<1>5. CASE ArmStep
  <2>1. CASE ArmRevoke
    BY <2>1 DEF ArmRevoke, ArmFrom, RevokeFields, ClearPrepared, ClearWatch
  <2>2. CASE ArmCapture \/ ArmApprove \/ ArmSetDeadline
    BY <2>2 DEF ArmCapture, ArmApprove, ArmSetDeadline, ArmFrom
  <2>3. CASE ArmGate \/ ArmCheck \/ ArmTransportError \/ ArmPostGate \/ ArmConfirm
    BY <2>3 DEF ArmGate, ArmCheck, ArmTransportError, ArmPostGate, ArmConfirm,
       ArmFrom, ArmLocal
  <2>4. CASE ArmNeutral \/ ArmSend \/ ArmDisarm \/ ArmDone
    BY <2>4 DEF ArmNeutral, ArmSend, ArmDisarm, ArmDone, ArmFrom, ArmLocal
  <2> QED
    BY <1>5, <2>1, <2>2, <2>3, <2>4 DEF ArmStep
<1>6. CASE VehicleReceive \/ HeartbeatSent \/ HeartbeatReceived \/ PolicyDies
  <2>1. EnvStep /\ EnvTimers
    BY <1>6 DEF VehicleReceive, HeartbeatSent, HeartbeatReceived, PolicyDies
  <2> QED
    BY <2>1 DEF EnvStep, EnvTimers
<1>7. CASE Clock
  BY <1>7 DEF Clock, ArmDeadlinePasses, FirstPwmDeadlinePasses, PwmAges, EnvStep
<1>8. CASE UNCHANGED vars
  BY <1>8 DEF vars, node
<1> QED
  BY <1>1, <1>2, <1>3, <1>4, <1>5, <1>6, <1>7, <1>8 DEF Next

\* Every reachable state is well typed.
THEOREM TypeCorrect == Spec => [](TypeOK /\ SendBudget)
<1>1. Init => TypeOK /\ SendBudget
  <2> SUFFICES ASSUME Init PROVE TypeOK /\ SendBudget
    OBVIOUS
  <2>1. ThreadType /\ SendBudget
    BY BoundsAssumption DEF Init, ThreadType, SendBudget, MainPc, ArmPc
  <2>2. ControlType
    BY DEF Init, ControlType, Timer
  <2>3. ContractType
    BY DEF Init, ContractType
  <2>4. link \in Seq(Command)
    BY DEF Init
  <2>5. VehicleType
    BY <2>4 DEF Init, VehicleType
  <2> QED
    BY <2>1, <2>2, <2>3, <2>5 DEF TypeOK
<1>2. TypeOK /\ SendBudget /\ [Next]_vars => (TypeOK /\ SendBudget)'
  BY ThreadTypeStep, ControlTypeStep, ContractTypeStep, VehicleTypeStep DEF TypeOK
<1> QED
  BY <1>1, <1>2, PTL DEF Spec

-----------------------------------------------------------------------------
(* DISARM has the last word.                                               *)

\* DisarmWins is inductive with one more fact: whoever asks for a disarm also
\* moves the generation, and this is what the arm thread looks at before it
\* sends another ARM.
DisarmInv ==
  /\ DisarmWins
  /\ disarm_requested => generation_moved

\* The last command of a longer link is the one just sent.
LEMMA SentDisarmSettles ==
  ASSUME link \in Seq(Command), Send("disarm")
  PROVE  SettlesDisarmed'
<1>1. link' = Append(link, "disarm") /\ "disarm" \in Command
  BY DEF Send, Command
<1>2. link' # <<>> /\ link'[Len(link')] = "disarm"
  BY <1>1
<1> QED
  BY <1>2 DEF SettlesDisarmed

\* The tail of a longer sequence ends as the sequence does.
LEMMA TailEndsAlike ==
  ASSUME NEW S, NEW s \in Seq(S), Len(s) > 1
  PROVE  Tail(s) # <<>> /\ Tail(s)[Len(Tail(s))] = s[Len(s)]
<1>1. Len(s) \in Nat /\ Len(Tail(s)) = Len(s) - 1
  OBVIOUS
<1>2. Tail(s)[Len(s) - 1] = s[Len(s)]
  BY <1>1
<1>3. Tail(s) # <<>>
  <2>1. \A n \in Nat : n > 1 => n - 1 # 0
    OBVIOUS
  <2>2. Len(Tail(s)) # 0
    BY <1>1, <2>1, Zenon
  <2> QED
    BY <2>2, EmptySeq, Zenon
<1> QED
  BY <1>1, <1>2, <1>3

\* Delivering a command does not change what the vehicle ends up as.
LEMMA DeliveryKeepsSettled ==
  ASSUME link \in Seq(Command), SettlesDisarmed, VehicleReceive
  PROVE  SettlesDisarmed'
<1>1. link # <<>> /\ link' = Tail(link) /\ link[Len(link)] = "disarm"
  BY DEF VehicleReceive, SettlesDisarmed
<1>2. CASE Len(link) = 1
  <2>1. Head(link) = "disarm" /\ link' = <<>>
    BY <1>1, <1>2
  <2>2. vehicle_armed' = FALSE
    BY <2>1 DEF VehicleReceive
  <2> QED
    BY <2>1, <2>2 DEF SettlesDisarmed
<1>3. CASE Len(link) # 1
  <2>1. Len(link) # 0
    BY <1>1, EmptySeq, Zenon
  <2>2. Len(link) > 1
    BY <2>1, <1>3
  <2>3. link' # <<>> /\ link'[Len(link')] = link[Len(link)]
    BY <1>1, <2>2, TailEndsAlike
  <2> QED
    BY <1>1, <2>3 DEF SettlesDisarmed
<1> QED
  BY <1>2, <1>3

\* DisarmInv is inductive: one case per callback of either thread, the link and
\* the vehicle.
LEMMA DisarmInvStep ==
  VehicleType /\ DisarmInv /\ [Next]_vars => DisarmInv'
<1> SUFFICES ASSUME VehicleType, DisarmInv, [Next]_vars PROVE DisarmInv'
  OBVIOUS
<1>a. link \in Seq(Command)
  BY DEF VehicleType
<1>b. ASSUME UNCHANGED <<link, vehicle_armed>> PROVE SettlesDisarmed' = SettlesDisarmed
  BY <1>b DEF SettlesDisarmed
<1> USE DEF DisarmInv, DisarmWins
<1>1. CASE Request
  <2> USE <1>b DEF MainFrom, MainGoto, Silent, vehicle, FreezeControl, RevokeFields,
                   ClearPrepared, latches, TripFault
  <2>1. CASE PrepareWhileArmed \/ PrepareBegin
    BY <2>1 DEF PrepareWhileArmed, PrepareBegin, PrepareWanted
  <2>2. CASE StartCheck \/ PwmAccept
    <3>1. UNCHANGED <<node, disarm_requested>> /\ MainFrom("idle") /\ Silent
      BY <2>2 DEF StartCheck, PwmAccept, PwmWanted
    <3> QED
      BY <3>1 DEF node, approval
  <2>3. CASE OnStop \/ OnResetIntegrator
    BY <2>3 DEF OnStop, OnResetIntegrator
  <2>4. CASE OnDisarm \/ OnEstop
    BY <2>4 DEF OnDisarm, OnEstop
  <2>5. CASE PwmFault
    BY <2>5 DEF PwmFault, PwmWanted
  <2>6. ASSUME NEW l \in Locs \cup {None}, OnLocalizationStatus(l)
        PROVE  DisarmInv'
    <3>1. MainFrom("idle") /\ UNCHANGED <<link, vehicle_armed>>
      BY <2>6 DEF OnLocalizationStatus
    <3>2. CASE TripFault
      BY <3>1, <3>2
    <3>3. CASE UNCHANGED <<node, disarm_requested>>
      BY <3>1, <3>3 DEF node, approval
    <3> QED
      BY <2>6, <3>2, <3>3 DEF OnLocalizationStatus
  <2>7. ASSUME NEW m \in Missions, OnResolvedMission(m)
        PROVE  DisarmInv'
    BY <2>7 DEF OnResolvedMission
  <2> QED
    BY <1>1, <2>1, <2>2, <2>3, <2>4, <2>5, <2>6, <2>7 DEF Request
<1>2. CASE Tick
  <2> USE <1>b DEF MainFrom, MainGoto, Silent, vehicle, FreezeControl, RevokeFields,
                   ClearPrepared, latches, TripFault
  <2>1. CASE TickRevoke
    BY <2>1 DEF TickRevoke, TickFrom
  <2>2. CASE TickFault
    BY <2>2 DEF TickFault, TickFrom
  <2>3. CASE TickObservation
    BY <2>3 DEF TickObservation, TickHealthy, TickFrom, approval
  <2>4. CASE TickComplete
    BY <2>4 DEF TickComplete, TickHealthy, TickFrom
  <2> QED
    BY <1>2, <2>1, <2>2, <2>3, <2>4 DEF Tick
<1>3. CASE MainStep
  <2>1. CASE Cleanup
    <3>1. SettlesDisarmed'
      BY <1>a, <2>1, SentDisarmSettles DEF Cleanup, NeutralAndDisarm
    <3> QED
      BY <2>1, <3>1 DEF Cleanup, node, approval
  <2>2. CASE PrepareEnd \/ StartActivate
    BY <1>b, <2>2 DEF PrepareEnd, StartActivate, MainFrom, MainGoto, Silent,
       vehicle, latches
  <2>3. CASE SendNeutral \/ PwmSend
    BY <1>b, <2>3 DEF SendNeutral, PwmSend, MainFrom, MainGoto, vehicle, node,
       approval, latches
  <2> QED
    BY <1>3, <2>1, <2>2, <2>3 DEF MainStep
<1>4. CASE ArmCall
  BY <1>4, <1>b DEF ArmCall, ArmFrom, ArmGoto, ArmLocal, approval, latches, vehicle
<1>5. CASE ArmStep
  <2> USE <1>b DEF ArmFrom, ArmGoto, vehicle, latches
  <2>1. CASE ArmCheck
    BY <2>1 DEF ArmCheck, Cancelled, ArmLocal, approval
  <2>2. CASE ArmSend
    BY <2>2 DEF ArmSend, approval
  <2>3. CASE ArmDisarm
    <3>1. SettlesDisarmed'
      BY <1>a, <2>3, SentDisarmSettles DEF ArmDisarm, NeutralAndDisarm
    <3> QED
      BY <2>3, <3>1 DEF ArmDisarm, approval
  <2>4. CASE ArmRevoke
    BY <2>4 DEF ArmRevoke, RevokeFields, ClearPrepared
  <2>5. CASE ArmCapture \/ ArmNeutral \/ ArmApprove \/ ArmSetDeadline
    BY <2>5 DEF ArmCapture, ArmNeutral, ArmApprove, ArmSetDeadline, approval
  <2>6. CASE ArmGate \/ ArmTransportError \/ ArmPostGate \/ ArmConfirm \/ ArmDone
    BY <2>6 DEF ArmGate, ArmTransportError, ArmPostGate, ArmConfirm, ArmDone,
       ArmLocal, approval
  <2> QED
    BY <1>5, <2>1, <2>2, <2>3, <2>4, <2>5, <2>6 DEF ArmStep
<1>6. CASE VehicleReceive
  BY <1>6, <1>a, DeliveryKeepsSettled DEF VehicleReceive, EnvStep, latches
<1>7. CASE HeartbeatSent \/ HeartbeatReceived \/ PolicyDies \/ Clock
  BY <1>7, <1>b DEF HeartbeatSent, HeartbeatReceived, PolicyDies, Clock, EnvStep,
     ArmDeadlinePasses, FirstPwmDeadlinePasses, PwmAges, latches, vehicle
<1>8. CASE UNCHANGED vars
  BY <1>8, <1>b DEF vars, node, latches, approval, vehicle
<1> QED
  BY <1>1, <1>2, <1>3, <1>4, <1>5, <1>6, <1>7, <1>8 DEF Next

\* A disarm that was asked for is never undone by an ARM transaction racing
\* with it.
THEOREM DisarmHasLastWord == Spec => []DisarmWins
<1>1. Init => DisarmInv
  BY DEF Init, DisarmInv, DisarmWins
<1>2. TypeOK /\ DisarmInv /\ [Next]_vars => DisarmInv'
  BY DisarmInvStep DEF TypeOK
<1>3. DisarmInv => DisarmWins
  BY DEF DisarmInv
<1> QED
  BY <1>1, <1>2, <1>3, TypeCorrect, PTL DEF Spec

-----------------------------------------------------------------------------
(* Thrust is watched, and the gateway is the abstract one.                 *)

\* What the main thread may count on between the two halves of a callback.
\* control_active is written by no other thread, so a START past its checks
\* still finds control inactive, and a PWM past its checks finds it active.
MainInv ==
  /\ control_active => ~estopped /\ ~faulted
  /\ main_pc \in {"start", "prepare"} => ~control_active
  /\ main_pc = "start" => ~estopped /\ ~faulted
  /\ main_pc = "pwm" => control_active

ThrustInv == MainInv /\ NoUnwatchedThrust

\* ThrustInv is inductive: one case per callback of either thread.
LEMMA ThrustInvStep ==
  TypeOK /\ ThrustInv /\ [Next]_vars => ThrustInv'
<1> SUFFICES ASSUME ThrustInv, [Next]_vars PROVE ThrustInv'
  OBVIOUS
<1> USE DEF ThrustInv, MainInv, NoUnwatchedThrust
<1>1. CASE Request
  <2> USE DEF MainFrom, MainGoto, Silent, FreezeControl, RevokeFields, ClearWatch,
              latches, active, watch, TripFault
  <2>1. CASE PrepareWhileArmed \/ PrepareBegin
    BY <2>1 DEF PrepareWhileArmed, PrepareBegin, PrepareWanted
  <2>2. CASE StartCheck
    BY <2>2 DEF StartCheck, node
  <2>3. CASE OnStop \/ OnResetIntegrator
    BY <2>3 DEF OnStop, OnResetIntegrator
  <2>4. CASE OnDisarm \/ OnEstop
    BY <2>4 DEF OnDisarm, OnEstop
  <2>5. CASE PwmFault
    BY <2>5 DEF PwmFault, PwmWanted
  <2>6. CASE PwmAccept
    BY <2>6 DEF PwmAccept, PwmWanted, node
  <2>7. ASSUME NEW l \in Locs \cup {None}, OnLocalizationStatus(l)
        PROVE  ThrustInv'
    <3>1. MainFrom("idle") /\ Silent
      BY <2>7 DEF OnLocalizationStatus
    <3>2. CASE TripFault
      BY <3>1, <3>2
    <3>3. CASE MainGoto("idle") /\ UNCHANGED node
      BY <3>1, <3>3 DEF node
    <3> QED
      BY <2>7, <3>2, <3>3 DEF OnLocalizationStatus
  <2>8. ASSUME NEW m \in Missions, OnResolvedMission(m)
        PROVE  ThrustInv'
    BY <2>8 DEF OnResolvedMission
  <2> QED
    BY <1>1, <2>1, <2>2, <2>3, <2>4, <2>5, <2>6, <2>7, <2>8 DEF Request
<1>2. CASE Tick
  <2> USE DEF MainFrom, MainGoto, Silent, FreezeControl, RevokeFields, ClearWatch,
              latches, active, watch, TripFault
  <2>1. CASE TickRevoke
    BY <2>1 DEF TickRevoke, TickFrom
  <2>2. CASE TickFault
    BY <2>2 DEF TickFault, TickFrom
  <2>3. CASE TickObservation
    BY <2>3 DEF TickObservation, TickHealthy, TickFrom
  <2>4. CASE TickComplete
    BY <2>4 DEF TickComplete, TickHealthy, TickFrom
  <2> QED
    BY <1>2, <2>1, <2>2, <2>3, <2>4 DEF Tick
<1>3. CASE MainStep
  <2> USE DEF MainFrom, MainGoto, latches, active, watch
  <2>1. CASE PrepareEnd
    BY <2>1 DEF PrepareEnd, Silent
  <2>2. CASE StartActivate
    BY <2>2 DEF StartActivate, Silent
  <2>3. CASE SendNeutral \/ Cleanup
    BY <2>3 DEF SendNeutral, Cleanup, NeutralAndDisarm, node
  <2>4. CASE PwmSend
    BY <2>4 DEF PwmSend
  <2> QED
    BY <1>3, <2>1, <2>2, <2>3, <2>4 DEF MainStep
<1>4. CASE ArmCall
  BY <1>4 DEF ArmCall, ArmFrom, ArmGoto, ArmLocal, watch, latches, active
<1>5. CASE ArmStep
  <2> USE DEF ArmFrom, ArmGoto, watch, latches, active
  <2>1. CASE ArmNeutral \/ ArmDisarm
    BY <2>1 DEF ArmNeutral, ArmDisarm, NeutralAndDisarm
  <2>2. CASE ArmRevoke
    BY <2>2 DEF ArmRevoke, RevokeFields
  <2>3. CASE ArmCapture \/ ArmSend \/ ArmApprove \/ ArmSetDeadline
    BY <2>3 DEF ArmCapture, ArmSend, ArmApprove, ArmSetDeadline
  <2>4. CASE ArmGate \/ ArmCheck \/ ArmTransportError \/ ArmPostGate \/ ArmConfirm \/ ArmDone
    BY <2>4 DEF ArmGate, ArmCheck, ArmTransportError, ArmPostGate, ArmConfirm,
       ArmDone, ArmLocal
  <2> QED
    BY <1>5, <2>1, <2>2, <2>3, <2>4 DEF ArmStep
<1>6. CASE VehicleReceive \/ HeartbeatSent \/ HeartbeatReceived \/ PolicyDies
  <2>1. EnvStep /\ EnvTimers
    BY <1>6 DEF VehicleReceive, HeartbeatSent, HeartbeatReceived, PolicyDies
  <2> QED
    BY <2>1 DEF EnvStep, EnvTimers, watch, latches, active
<1>7. CASE Clock
  BY <1>7 DEF Clock, ArmDeadlinePasses, FirstPwmDeadlinePasses, PwmAges, EnvStep,
     watch, latches, active
<1>8. CASE UNCHANGED vars
  <2>1. UNCHANGED <<main_pc, arm_pc, node, thrust>>
    BY <1>8 DEF vars
  <2> QED
    BY <2>1 DEF node, watch, latches, active
<1> QED
  BY <1>1, <1>2, <1>3, <1>4, <1>5, <1>6, <1>7, <1>8 DEF Next

\* ThrustInv holds of every reachable state.
LEMMA ThrustInvariant == Spec => []ThrustInv
<1>1. Init => ThrustInv
  BY DEF Init, ThrustInv, MainInv, NoUnwatchedThrust
<1> QED
  BY <1>1, ThrustInvStep, TypeCorrect, PTL DEF Spec

\* Nothing drives the thrusters while no PWM watchdog counts.
THEOREM ThrustIsWatched == Spec => []NoUnwatchedThrust
<1>1. ThrustInv => NoUnwatchedThrust
  BY DEF ThrustInv
<1> QED
  BY <1>1, ThrustInvariant, PTL

-----------------------------------------------------------------------------
(* The node implements the abstract gateway.                               *)

\* A neutral that the main thread is about to send.
Pending == main_pc \in {"neutral", "cleanup"}

\* A step that leaves the flags alone and ends neutral settles the gateway.
LEMMA SettleSteps ==
  ASSUME UNCHANGED <<control_active, estopped>>, Pending' \/ thrust' = "neutral"
  PROVE  Gate!Settle
  BY DEF Gate!Settle, Pending

\* A step that leaves control inactive with a neutral pending closes the gateway.
LEMMA CloseSteps ==
  ASSUME ~control_active', UNCHANGED estopped, Pending', control_active' \in BOOLEAN
  PROVE  Gate!Close
  BY DEF Gate!Close, Pending

\* A step that touches none of the gateway's variables is a stutter.
LEMMA StutterSteps ==
  ASSUME UNCHANGED <<control_active, estopped, thrust>>, Pending' <=> Pending
  PROVE  UNCHANGED Gate!gateway
  BY DEF Gate!gateway, Pending

\* Every step of the node is a step of the gateway, or leaves it alone.
LEMMA GatewayStep ==
  TypeOK /\ ThrustInv /\ [Next]_vars => [Gate!GatewayNext]_(Gate!gateway)
<1> SUFFICES ASSUME TypeOK, ThrustInv, [Next]_vars
             PROVE  Gate!GatewayNext \/ UNCHANGED Gate!gateway
  OBVIOUS
<1>a. ASSUME FreezeControl, UNCHANGED estopped, Pending'
      PROVE  Gate!GatewayNext
  <2>1. Gate!Close
    BY <1>a, CloseSteps DEF FreezeControl
  <2> QED
    BY <2>1 DEF Gate!GatewayNext
<1>b. ASSUME UNCHANGED <<latches, active, thrust>>, Pending' <=> Pending
      PROVE  UNCHANGED Gate!gateway
  BY <1>b, StutterSteps DEF latches, active
<1>c. ASSUME UNCHANGED <<latches, active>>, Pending' \/ thrust' = "neutral"
      PROVE  Gate!GatewayNext
  <2>1. Gate!Settle
    BY <1>c, SettleSteps DEF latches, active
  <2> QED
    BY <2>1 DEF Gate!GatewayNext
<1>d. ASSUME TripFault PROVE Gate!GatewayNext
  BY <1>d, <1>a DEF TripFault, MainGoto, Pending
<1>1. CASE Request
  <2>1. CASE PrepareWhileArmed
    BY <2>1, <1>c DEF PrepareWhileArmed, RevokeFields, MainGoto, Pending
  <2>2. CASE PrepareBegin \/ StartCheck \/ PwmAccept
    <3>1. UNCHANGED <<latches, active, thrust>>
      BY <2>2 DEF PrepareBegin, StartCheck, PwmAccept, PrepareWanted, PwmWanted,
         node, Silent
    <3>2. ~Pending /\ ~Pending'
      BY <2>2 DEF PrepareBegin, StartCheck, PwmAccept, PrepareWanted, PwmWanted,
         MainFrom, MainGoto, Pending
    <3> QED
      BY <3>1, <3>2, <1>b
  <2>3. CASE OnStop \/ OnResetIntegrator \/ OnDisarm
    BY <2>3, <1>a DEF OnStop, OnResetIntegrator, OnDisarm, MainGoto, Pending, latches
  <2>4. CASE OnEstop
    <3>1. Gate!Estop
      BY <2>4 DEF OnEstop, FreezeControl, MainGoto, Gate!Estop
    <3> QED
      BY <3>1 DEF Gate!GatewayNext
  <2>5. CASE PwmFault
    BY <2>5, <1>d DEF PwmFault
  <2>6. ASSUME NEW l \in Locs \cup {None}, OnLocalizationStatus(l)
        PROVE  Gate!GatewayNext \/ UNCHANGED Gate!gateway
    <3>1. CASE TripFault
      BY <3>1, <1>d
    <3>2. CASE MainGoto("idle") /\ UNCHANGED node
      <4>1. UNCHANGED <<latches, active, thrust>>
        BY <2>6, <3>2 DEF OnLocalizationStatus, Silent, node
      <4>2. ~Pending /\ ~Pending'
        BY <2>6, <3>2 DEF OnLocalizationStatus, MainFrom, MainGoto, Pending
      <4> QED
        BY <4>1, <4>2, <1>b
    <3> QED
      BY <2>6, <3>1, <3>2 DEF OnLocalizationStatus
  <2>7. ASSUME NEW m \in Missions, OnResolvedMission(m)
        PROVE  Gate!GatewayNext \/ UNCHANGED Gate!gateway
    <3>1. CASE RevokeFields /\ MainGoto("cleanup")
      BY <3>1, <1>c DEF RevokeFields, MainGoto, Pending
    <3>2. CASE MainGoto("idle") /\ UNCHANGED <<latches, active>>
      <4>1. UNCHANGED thrust /\ ~Pending /\ ~Pending'
        BY <2>7, <3>2 DEF OnResolvedMission, Silent, MainFrom, MainGoto, Pending
      <4> QED
        BY <3>2, <4>1, <1>b
    <3> QED
      BY <2>7, <3>1, <3>2 DEF OnResolvedMission
  <2> QED
    BY <1>1, <2>1, <2>2, <2>3, <2>4, <2>5, <2>6, <2>7 DEF Request
<1>2. CASE Tick
  <2>1. CASE TickRevoke
    BY <2>1, <1>c DEF TickRevoke, RevokeFields, MainGoto, Pending
  <2>2. CASE TickFault
    BY <2>2, <1>d DEF TickFault
  <2>3. CASE TickObservation
    <3>1. UNCHANGED <<control_active, estopped, thrust>> /\ ~Pending /\ ~Pending'
      BY <2>3 DEF TickObservation, TickHealthy, TickFrom, Silent, MainFrom,
         MainGoto, Pending, latches
    <3> QED
      BY <3>1, StutterSteps
  <2>4. CASE TickComplete
    BY <2>4, <1>a DEF TickComplete, MainGoto, Pending, latches
  <2> QED
    BY <1>2, <2>1, <2>2, <2>3, <2>4 DEF Tick
<1>3. CASE MainStep
  <2>1. CASE PrepareEnd
    <3>1. UNCHANGED <<latches, active, thrust>> /\ ~Pending /\ ~Pending'
      BY <2>1 DEF PrepareEnd, Silent, MainFrom, MainGoto, Pending
    <3> QED
      BY <3>1, <1>b
  <2>2. CASE StartActivate
    <3>1. ~control_active /\ ~estopped /\ ~Pending /\ ~Pending'
      BY <2>2 DEF ThrustInv, MainInv, StartActivate, MainFrom, MainGoto, Pending
    <3>2. thrust = "neutral"
      BY <3>1 DEF ThrustInv, NoUnwatchedThrust, Pending, TypeOK, VehicleType
    <3>3. control_active' = TRUE /\ UNCHANGED <<thrust, estopped>>
      BY <2>2 DEF StartActivate, Silent, latches
    <3>4. Gate!Open
      BY <3>1, <3>2, <3>3 DEF Gate!Open, Pending, TypeOK, ControlType
    <3> QED
      BY <3>4 DEF Gate!GatewayNext
  <2>3. CASE SendNeutral \/ Cleanup
    BY <2>3, <1>c DEF SendNeutral, Cleanup, NeutralAndDisarm, node
  <2>4. CASE PwmSend
    <3>1. control_active /\ ~estopped /\ ~Pending'
      BY <2>4 DEF ThrustInv, MainInv, PwmSend, MainFrom, MainGoto, Pending
    <3>2. thrust' \in {"drive", "neutral"} /\ UNCHANGED <<control_active, estopped>>
      BY <2>4 DEF PwmSend, latches, active
    <3>3. Gate!Command
      BY <3>1, <3>2 DEF Gate!Command, Pending
    <3> QED
      BY <3>3 DEF Gate!GatewayNext
  <2> QED
    BY <1>3, <2>1, <2>2, <2>3, <2>4 DEF MainStep
<1>4. CASE ArmCall \/ ArmStep
  <2>1. CASE ArmNeutral \/ ArmDisarm
    BY <2>1, <1>c DEF ArmNeutral, ArmDisarm, NeutralAndDisarm, ArmFrom
  <2>2. CASE ArmCall \/ ArmGate \/ ArmCapture \/ ArmCheck \/ ArmSend \/ ArmTransportError
    <3>1. UNCHANGED <<latches, active, thrust, main_pc>>
      BY <2>2 DEF ArmCall, ArmGate, ArmCapture, ArmCheck, ArmSend,
         ArmTransportError, ArmFrom, ArmLocal
    <3> QED
      BY <3>1, <1>b DEF Pending
  <2>3. CASE ArmPostGate \/ ArmConfirm \/ ArmApprove \/ ArmSetDeadline \/ ArmRevoke \/ ArmDone
    <3>1. UNCHANGED <<latches, active, thrust, main_pc>>
      BY <2>3 DEF ArmPostGate, ArmConfirm, ArmApprove, ArmSetDeadline, ArmRevoke,
         ArmDone, ArmFrom, ArmLocal
    <3> QED
      BY <3>1, <1>b DEF Pending
  <2> QED
    BY <1>4, <2>1, <2>2, <2>3 DEF ArmStep
<1>5. CASE VehicleReceive \/ HeartbeatSent \/ HeartbeatReceived \/ PolicyDies \/ Clock
  <2>1. EnvStep
    BY <1>5 DEF VehicleReceive, HeartbeatSent, HeartbeatReceived, PolicyDies, Clock,
       ArmDeadlinePasses, FirstPwmDeadlinePasses, PwmAges
  <2> QED
    BY <2>1, <1>b DEF EnvStep, Pending
<1>6. CASE UNCHANGED vars
  <2>1. UNCHANGED <<main_pc, node, thrust>>
    BY <1>6 DEF vars
  <2> QED
    BY <2>1, <1>b DEF node, Pending
<1> QED
  BY <1>1, <1>2, <1>3, <1>4, <1>5, <1>6 DEF Next

\* Every behaviour of the node is one of the abstract gateway: closing it and
\* ESTOP make the thrusters neutral, and it never opens again after ESTOP.
THEOREM GatewayRefined == Spec => ImplementsGateway
<1>1. Init => Gate!GatewayInit
  BY DEF Init, Gate!GatewayInit
<1> QED
  BY <1>1, GatewayStep, ThrustInvariant, TypeCorrect, PTL
     DEF Spec, ImplementsGateway, Gate!GatewaySpec

-----------------------------------------------------------------------------
(* No thrust without the contract it was prepared for.                     *)

\* The arm thread can neither hold nor obtain an approval: it has cleared the
\* prepared contract, and its gates need one.
Unapprovable ==
  ~hardware_arm_approved /\ arm_pc \in {"idle", "gate", "disarm", "done"}

\* The race between START's checks and its assignments: if the arm thread
\* clears the prepared contract in between, START activates with no contract,
\* but also with no approval, so that no PWM passes until the fault.
ContractInv ==
  /\ main_pc = "start" => prepared \in {None, mission}
  /\ main_pc = "start" /\ prepared = None => Unapprovable
  /\ control_active => active_contract \in {None, mission}
  /\ control_active /\ active_contract = None => prepared = None /\ Unapprovable
  /\ main_pc = "pwm" => active_contract # None
  /\ thrust = "drive" => Pending \/ active_contract # None

\* Steps that touch none of it.
ContractFields == <<control_active, active_contract, prepared, mission, thrust,
                    hardware_arm_approved, arm_pc>>

\* Steps that keep the contract's fields keep ContractInv.
LEMMA ContractFrame ==
  /\ ContractInv /\ UNCHANGED ContractFields
  /\ main_pc' = main_pc \/ (main_pc' \in {"idle", "prepare"} /\ ~Pending)
  => ContractInv'
  BY DEF ContractFields, ContractInv, Unapprovable, Pending

\* ContractInv is inductive: one case per callback that can disturb it.
LEMMA ContractInvStep ==
  RequireResolvedMission /\ TypeOK /\ ThrustInv /\ ContractInv /\ [Next]_vars
    => ContractInv'
<1> SUFFICES ASSUME RequireResolvedMission, TypeOK, ThrustInv, ContractInv, [Next]_vars
             PROVE  ContractInv'
  OBVIOUS
<1>t. main_pc \in MainPc /\ arm_pc \in ArmPc /\ thrust \in {"neutral", "drive"}
  BY DEF TypeOK, ThreadType, VehicleType
<1>m. MainInv
  BY DEF ThrustInv
<1>f. ASSUME FreezeControl, MainFrom("idle"), Pending' PROVE ContractInv'
  BY <1>f DEF ContractInv, FreezeControl, MainFrom, Pending
<1>r. ASSUME RevokeFields, MainFrom("idle"), MainGoto("cleanup"), UNCHANGED inputs
      PROVE  ContractInv'
  BY <1>r DEF ContractInv, RevokeFields, ClearPrepared, MainFrom, MainGoto,
     Unapprovable, active, inputs, Pending
<1>1. CASE Request
  <2>1. CASE PrepareWhileArmed
    BY <2>1, <1>r DEF PrepareWhileArmed, PrepareWanted
  <2>2. CASE PrepareBegin
    <3>1. ~control_active /\ ~control_active' /\ main_pc' = "prepare" /\ ~Pending
      BY <2>2 DEF PrepareBegin, PrepareWanted, MainFrom, MainGoto, active, Pending
    <3>2. thrust' = thrust /\ active_contract' = active_contract
      BY <2>2 DEF PrepareBegin, PrepareWanted, Silent, active
    <3>3. ~Pending'
      BY <3>1 DEF Pending
    <3> QED
      BY <3>1, <3>2, <3>3 DEF ContractInv
  <2>3. CASE StartCheck
    <3>1. prepared = mission /\ prepared # None
      BY <2>3 DEF StartCheck, LifecycleGate, PreparedGate
    <3>2. UNCHANGED <<control_active, active_contract, prepared, mission, thrust,
                      hardware_arm_approved, arm_pc>>
      BY <2>3 DEF StartCheck, node, active, approval, inputs, MainFrom, Silent
    <3>3. main_pc = "idle" /\ main_pc' = "start"
      BY <2>3 DEF StartCheck, MainFrom, MainGoto
    <3> QED
      BY <3>1, <3>2, <3>3 DEF ContractInv, Unapprovable, Pending
  <2>4. CASE OnStop \/ OnResetIntegrator \/ OnDisarm \/ OnEstop
    BY <2>4, <1>f DEF OnStop, OnResetIntegrator, OnDisarm, OnEstop, MainGoto, Pending
  <2>5. CASE PwmFault
    BY <2>5, <1>f DEF PwmFault, PwmWanted, TripFault, MainGoto, Pending
  <2>6. CASE PwmAccept
    <3>1. control_active /\ hardware_arm_approved /\ main_pc = "idle" /\ main_pc' = "pwm"
      BY <2>6 DEF PwmAccept, PwmWanted, PwmGate, MainFrom, MainGoto
    <3>2. UNCHANGED <<control_active, active_contract, prepared, mission, thrust,
                      hardware_arm_approved, arm_pc>>
      BY <2>6 DEF PwmAccept, PwmWanted, node, active, approval, inputs, MainFrom,
         Silent
    <3> QED
      BY <3>1, <3>2 DEF ContractInv, Unapprovable, Pending
  <2>7. ASSUME NEW l \in Locs \cup {None}, OnLocalizationStatus(l)
        PROVE  ContractInv'
    <3>1. MainFrom("idle") /\ Silent /\ mission' = mission
      BY <2>7 DEF OnLocalizationStatus
    <3>2. CASE TripFault
      BY <3>1, <3>2, <1>f DEF TripFault, MainGoto, Pending
    <3>3. CASE MainGoto("idle") /\ UNCHANGED node
      <4>1. UNCHANGED ContractFields
        BY <3>1, <3>3 DEF ContractFields, MainFrom, Silent, node, active, approval
      <4>2. main_pc' = main_pc
        BY <3>1, <3>3 DEF MainFrom, MainGoto
      <4> QED
        BY <4>1, <4>2, ContractFrame
    <3> QED
      BY <2>7, <3>2, <3>3 DEF OnLocalizationStatus
  <2>8. ASSUME NEW m \in Missions, OnResolvedMission(m)
        PROVE  ContractInv'
    <3>1. ~control_active /\ ~control_active' /\ main_pc = "idle"
      BY <2>8 DEF OnResolvedMission, MainFrom, RevokeFields, active
    <3>2. main_pc' \in {"idle", "cleanup"} /\ thrust' = thrust
      BY <2>8 DEF OnResolvedMission, MainGoto, Silent
    <3>3. thrust # "drive"
      BY <3>1 DEF ThrustInv, NoUnwatchedThrust
    <3> QED
      BY <3>1, <3>2, <3>3 DEF ContractInv
  <2> QED
    BY <1>1, <2>1, <2>2, <2>3, <2>4, <2>5, <2>6, <2>7, <2>8 DEF Request
<1>2. CASE Tick
  <2>1. CASE TickRevoke
    BY <2>1, <1>r DEF TickRevoke, TickFrom
  <2>2. CASE TickFault
    BY <2>2, <1>f DEF TickFault, TickFrom, TripFault, MainGoto, Pending
  <2>3. CASE TickObservation
    <3>1. UNCHANGED ContractFields
      BY <2>3 DEF ContractFields, TickObservation, TickHealthy, TickFrom, MainFrom,
         Silent, approval, inputs
    <3>2. main_pc' = main_pc
      BY <2>3 DEF TickObservation, TickHealthy, TickFrom, MainFrom, MainGoto
    <3> QED
      BY <3>1, <3>2, ContractFrame
  <2>4. CASE TickComplete
    BY <2>4, <1>f DEF TickComplete, TickHealthy, TickFrom, MainGoto, Pending
  <2> QED
    BY <1>2, <2>1, <2>2, <2>3, <2>4 DEF Tick
<1>3. CASE MainStep
  <2>1. CASE PrepareEnd
    <3>1. ~control_active /\ ~control_active' /\ main_pc' = "idle" /\ ~Pending /\ ~Pending'
      BY <2>1, <1>m DEF PrepareEnd, MainFrom, MainGoto, MainInv, active, Pending
    <3>2. thrust' = thrust /\ active_contract' = active_contract
      BY <2>1 DEF PrepareEnd, Silent, active
    <3> QED
      BY <3>1, <3>2 DEF ContractInv
  <2>2. CASE StartActivate
    <3>1. main_pc = "start" /\ main_pc' = "idle" /\ thrust' = thrust
      BY <2>2 DEF StartActivate, MainFrom, MainGoto, Silent
    <3>2. active_contract' = prepared
      BY <2>2 DEF StartActivate
    <3>3. UNCHANGED <<prepared, hardware_arm_approved, arm_pc, mission>>
      BY <2>2 DEF StartActivate, inputs, MainFrom
    <3>4. thrust # "drive"
      BY <3>1, <1>m DEF ThrustInv, NoUnwatchedThrust, MainInv
    <3> QED
      BY <3>1, <3>2, <3>3, <3>4 DEF ContractInv, Unapprovable
  <2>3. CASE SendNeutral \/ Cleanup
    <3>1. UNCHANGED <<control_active, active_contract, prepared, mission,
                      hardware_arm_approved, arm_pc>>
      BY <2>3 DEF SendNeutral, Cleanup, node, active, approval, inputs, MainFrom
    <3>2. main_pc' = "idle" /\ thrust' = "neutral"
      BY <2>3 DEF SendNeutral, Cleanup, NeutralAndDisarm, MainGoto
    <3> QED
      BY <3>1, <3>2 DEF ContractInv, Unapprovable
  <2>4. CASE PwmSend
    <3>1. UNCHANGED <<control_active, active_contract, prepared, mission,
                      hardware_arm_approved, arm_pc>>
      BY <2>4 DEF PwmSend, active, approval, inputs, MainFrom
    <3>2. main_pc = "pwm" /\ main_pc' = "idle"
      BY <2>4 DEF PwmSend, MainFrom, MainGoto
    <3> QED
      BY <3>1, <3>2 DEF ContractInv, Unapprovable
  <2> QED
    BY <1>3, <2>1, <2>2, <2>3, <2>4 DEF MainStep
<1>4. CASE ArmCall \/ ArmStep
  <2>1. UNCHANGED <<main_pc, control_active, active_contract, mission>>
    BY <1>4 DEF ArmCall, ArmStep, ArmGate, ArmCapture, ArmNeutral, ArmCheck, ArmSend,
       ArmTransportError, ArmPostGate, ArmConfirm, ArmApprove, ArmSetDeadline,
       ArmRevoke, ArmDisarm, ArmDone, ArmFrom, active, inputs
  <2>2. thrust' = "drive" => thrust = "drive"
    BY <1>4 DEF ArmCall, ArmStep, ArmGate, ArmCapture, ArmNeutral, ArmCheck, ArmSend,
       ArmTransportError, ArmPostGate, ArmConfirm, ArmApprove, ArmSetDeadline,
       ArmRevoke, ArmDisarm, ArmDone, ArmLocal, NeutralAndDisarm
  <2>3. CASE ArmRevoke
    <3>1. prepared' = None /\ ~hardware_arm_approved' /\ arm_pc' = "disarm"
      BY <2>3 DEF ArmRevoke, RevokeFields, ClearPrepared, ArmGoto
    <3> QED
      BY <2>1, <2>2, <3>1 DEF ContractInv, Unapprovable, Pending
  <2>4. CASE ~ArmRevoke
    <3>1. prepared' = prepared
      BY <1>4, <2>4 DEF ArmCall, ArmStep, ArmGate, ArmCapture, ArmNeutral, ArmCheck,
         ArmSend, ArmTransportError, ArmPostGate, ArmConfirm, ArmApprove,
         ArmSetDeadline, ArmDisarm, ArmDone, ArmLocal, approval
    <3>2. prepared = None /\ Unapprovable => Unapprovable'
      <4>1. CASE arm_pc = "idle" \/ arm_pc = "disarm" \/ arm_pc = "done"
        BY <1>4, <2>4, <4>1 DEF ArmCall, ArmStep, ArmGate, ArmCapture, ArmNeutral,
           ArmCheck, ArmSend, ArmTransportError, ArmPostGate, ArmConfirm,
           ArmApprove, ArmSetDeadline, ArmDisarm, ArmDone, ArmFrom, ArmGoto,
           ArmLocal, approval, Unapprovable
      <4>2. CASE arm_pc = "gate"
        <5>1. ArmGate
          BY <1>4, <2>4, <4>2 DEF ArmCall, ArmStep, ArmCapture, ArmNeutral,
             ArmCheck, ArmSend, ArmTransportError, ArmPostGate, ArmConfirm,
             ArmApprove, ArmSetDeadline, ArmDisarm, ArmDone, ArmFrom
        <5>2. prepared = None => arm_pc' = "idle"
          BY <5>1 DEF ArmGate, ArmGoto, LifecycleGate, PreparedGate
        <5> QED
          BY <5>1, <5>2 DEF ArmGate, ArmLocal, approval, Unapprovable
      <4> QED
        BY <4>1, <4>2 DEF Unapprovable
    <3> QED
      BY <2>1, <2>2, <3>1, <3>2 DEF ContractInv, Pending
  <2> QED
    BY <2>3, <2>4
<1>5. CASE VehicleReceive \/ HeartbeatSent \/ HeartbeatReceived \/ PolicyDies \/ Clock
  <2>1. EnvStep
    BY <1>5 DEF VehicleReceive, HeartbeatSent, HeartbeatReceived, PolicyDies, Clock,
       ArmDeadlinePasses, FirstPwmDeadlinePasses, PwmAges
  <2>2. UNCHANGED ContractFields /\ main_pc' = main_pc
    BY <2>1 DEF ContractFields, EnvStep, active, inputs
  <2> QED
    BY <2>2, ContractFrame
<1>6. CASE UNCHANGED vars
  <2>1. UNCHANGED <<main_pc, arm_pc, node, inputs, thrust>>
    BY <1>6 DEF vars
  <2>2. UNCHANGED ContractFields /\ main_pc' = main_pc
    BY <2>1 DEF ContractFields, node, active, approval, inputs
  <2> QED
    BY <2>2, ContractFrame
<1> QED
  BY <1>1, <1>2, <1>3, <1>4, <1>5, <1>6 DEF Next

\* With pool localization required, the contract START fixes is bound to the
\* alignment of that moment, and a change of alignment faults before the next
\* command.  Only START of a resolved mission can activate without a contract.
AlignInv ==
  /\ main_pc = "start" => loc # None
  /\ main_pc = "start" /\ RequireResolvedMission /\ prepared # None
       => loc = prepared.loc
  /\ control_active /\ active_contract # None => loc = active_contract.loc
  /\ control_active /\ active_contract = None => RequireResolvedMission

\* Steps that keep the alignment's fields keep AlignInv.
LEMMA AlignFrame ==
  /\ AlignInv /\ UNCHANGED <<control_active, active_contract, loc>>
  /\ prepared' \in {prepared, None}
  /\ main_pc' = "start" => main_pc = "start"
  => AlignInv'
  BY DEF AlignInv

\* AlignInv is inductive: one case per callback that can disturb it.
LEMMA AlignInvStep ==
  RequirePoolLocalization /\ TypeOK /\ ThrustInv /\ AlignInv /\ [Next]_vars
    => AlignInv'
<1> SUFFICES ASSUME RequirePoolLocalization, TypeOK, ThrustInv, AlignInv, [Next]_vars
             PROVE  AlignInv'
  OBVIOUS
<1>f. ASSUME FreezeControl, main_pc' # "start" PROVE AlignInv'
  BY <1>f DEF AlignInv, FreezeControl
<1>r. ASSUME RevokeFields, UNCHANGED loc, main_pc' # "start" PROVE AlignInv'
  BY <1>r, AlignFrame DEF RevokeFields, ClearPrepared, active
<1>1. CASE Request
  <2>1. CASE PrepareWhileArmed
    BY <2>1, <1>r DEF PrepareWhileArmed, PrepareWanted, MainGoto, inputs
  <2>2. CASE PrepareBegin
    BY <2>2, AlignFrame DEF PrepareBegin, PrepareWanted, ClearPrepared, MainGoto,
       active, inputs
  <2>3. CASE StartCheck
    <3>1. loc # None /\ (RequireResolvedMission => loc = prepared.loc)
      BY <2>3 DEF StartCheck, LifecycleGate, ContractGate, PoolGate, PreparedGate
    <3>2. UNCHANGED <<control_active, active_contract, loc, prepared>>
      BY <2>3 DEF StartCheck, node, active, approval, inputs
    <3> QED
      BY <3>1, <3>2 DEF AlignInv
  <2>4. CASE OnStop \/ OnResetIntegrator \/ OnDisarm \/ OnEstop
    BY <2>4, <1>f DEF OnStop, OnResetIntegrator, OnDisarm, OnEstop, MainGoto
  <2>5. CASE PwmFault
    BY <2>5, <1>f DEF PwmFault, TripFault, MainGoto
  <2>6. CASE PwmAccept
    <3>1. UNCHANGED <<control_active, active_contract, loc, prepared>>
      BY <2>6 DEF PwmAccept, PwmWanted, node, active, approval, inputs
    <3> QED
      BY <2>6, <3>1, AlignFrame DEF PwmAccept, MainGoto
  <2>7. ASSUME NEW l \in Locs \cup {None}, OnLocalizationStatus(l)
        PROVE  AlignInv'
    <3>1. CASE TripFault
      BY <3>1, <1>f DEF TripFault, MainGoto
    <3>2. CASE MainGoto("idle") /\ UNCHANGED node /\ (control_active => PoolGate(l))
      <4>1. UNCHANGED <<control_active, active_contract>> /\ loc' = l /\ main_pc' = "idle"
        BY <2>7, <3>2 DEF OnLocalizationStatus, MainGoto, node, active
      <4>2. control_active /\ active_contract # None => l = active_contract.loc
        BY <3>2 DEF PoolGate
      <4> QED
        BY <4>1, <4>2 DEF AlignInv
    <3> QED
      BY <2>7, <3>1, <3>2 DEF OnLocalizationStatus
  <2>8. ASSUME NEW m \in Missions, OnResolvedMission(m)
        PROVE  AlignInv'
    <3>1. UNCHANGED <<control_active, active_contract, loc>> /\ prepared' = None
      BY <2>8 DEF OnResolvedMission, RevokeFields, ClearPrepared, active
    <3>2. main_pc' # "start"
      BY <2>8 DEF OnResolvedMission, MainGoto
    <3> QED
      BY <3>1, <3>2, AlignFrame
  <2> QED
    BY <1>1, <2>1, <2>2, <2>3, <2>4, <2>5, <2>6, <2>7, <2>8 DEF Request
<1>2. CASE Tick
  <2>1. CASE TickRevoke
    BY <2>1, <1>r DEF TickRevoke, TickFrom, MainGoto, inputs
  <2>2. CASE TickFault
    BY <2>2, <1>f DEF TickFault, TripFault, MainGoto
  <2>3. CASE TickObservation
    BY <2>3, AlignFrame DEF TickObservation, TickHealthy, TickFrom, MainGoto,
       approval, inputs
  <2>4. CASE TickComplete
    BY <2>4, <1>f DEF TickComplete, MainGoto
  <2> QED
    BY <1>2, <2>1, <2>2, <2>3, <2>4 DEF Tick
<1>3. CASE MainStep
  <2>1. CASE PrepareEnd
    <3>1. ~control_active' /\ main_pc' = "idle"
      BY <2>1 DEF PrepareEnd, MainFrom, MainGoto, active, ThrustInv, MainInv
    <3> QED
      BY <3>1 DEF AlignInv
  <2>2. CASE StartActivate
    <3>1. main_pc = "start" /\ main_pc' = "idle" /\ loc' = loc
      BY <2>2 DEF StartActivate, MainFrom, MainGoto, inputs
    <3>2. CASE RequireResolvedMission
      <4>1. active_contract' = prepared
        BY <2>2, <3>2 DEF StartActivate
      <4> QED
        BY <3>1, <3>2, <4>1 DEF AlignInv
    <3>3. CASE ~RequireResolvedMission
      <4>1. active_contract' = [id |-> None, loc |-> loc]
        BY <2>2, <3>3 DEF StartActivate
      <4>2. loc \in Locs
        BY <3>1 DEF AlignInv, TypeOK, ContractType
      <4>3. active_contract' # None
        BY <4>1, <4>2, DataAssumption DEF LegacyContracts
      <4> QED
        BY <3>1, <4>1, <4>3 DEF AlignInv
    <3> QED
      BY <3>2, <3>3
  <2>3. CASE SendNeutral \/ Cleanup \/ PwmSend
    <3>1. UNCHANGED <<control_active, active_contract, loc, prepared>> /\ main_pc' = "idle"
      BY <2>3 DEF SendNeutral, Cleanup, PwmSend, MainGoto, node, active, approval, inputs
    <3> QED
      BY <3>1, AlignFrame
  <2> QED
    BY <1>3, <2>1, <2>2, <2>3 DEF MainStep
<1>4. CASE ArmCall \/ ArmStep
  <2>1. UNCHANGED <<main_pc, control_active, active_contract, loc>>
    BY <1>4 DEF ArmCall, ArmStep, ArmGate, ArmCapture, ArmNeutral, ArmCheck, ArmSend,
       ArmTransportError, ArmPostGate, ArmConfirm, ArmApprove, ArmSetDeadline,
       ArmRevoke, ArmDisarm, ArmDone, ArmFrom, active, inputs
  <2>2. prepared' \in {prepared, None}
    BY <1>4 DEF ArmCall, ArmStep, ArmGate, ArmCapture, ArmNeutral, ArmCheck, ArmSend,
       ArmTransportError, ArmPostGate, ArmConfirm, ArmApprove, ArmSetDeadline,
       ArmRevoke, ArmDisarm, ArmDone, ArmLocal, approval, RevokeFields, ClearPrepared
  <2> QED
    BY <2>1, <2>2, AlignFrame
<1>5. CASE VehicleReceive \/ HeartbeatSent \/ HeartbeatReceived \/ PolicyDies \/ Clock
  <2>1. EnvStep
    BY <1>5 DEF VehicleReceive, HeartbeatSent, HeartbeatReceived, PolicyDies, Clock,
       ArmDeadlinePasses, FirstPwmDeadlinePasses, PwmAges
  <2> QED
    BY <2>1, AlignFrame DEF EnvStep, active, inputs
<1>6. CASE UNCHANGED vars
  <2>1. UNCHANGED <<main_pc, node, inputs>>
    BY <1>6 DEF vars
  <2>2. UNCHANGED <<main_pc, control_active, active_contract, loc, prepared>>
    BY <2>1 DEF node, active, approval, inputs
  <2> QED
    BY <2>2, AlignFrame
<1> QED
  BY <1>1, <1>2, <1>3, <1>4, <1>5, <1>6 DEF Next

\* With pool localization required, thrust is driven only under the alignment,
\* and the mission if one is required, that START fixed, and they are still the
\* latest ones received.
THEOREM ThrustHasContract == Spec => []ThrustUnderContract
<1>1. CASE RequirePoolLocalization
  <2>1. Init => AlignInv
    BY DEF Init, AlignInv
  <2>2. TypeOK /\ ThrustInv /\ AlignInv /\ [Next]_vars => AlignInv'
    BY <1>1, AlignInvStep
  <2>3. CASE RequireResolvedMission
    <3>1. Init => ContractInv
      BY DEF Init, ContractInv
    <3>2. TypeOK /\ ThrustInv /\ ContractInv /\ [Next]_vars => ContractInv'
      BY <2>3, ContractInvStep
    <3>3. ThrustInv /\ AlignInv /\ ContractInv => ThrustUnderContract
      BY DEF ThrustInv, NoUnwatchedThrust, AlignInv, ContractInv,
         ThrustUnderContract, Pending
    <3> QED
      BY <2>1, <2>2, <3>1, <3>2, <3>3, ThrustInvariant, TypeCorrect, PTL DEF Spec
  <2>4. CASE ~RequireResolvedMission
    <3>1. ThrustInv /\ AlignInv => ThrustUnderContract
      BY <2>4 DEF ThrustInv, NoUnwatchedThrust, AlignInv, ThrustUnderContract
    <3> QED
      BY <2>1, <2>2, <3>1, ThrustInvariant, TypeCorrect, PTL DEF Spec
  <2> QED
    BY <2>3, <2>4
<1>2. CASE ~RequirePoolLocalization
  <2>1. ThrustInv => ThrustUnderContract
    BY <1>2 DEF ThrustUnderContract
  <2> QED
    BY <2>1, ThrustInvariant, PTL
<1> QED
  BY <1>1, <1>2
=============================================================================
