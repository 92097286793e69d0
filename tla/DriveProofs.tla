------------------------------ MODULE DriveProofs ------------------------------
(* Proofs about what drives the thrusters: BaseNode, for every set of borrowed *)
(* parameters and every number of PREPARE calls, and Controllers, for every    *)
(* number of odometry sessions and messages on their way.                      *)
EXTENDS BaseNode, Controllers, SequenceTheorems, TLAPS

-----------------------------------------------------------------------------
(* BaseNode.                                                               *)

\* The types the proofs need.
NodeType ==
  /\ prepared \in BOOLEAN /\ armed_by_us \in BOOLEAN /\ started \in BOOLEAN
  /\ faulted \in BOOLEAN /\ estopped \in BOOLEAN
  /\ thrust \in {"neutral", "drive"} /\ neutral_failed \in BOOLEAN
  /\ stopped_by_watchdog \in BOOLEAN
  /\ last_cmd \in {"none", "recent", "overdue"}

\* What makes DriveGated inductive: control is started on armed motors.
GateInv ==
  /\ NodeType
  /\ DriveGated
  /\ started => armed_by_us /\ prepared /\ ~estopped

\* Initially the gate is closed and the thrusters are neutral.
LEMMA GateInit == Init => GateInv
BY DEF Init, GateInv, NodeType, DriveGated

\* GateInv is inductive: one step per action.
LEMMA GateStep == GateInv /\ [Next]_vars => GateInv'
<1> SUFFICES ASSUME GateInv, [Next]_vars PROVE GateInv'
  OBVIOUS
<1> USE DEF GateInv, NodeType, DriveGated
<1>1. CASE PrepareUnread \/ PrepareBegin \/ SrvArm \/ ArmRaises
  BY <1>1 DEF PrepareUnread, PrepareBegin, SrvArm, ArmRaises, lifecycle,
              latches, watch, output
<1>2. CASE PrepareWork
  BY <1>2 DEF PrepareWork, latches, watch, output
<1>3. CASE ArmReturns
  BY <1>3 DEF ArmReturns, ForgetCommands, latches, output
<1>4. CASE SrvStart
  BY <1>4 DEF SrvStart, ForgetCommands, latches, output
<1>5. CASE SrvStop
  BY <1>5 DEF SrvStop, ForgetCommands, NeutralStop, Sent, latches
<1>6. CASE SrvDisarm
  BY <1>6 DEF SrvDisarm, NeutralStop, Sent, watch
<1>7. CASE SrvDisarmRaises
  BY <1>7 DEF SrvDisarmRaises, NeutralStop, Sent, lifecycle, latches, watch
<1>8. CASE OnEstop
  BY <1>8 DEF OnEstop, NeutralStop, Sent, watch
<1>9. CASE WrenchSent
  BY <1>9 DEF WrenchSent, WrenchWanted, Sent, lifecycle, latches
<1>10. CASE WrenchTrips
  BY <1>10 DEF WrenchTrips, WrenchWanted, NeutralStop, Sent, lifecycle, watch
<1>11. CASE TickWatchdog
  BY <1>11 DEF TickWatchdog, NeutralStop, Sent, lifecycle, latches
<1>12. CASE CommandAges \/ PolicyDies \/ CloseWork
  BY <1>12 DEF CommandAges, PolicyDies, CloseWork, lifecycle, latches, watch,
               output
<1>13. CASE Destroy
  BY <1>13 DEF Destroy, NeutralStop, Sent, lifecycle, latches, watch
<1>14. CASE UNCHANGED vars
  BY <1>14 DEF vars, lifecycle, latches, watch, output
<1> QED
  BY <1>1, <1>2, <1>3, <1>4, <1>5, <1>6, <1>7, <1>8, <1>9, <1>10, <1>11,
     <1>12, <1>13, <1>14
  DEF Next, Request, Waiting

\* GateInv holds of every reachable state.
LEMMA GateInvariant == Spec => []GateInv
BY GateInit, GateStep, PTL DEF Spec

\* Thrusters are left driven only behind open gates.
THEOREM DriveIsGated == Spec => []DriveGated
<1>1. GateInv => DriveGated
  BY DEF GateInv
<1> QED
  BY <1>1, GateInvariant, PTL

-----------------------------------------------------------------------------
\* Unless ARM or START was repeated, ARM waits on the autopilot only before
\* START.
WatchInv ==
  /\ repeated \in BOOLEAN
  /\ repeated \/ (pc = "arm" => ~started)
  /\ WatchedDrive

\* WatchInv is inductive next to GateInv: one step per action.
LEMMA WatchStep == GateInv /\ WatchInv /\ [Next]_vars => WatchInv'
<1> SUFFICES ASSUME GateInv, WatchInv, [Next]_vars PROVE WatchInv'
  OBVIOUS
<1> USE DEF WatchInv, WatchedDrive, callers
<1>1. CASE PrepareUnread \/ PrepareBegin \/ ArmRaises
  BY <1>1 DEF PrepareUnread, PrepareBegin, ArmRaises, lifecycle, watch, output
<1>11. CASE SrvArm
  BY <1>11, Zenon DEF SrvArm, lifecycle, watch, output
<1>2. CASE PrepareWork
  BY <1>2 DEF PrepareWork, watch, output
<1>3. CASE ArmReturns
  BY <1>3 DEF ArmReturns, ForgetCommands, output, GateInv, NodeType, DriveGated
<1>12. CASE SrvStart
  BY <1>12 DEF SrvStart, ForgetCommands, output, GateInv, NodeType, DriveGated
<1>4. CASE SrvStop
  BY <1>4 DEF SrvStop, Callback, ForgetCommands, NeutralStop, Sent
<1>5. CASE SrvDisarm \/ SrvDisarmRaises \/ OnEstop
  BY <1>5 DEF SrvDisarm, SrvDisarmRaises, OnEstop, Callback, NeutralStop, Sent,
              watch
<1>6. CASE WrenchSent
  BY <1>6 DEF WrenchSent, WrenchWanted, Callback, Sent
<1>7. CASE WrenchTrips \/ TickWatchdog
  BY <1>7 DEF WrenchTrips, TickWatchdog, WrenchWanted, Callback, NeutralStop,
              Sent, watch
<1>8. CASE CommandAges \/ PolicyDies \/ CloseWork
  BY <1>8 DEF CommandAges, PolicyDies, CloseWork, lifecycle, watch, output
<1>9. CASE Destroy
  BY <1>9 DEF Destroy, NeutralStop, Sent, watch
<1>10. CASE UNCHANGED vars
  BY <1>10 DEF vars, lifecycle, watch, output
<1> QED
  BY <1>1, <1>2, <1>3, <1>4, <1>5, <1>6, <1>7, <1>8, <1>9, <1>10, <1>11, <1>12
  DEF Next, Request, Waiting

\* Until ARM or START is repeated, driven thrusters have a live watchdog.
THEOREM DriveIsWatched == Spec => []WatchedDrive
<1>1. Init => WatchInv
  BY DEF Init, WatchInv, WatchedDrive
<1>2. WatchInv => WatchedDrive
  BY DEF WatchInv
<1> QED
  BY <1>1, <1>2, GateInvariant, WatchStep, PTL DEF Spec

-----------------------------------------------------------------------------
(* Passthrough, as this node uses it.                                      *)

\* A prepared node that still runs has every parameter borrowed; when PREPARE is called
\* again, what that call backed up, and may roll back to, is the borrowed setting itself.
\* A node that is closing, or closed, has sent neutral.
LoanedInv ==
  /\ fc \in Pass!Setting /\ backup \in Pass!Setting \cup {NoBackup}
  /\ todo \subseteq Pass!Params
  /\ job \in {"none", "enable", "rollback", "close"}
  /\ job # "none" => backup # NoBackup
  /\ held => job = "none"
  /\ job = "enable" => \A p \in Pass!Params \ todo : fc[p] = "set"
  /\ prepared /\ Up => fc = Pass!Borrowed /\ (job # "none" => backup = Pass!Borrowed)
  /\ ~Up => thrust = "neutral" \/ neutral_failed

\* Setting a parameter of a borrowed setting changes nothing, nor does giving it back
\* its value of that setting.
LEMMA BorrowedIsFixed ==
  ASSUME NEW p \in Pass!Params
  PROVE  /\ [Pass!Borrowed EXCEPT ![p] = "set"] = Pass!Borrowed
         /\ [Pass!Borrowed EXCEPT ![p] = Pass!Borrowed[p]] = Pass!Borrowed
BY DEF Pass!Borrowed

\* A setting with every parameter set is the borrowed one.
LEMMA AllSet ==
  ASSUME NEW f \in Pass!Setting, \A p \in Pass!Params : f[p] = "set"
  PROVE  f = Pass!Borrowed
BY DEF Pass!Borrowed, Pass!Setting

\* What a step of enable_passthrough does to the parameters: nothing once all are set.
LEMMA EnableStepLoan ==
  ASSUME LoanedInv, Pass!EnableStep
  PROVE  /\ fc' \in Pass!Setting /\ todo' \subseteq Pass!Params
         /\ backup' = backup /\ exit' = exit
         /\ job = "enable" /\ job' \in {"none", "enable", "rollback"}
         /\ job' = "enable" => \A p \in Pass!Params \ todo' : fc'[p] = "set"
         /\ held' => held \/ (job' = "none" /\ fc' = Pass!Borrowed)
         /\ fc = Pass!Borrowed => fc' = Pass!Borrowed
<1> USE DEF LoanedInv
<1>1. CASE Pass!SetVerified
  <2>1. PICK p \in Pass!NextToSet :
          fc' = [fc EXCEPT ![p] = "set"] /\ todo' = todo \ {p}
    BY <1>1 DEF Pass!SetVerified
  <2>2. p \in Pass!Params
    BY <2>1 DEF Pass!NextToSet
  <2>3. fc' \in Pass!Setting
    BY <2>1, <2>2 DEF Pass!Setting, Pass!Value
  <2>4. \A q \in Pass!Params \ todo' : fc'[q] = "set"
    BY <1>1, <2>1, <2>2 DEF Pass!SetVerified, Pass!Setting
  <2> QED
    BY <1>1, <2>1, <2>2, <2>3, <2>4, BorrowedIsFixed
    DEF Pass!SetVerified, Pass!Within
<1>2. CASE Pass!SetUnverified
  <2>1. PICK p \in Pass!NextToSet : fc' \in {fc, [fc EXCEPT ![p] = "set"]}
    BY <1>2 DEF Pass!SetUnverified
  <2>2. p \in Pass!Params
    BY <2>1 DEF Pass!NextToSet
  <2>3. fc' \in Pass!Setting
    BY <2>1, <2>2 DEF Pass!Setting, Pass!Value
  <2> QED
    BY <1>2, <2>1, <2>2, <2>3, BorrowedIsFixed
    DEF Pass!SetUnverified, Pass!Run, Pass!Within
<1>3. CASE Pass!EnableEnd
  BY <1>3, AllSet DEF Pass!EnableEnd, Pass!Rest, Pass!Within
<1> QED
  BY <1>1, <1>2, <1>3 DEF Pass!EnableStep

\* What a step of disable_passthrough does to the parameters: nothing when the backup is
\* the borrowed setting.
LEMMA RestoreStepLoan ==
  ASSUME LoanedInv, Pass!RestoreStep
  PROVE  /\ fc' \in Pass!Setting /\ todo' \subseteq Pass!Params
         /\ backup' \in {backup, NoBackup} /\ held' = held
         /\ job \in {"rollback", "close"} /\ job' \in {"none", job}
         /\ job' # "none" => backup' = backup
         /\ job # "close" => exit' = exit
         /\ job = "close" => job' = "close" \/ exit' # "running"
         /\ fc = Pass!Borrowed /\ backup = Pass!Borrowed => fc' = Pass!Borrowed
<1> USE DEF LoanedInv, Pass!Restoring
<1>1. CASE Pass!RestoreVerified
  <2>1. PICK p \in Pass!NextToRestore :
          fc' = [fc EXCEPT ![p] = backup[p]] /\ todo' = todo \ {p}
    BY <1>1 DEF Pass!RestoreVerified
  <2>2. p \in Pass!Params
    BY <2>1 DEF Pass!NextToRestore
  <2>3. fc' \in Pass!Setting
    BY <1>1, <2>1, <2>2 DEF Pass!RestoreVerified, Pass!Setting
  <2> QED
    BY <1>1, <2>1, <2>2, <2>3, BorrowedIsFixed
    DEF Pass!RestoreVerified, Pass!Within
<1>2. CASE Pass!RestoreUnverified
  <2>1. PICK p \in Pass!NextToRestore :
          fc' \in {fc, [fc EXCEPT ![p] = backup[p]]} /\ todo' = todo \ {p}
    BY <1>2 DEF Pass!RestoreUnverified
  <2>2. p \in Pass!Params
    BY <2>1 DEF Pass!NextToRestore
  <2>3. fc' \in Pass!Setting
    BY <1>2, <2>1, <2>2 DEF Pass!RestoreUnverified, Pass!Setting
  <2> QED
    BY <1>2, <2>1, <2>2, <2>3, BorrowedIsFixed
    DEF Pass!RestoreUnverified, Pass!Within
<1>3. CASE Pass!RestoreEnd
  BY <1>3 DEF Pass!RestoreEnd, Pass!Rest
<1>4. CASE Pass!RestoreRaises
  <2>1. PICK p \in todo : fc' \in {fc, [fc EXCEPT ![p] = backup[p]]}
    BY <1>4 DEF Pass!RestoreRaises
  <2>2. fc' \in Pass!Setting
    BY <1>4, <2>1 DEF Pass!RestoreRaises, Pass!Setting
  <2> QED
    BY <1>4, <2>1, <2>2, BorrowedIsFixed DEF Pass!RestoreRaises, Pass!Rest
<1> QED
  BY <1>1, <1>2, <1>3, <1>4 DEF Pass!RestoreStep

\* Initially nothing is borrowed and nothing is prepared.
LEMMA LoanedInit == Init => LoanedInv
BY DEF Init, Pass!Init, LoanedInv, Pass!Native, Pass!Setting, Pass!Value, Up

\* LoanedInv is inductive next to GateInv: one step per action.
LEMMA LoanedStep == GateInv /\ LoanedInv /\ [Next]_vars => LoanedInv'
<1> SUFFICES ASSUME GateInv, LoanedInv, [Next]_vars PROVE LoanedInv'
  OBVIOUS
<1> USE DEF LoanedInv, Up
<1>1. CASE PrepareUnread
  BY <1>1 DEF PrepareUnread, Pass!EnableUnread, Pass!call, lifecycle, output
<1>2. CASE PrepareBegin
  <2>1. job = "none" /\ UNCHANGED <<fc, exit, prepared, thrust, neutral_failed>>
    BY <1>2 DEF PrepareBegin, Pass!EnableBegin, Pass!EnableCall, lifecycle, output
  <2>2. /\ backup' = fc /\ job' = "enable" /\ todo' = Pass!Params /\ held' = FALSE
    BY <1>2 DEF PrepareBegin, Pass!EnableBegin, Pass!Originals, Pass!Run
  <2> QED
    BY <1>2, <2>1, <2>2, BackupAssumption DEF PrepareBegin
<1>3. CASE PrepareWork
  <2>1. Up /\ UNCHANGED <<thrust, neutral_failed>>
    BY <1>3 DEF PrepareWork, output
  <2>2. CASE Pass!EnableStep
    BY <1>3, <2>1, <2>2, EnableStepLoan DEF PrepareWork
  <2>3. CASE Pass!RestoreStep
    <3>1. ~held' /\ job = "rollback" /\ exit' = exit /\ job' \in {"none", "rollback"}
      BY <2>1, <2>3, RestoreStepLoan
    <3>2. prepared' = prepared
      BY <1>3, <3>1 DEF PrepareWork
    <3> QED
      BY <2>1, <2>3, <3>1, <3>2, RestoreStepLoan
  <2> QED
    BY <1>3, <2>2, <2>3 DEF PrepareWork
<1>4. CASE SrvArm \/ SrvStart \/ ArmReturns \/ ArmRaises
  BY <1>4 DEF SrvArm, SrvStart, ArmReturns, ArmRaises, lifecycle, output, passthrough
<1>5. CASE SrvStop \/ SrvDisarmRaises \/ TickWatchdog
  BY <1>5 DEF SrvStop, SrvDisarmRaises, TickWatchdog, Callback, lifecycle, passthrough
<1>6. CASE SrvDisarm \/ OnEstop
  BY <1>6 DEF SrvDisarm, OnEstop, Callback, passthrough
<1>7. CASE WrenchSent \/ WrenchTrips
  BY <1>7 DEF WrenchSent, WrenchTrips, WrenchWanted, Callback, lifecycle, passthrough
<1>8. CASE CommandAges \/ PolicyDies \/ UNCHANGED vars
  BY <1>8 DEF CommandAges, PolicyDies, vars, lifecycle, output, passthrough
<1>9. CASE Destroy
  <2>1. thrust' = "neutral" \/ neutral_failed'
    BY <1>9 DEF Destroy, NeutralStop, Sent
  <2>2. UNCHANGED <<fc, backup, prepared>> /\ held' = FALSE /\ todo' \subseteq Pass!Params
    BY <1>9 DEF Destroy, Pass!CloseBegin, Pass!CloseSkipped, Pass!Rest, Pass!Run, lifecycle
  <2>3. \/ job' = "none" /\ exit' # "running"
        \/ job' = "close" /\ backup # NoBackup
    BY <1>9 DEF Destroy, Pass!CloseBegin, Pass!CloseSkipped, Pass!Rest, Pass!Run
  <2> QED
    BY <2>1, <2>2, <2>3
<1>10. CASE CloseWork
  BY <1>10, RestoreStepLoan DEF CloseWork, lifecycle, output
<1> QED
  BY <1>1, <1>2, <1>3, <1>4, <1>5, <1>6, <1>7, <1>8, <1>9, <1>10
  DEF Next, Request, Waiting

\* While thrusters are driven every borrowed parameter is set (base_node.py:823).
THEOREM DriveIsPassedThrough == Spec => []DriveUnderPassthrough
<1>1. GateInv /\ LoanedInv => DriveUnderPassthrough
  BY DEF GateInv, DriveGated, LoanedInv, DriveUnderPassthrough
<1> QED
  BY <1>1, GateInvariant, LoanedInit, LoanedStep, PTL DEF Spec

-----------------------------------------------------------------------------
\* Every step is a step of the gateway, or leaves it alone.
LEMMA GatewayStep == GateInv /\ [Next]_vars => [Gate!GatewayNext]_(Gate!gateway)
<1> SUFFICES ASSUME GateInv, [Next]_vars
             PROVE  [Gate!GatewayNext]_(Gate!gateway)
  OBVIOUS
<1> USE DEF GateInv, NodeType, DriveGated, Gate!gateway, Gate!GatewayNext
<1>1. CASE PrepareUnread \/ PrepareBegin \/ SrvArm \/ ArmRaises
  BY <1>1 DEF PrepareUnread, PrepareBegin, SrvArm, ArmRaises, lifecycle,
              latches, output
<1>2. CASE PrepareWork
  BY <1>2 DEF PrepareWork, latches, output
<1>3. CASE ArmReturns \/ SrvStart
  BY <1>3 DEF ArmReturns, SrvStart, latches, output, Gate!Open
<1>4. CASE SrvStop
  BY <1>4 DEF SrvStop, NeutralStop, Sent, latches, Gate!Close
<1>5. CASE SrvDisarm
  BY <1>5 DEF SrvDisarm, NeutralStop, Sent, Gate!Close
<1>6. CASE OnEstop
  BY <1>6 DEF OnEstop, NeutralStop, Sent, Gate!Estop
<1>7. CASE WrenchSent
  BY <1>7 DEF WrenchSent, WrenchWanted, Sent, lifecycle, latches, Gate!Command
<1>8. CASE WrenchTrips
  BY <1>8 DEF WrenchTrips, NeutralStop, Sent, lifecycle, Gate!Close
<1>9. CASE TickWatchdog \/ SrvDisarmRaises \/ Destroy
  BY <1>9 DEF TickWatchdog, SrvDisarmRaises, Destroy, NeutralStop, Sent,
              lifecycle, latches, Gate!Settle
<1>10. CASE CommandAges \/ PolicyDies \/ CloseWork \/ UNCHANGED vars
  BY <1>10 DEF CommandAges, PolicyDies, CloseWork, vars, lifecycle, latches,
               output
<1> QED
  BY <1>1, <1>2, <1>3, <1>4, <1>5, <1>6, <1>7, <1>8, <1>9, <1>10
  DEF Next, Request, Waiting

\* The split-stack node implements the abstract gateway.
THEOREM BaseGatewayRefined == Spec => ImplementsGateway
<1>1. Init => Gate!GatewayInit
  BY DEF Init, Gate!GatewayInit
<1> QED
  BY <1>1, GateInvariant, GatewayStep, PTL
  DEF Spec, ImplementsGateway, Gate!GatewaySpec
-----------------------------------------------------------------------------
(* Controllers: topics.                                                    *)

Topic(M) == Seq([message : M, age : 0 .. Lag])

Ordered(topic) == \A i, j \in DOMAIN topic : i < j => topic[i].age > topic[j].age

\* A message of a topic.
LEMMA TopicMessage ==
  ASSUME NEW M, NEW topic \in Topic(M), NEW i \in DOMAIN topic
  PROVE  /\ topic[i] = [message |-> topic[i].message, age |-> topic[i].age]
         /\ topic[i].message \in M /\ topic[i].age \in 0 .. Lag
<1> DEFINE S == [message : M, age : 0 .. Lag]
<1> HIDE DEF S
<1>1. topic \in Seq(S) /\ i \in 1 .. Len(topic)
  BY DEF Topic, S
<1>2. topic[i] \in S
  BY <1>1, ElementOfSeq
<1> QED
  BY <1>2 DEF S

\* What a topic holds once messages were taken from it.
LEMMA RestTopic ==
  ASSUME NEW M, NEW topic \in Topic(M), NEW i \in DOMAIN topic
  PROVE  /\ Rest(topic, i) \in Topic(M)
         /\ \A k \in DOMAIN Rest(topic, i) :
              k + i \in DOMAIN topic /\ k + i > i /\ Rest(topic, i)[k] = topic[k + i]
         /\ \A k \in DOMAIN topic : k > i =>
              k - i \in DOMAIN Rest(topic, i) /\ Rest(topic, i)[k - i] = topic[k]
         /\ Ordered(topic) => Ordered(Rest(topic, i))
<1> DEFINE S == [message : M, age : 0 .. Lag]
<1> HIDE DEF S
<1>1. topic \in Seq(S) /\ Len(topic) \in Nat /\ DOMAIN topic = 1 .. Len(topic)
  BY DEF Topic, S
<1>2. i \in 1 .. Len(topic)
  BY <1>1
<1>3. /\ Rest(topic, i) \in Seq(S)
      /\ Len(Rest(topic, i)) = Len(topic) - i
      /\ \A k \in 1 .. Len(topic) - i : Rest(topic, i)[k] = topic[k + i]
  <2>1. i + 1 \in 1 .. Len(topic) + 1 /\ Len(topic) \in i .. Len(topic)
    BY <1>1, <1>2
  <2> QED
    BY <1>1, <1>2, <2>1, SubSeqProperties DEF Rest
<1>4. DOMAIN Rest(topic, i) = 1 .. Len(topic) - i
  BY <1>3
<1>5. \A k \in DOMAIN Rest(topic, i) :
        k + i \in DOMAIN topic /\ k + i > i /\ Rest(topic, i)[k] = topic[k + i]
  BY <1>1, <1>2, <1>3, <1>4
<1>6. \A k \in DOMAIN topic : k > i =>
        k - i \in DOMAIN Rest(topic, i) /\ Rest(topic, i)[k - i] = topic[k]
  BY <1>1, <1>2, <1>3, <1>4
<1>7. Ordered(topic) => Ordered(Rest(topic, i))
  BY <1>1, <1>2, <1>4, <1>5 DEF Ordered
<1> QED
  BY <1>3, <1>5, <1>6, <1>7 DEF Topic, S

\* A message published.
LEMMA PublishTopic ==
  ASSUME NEW M, NEW topic \in Topic(M), NEW m \in M, Lag \in Nat
  PROVE  LET next == Publish(topic, m)
         IN /\ next \in Topic(M)
            /\ \A k \in DOMAIN next : \/ k \in DOMAIN topic /\ next[k] = topic[k]
                                      \/ /\ k \notin DOMAIN topic
                                         /\ next[k].message = m /\ next[k].age = 0
            /\ \A k \in DOMAIN topic : k \in DOMAIN next /\ next[k] = topic[k]
            /\ \E k \in DOMAIN next : next[k].message = m /\ next[k].age = 0
            /\ Ordered(topic) /\ (\A k \in DOMAIN topic : topic[k].age >= 1) => Ordered(next)
<1> DEFINE S == [message : M, age : 0 .. Lag]
           e == [message |-> m, age |-> 0]
           next == Publish(topic, m)
<1>0. e \in S /\ e.message = m /\ e.age = 0
  OBVIOUS
<1> HIDE DEF S, e
<1>1. topic \in Seq(S) /\ Len(topic) \in Nat /\ DOMAIN topic = 1 .. Len(topic)
  BY DEF Topic, S
<1>2. next = Append(topic, e)
  BY DEF Publish, e
<1>3. /\ next \in Seq(S) /\ Len(next) = Len(topic) + 1
      /\ \A k \in 1 .. Len(topic) : next[k] = topic[k]
      /\ next[Len(topic) + 1] = e
  BY <1>0, <1>1, <1>2
<1>4. DOMAIN next = 1 .. Len(topic) + 1
  BY <1>3
<1> HIDE DEF next
<1>5. \A k \in DOMAIN next : \/ k \in DOMAIN topic /\ next[k] = topic[k]
                             \/ k = Len(topic) + 1 /\ k \notin DOMAIN topic /\ next[k] = e
  BY <1>1, <1>3, <1>4
<1>6. \A k \in DOMAIN topic : k \in DOMAIN next /\ next[k] = topic[k]
  BY <1>1, <1>3, <1>4
<1>7. \E k \in DOMAIN next : next[k].message = m /\ next[k].age = 0
  BY <1>0, <1>1, <1>3, <1>4
<1>8. ASSUME Ordered(topic), \A k \in DOMAIN topic : topic[k].age >= 1
      PROVE  Ordered(next)
  <2> SUFFICES ASSUME NEW i \in DOMAIN next, NEW j \in DOMAIN next, i < j
               PROVE  next[i].age > next[j].age
    BY DEF Ordered
  <2>1. i \in DOMAIN topic /\ next[i] = topic[i]
    BY <1>1, <1>3, <1>4
  <2>2. topic[i].age \in Nat
    <3>1. topic[i] \in S
      BY <1>1, <2>1, ElementOfSeq
    <3> QED
      BY <3>1 DEF S
  <2>3. CASE j \in DOMAIN topic
    BY <1>6, <1>8, <2>1, <2>3 DEF Ordered
  <2>4. CASE next[j] = e
    BY <1>0, <1>8, <2>1, <2>2, <2>4
  <2> QED
    BY <1>5, <2>3, <2>4
<1>9. next \in Topic(M)
  BY <1>3 DEF Topic, S
<1> QED
  BY <1>0, <1>5, <1>6, <1>7, <1>8, <1>9 DEF next

\* A tick passes.
LEMMA OlderTopic ==
  ASSUME NEW M, NEW topic \in Topic(M), InTime(topic), Lag \in Nat
  PROVE  /\ Older(topic) \in Topic(M) /\ DOMAIN Older(topic) = DOMAIN topic
         /\ \A k \in DOMAIN topic :
              /\ Older(topic)[k].message = topic[k].message
              /\ Older(topic)[k].age = topic[k].age + 1
              /\ topic[k].age \in Nat /\ topic[k].age < Lag
         /\ Ordered(topic) => Ordered(Older(topic))
<1> DEFINE S == [message : M, age : 0 .. Lag]
<1>1. topic \in Seq(S) /\ Len(topic) \in Nat /\ DOMAIN topic = 1 .. Len(topic)
  BY DEF Topic
<1>2. \A k \in DOMAIN topic : topic[k] \in S
  BY <1>1, ElementOfSeq
<1>3. DOMAIN Older(topic) = DOMAIN topic
  BY DEF Older
<1>4. \A k \in DOMAIN topic :
        /\ Older(topic)[k] \in S
        /\ Older(topic)[k].message = topic[k].message
        /\ Older(topic)[k].age = topic[k].age + 1
        /\ topic[k].age \in Nat /\ topic[k].age < Lag
  BY <1>2 DEF Older, InTime
<1> HIDE DEF S
<1>5. Older(topic) \in Seq(S)
  <2>1. Older(topic) \in [1 .. Len(topic) -> S]
    BY <1>1, <1>4 DEF Older
  <2> QED
    BY <1>1, <2>1
<1>6. Ordered(topic) => Ordered(Older(topic))
  BY <1>3, <1>4 DEF Ordered
<1> QED
  BY <1>3, <1>4, <1>5, <1>6 DEF Topic, S

\* The end of a session changes what messages say, not how old they are.
LEMMA RewrittenTopic ==
  ASSUME NEW M, NEW N, NEW topic \in Topic(M), NEW next, DOMAIN next = DOMAIN topic,
         \A k \in DOMAIN topic : /\ next[k] = [message |-> next[k].message, age |-> next[k].age]
                                 /\ next[k].message \in N /\ next[k].age = topic[k].age,
         next = [k \in DOMAIN next |-> next[k]]
  PROVE  /\ next \in Topic(N)
         /\ Ordered(topic) => Ordered(next)
<1> DEFINE S == [message : N, age : 0 .. Lag]
<1>1. Len(topic) \in Nat /\ DOMAIN topic = 1 .. Len(topic)
  BY DEF Topic
<1>2. \A k \in DOMAIN topic : topic[k] \in [message : M, age : 0 .. Lag]
  BY <1>1, ElementOfSeq DEF Topic
<1>3. \A k \in DOMAIN topic : next[k] \in S
  BY <1>2
<1> HIDE DEF S
<1>4. next \in [1 .. Len(topic) -> S]
  BY <1>1, <1>3
<1>5. next \in Seq(S)
  BY <1>1, <1>4
<1>6. next \in Topic(N)
  BY <1>5 DEF Topic, S
<1> QED
  BY <1>6 DEF Ordered

-----------------------------------------------------------------------------
(* Controllers: the invariant.                                             *)

Fields == [active : BOOLEAN, discard : BOOLEAN, enabled : BOOLEAN,
           obs_age : Nat \cup {None},
           session_id : Nat \cup {None}, target : Nat \cup {None},
           started : BOOLEAN]

FieldsInv ==
  /\ kind \in {"policy", "model", "cmg"}
  /\ base \in [alive : BOOLEAN, active : BOOLEAN, published : BOOLEAN,
               idle : 0 .. MinGap, odometry : Nat]
  /\ controller \in Fields

TopicsInv ==
  /\ control_topic \in Topic(BOOLEAN) /\ Ordered(control_topic)
  /\ input_topic \in Topic([present : BOOLEAN, odometry : Nat]) /\ Ordered(input_topic)
  /\ pwm_topic \in Topic(Command)

\* A target that is used is of the frame of the samples.
TargetInv ==
  kind = "cmg" /\ controller.active /\ controller.target # None =>
    controller.target = controller.session_id

\* A model controller that is enabled sees control and has an input that is fresh; the
\* START that enabled it was for the session that runs.
ModelInv ==
  kind = "model" =>
    /\ controller.enabled => controller.active /\ controller.obs_age # None
    /\ controller.active /\ controller.discard => controller.obs_age = None
    /\ base.active /\ controller.enabled => controller.started

\* The controller acts as if under control, or may be about to.
Believing == controller.active \/ \E i \in DOMAIN control_topic : control_topic[i].message

\* Out of control, a controller that has not heard of it is about to.
EndedInv ==
  ~base.active =>
    /\ \A i \in DOMAIN control_topic : control_topic[i].message => control_topic[i].age >= base.idle
    /\ Believing /\ base.idle >= 1 =>
         \E i \in DOMAIN control_topic : control_topic[i].age = base.idle - 1
    /\ \A i \in DOMAIN pwm_topic : base.idle <= pwm_topic[i].age + Lag + 1

\* Until the first observation of a session nobody controls.
BegunInv ==
  base.active /\ ~base.published =>
    /\ \A i \in DOMAIN control_topic : ~control_topic[i].message
    /\ ~controller.active
    /\ \A i \in DOMAIN pwm_topic : pwm_topic[i].age >= Lag

\* From then on at most one sample from before is still on its way to a controller that
\* has taken the edge, and that one is discarded.
EnabledInv ==
  OutputEnabled =>
    /\ \A i \in DOMAIN input_topic : ~input_topic[i].message.present =>
         /\ input_topic[i].age >= 1
         /\ controller.active \/ (\E j \in DOMAIN control_topic : control_topic[j].message) =>
              input_topic[i].age >= 2
         /\ controller.active => controller.discard
    /\ \A i \in DOMAIN pwm_topic : /\ pwm_topic[i].message.present
                                   /\ kind = "model" => pwm_topic[i].message.start

CommandsInv == \A i \in DOMAIN pwm_topic : pwm_topic[i].message.one_frame

AcceptedInv ==
  /\ FieldsInv /\ TopicsInv /\ TargetInv /\ ModelInv
  /\ EndedInv /\ BegunInv /\ EnabledInv /\ CommandsInv /\ AcceptedIsLive

\* The parameters are numbers.
LEMMA Parameters == Lag \in Nat /\ MinGap \in Nat /\ ObsTimeout \in Nat /\ None \notin Nat
  BY ControllersAssumption

\* A controller that has just started.
LEMMA NewFields ==
  /\ NewController \in Fields
  /\ ~NewController.active /\ ~NewController.enabled
BY DEF NewController, Fields

\* What the two kinds of samples do to a controller.
LEMMA HandledEffect ==
  ASSUME FieldsInv, TopicsInv, TargetInv, ModelInv,
         OnObservation \/ OnModelObservation \/ OnOdometry
  PROVE  \E i \in DOMAIN input_topic, command \in Command :
           /\ input_topic' = Rest(input_topic, i)
           /\ UNCHANGED <<kind, base, control_topic, accepted>>
           /\ FieldsInv' /\ TargetInv' /\ ModelInv'
           /\ controller'.active = controller.active
           /\ \/ pwm_topic' = pwm_topic
              \/ /\ pwm_topic' = Publish(pwm_topic, command)
                 /\ controller.active /\ ~controller.discard
                 /\ command.present = input_topic[i].message.present
                 /\ command.one_frame
                 /\ base.active /\ kind = "model" => command.start
<1> USE DEF Fields
<1>c. controller \in Fields
  BY DEF FieldsInv
<1>s. ASSUME NEW i \in DOMAIN input_topic
      PROVE  input_topic[i].message \in [present : BOOLEAN, odometry : Nat]
  BY TopicMessage DEF TopicsInv
<1>1. CASE OnObservation
  <2> DEFINE C(i) == [present |-> input_topic[i].message.present, start |-> FALSE,
                      one_frame |-> TRUE]
  <2>1. PICK i \in DOMAIN input_topic :
          /\ input_topic' = Rest(input_topic, i)
          /\ controller' = [controller EXCEPT !.discard = FALSE]
          /\ pwm_topic' = IF Released(controller) THEN Publish(pwm_topic, C(i)) ELSE pwm_topic
          /\ UNCHANGED <<kind, base, control_topic, accepted>>
    BY <1>1 DEF OnObservation, Handle
  <2>2. kind = "policy"
    BY <1>1 DEF OnObservation
  <2>3. C(i) \in Command /\ C(i).present = input_topic[i].message.present /\ C(i).one_frame
    BY <1>s DEF Command
  <2> HIDE DEF C
  <2>4. FieldsInv' /\ TargetInv' /\ ModelInv' /\ controller'.active = controller.active
    BY <1>c, <2>1, <2>2 DEF FieldsInv, TargetInv, ModelInv
  <2>5. \/ pwm_topic' = pwm_topic
        \/ pwm_topic' = Publish(pwm_topic, C(i)) /\ controller.active /\ ~controller.discard
    BY <2>1 DEF Released
  <2> QED
    BY <2>1, <2>2, <2>3, <2>4, <2>5
<1>2. CASE OnModelObservation
  <2> DEFINE Seen == [controller EXCEPT !.obs_age = IF controller.discard THEN None ELSE 0]
             C(i) == [present |-> input_topic[i].message.present, start |-> Seen.started,
                      one_frame |-> TRUE]
  <2>1. PICK i \in DOMAIN input_topic :
          /\ input_topic' = Rest(input_topic, i)
          /\ controller' = [Seen EXCEPT !.discard = FALSE]
          /\ pwm_topic' = IF Seen.enabled THEN Publish(pwm_topic, C(i)) ELSE pwm_topic
          /\ UNCHANGED <<kind, base, control_topic, accepted>>
    BY <1>2 DEF OnModelObservation, Handle
  <2>2. kind = "model"
    BY <1>2 DEF OnModelObservation
  <2>3. /\ Seen.enabled = controller.enabled /\ Seen.started = controller.started
        /\ Seen.active = controller.active
        /\ Seen.obs_age = IF controller.discard THEN None ELSE 0
        /\ Seen \in Fields
    BY <1>c
  <2>4. C(i) \in Command /\ C(i).present = input_topic[i].message.present /\ C(i).one_frame
        /\ C(i).start = controller.started
    BY <1>c, <1>s, <2>3 DEF Command
  <2> HIDE DEF C, Seen
  <2>5. /\ controller'.active = controller.active /\ ~controller'.discard
        /\ controller'.enabled = controller.enabled
        /\ controller'.started = controller.started
        /\ controller'.obs_age = IF controller.discard THEN None ELSE 0
    BY <2>1, <2>3
  <2>6. FieldsInv' /\ TargetInv'
    BY <2>1, <2>2, <2>3 DEF FieldsInv, TargetInv
  <2>7. ModelInv'
    BY <2>1, <2>2, <2>5, Parameters DEF ModelInv
  <2>8. pwm_topic' # pwm_topic => controller.active /\ ~controller.discard
                                  /\ (base.active => controller.started)
    BY <2>1, <2>2, <2>3 DEF ModelInv
  <2> QED
    BY <2>1, <2>2, <2>4, <2>5, <2>6, <2>7, <2>8
<1>3. CASE OnOdometry
  <2> DEFINE Seen(i) == Latched(controller, input_topic[i].message)
             C(i) == [present |-> input_topic[i].message.present, start |-> FALSE,
                      one_frame |-> Seen(i).target = input_topic[i].message.odometry]
  <2>1. PICK i \in DOMAIN input_topic :
          /\ input_topic' = Rest(input_topic, i)
          /\ controller' = [Seen(i) EXCEPT !.discard = FALSE]
          /\ pwm_topic' = IF Released(Seen(i)) THEN Publish(pwm_topic, C(i)) ELSE pwm_topic
          /\ UNCHANGED <<kind, base, control_topic, accepted>>
    BY <1>3 DEF OnOdometry, Handle
  <2>2. kind = "cmg"
    BY <1>3 DEF OnOdometry
  <2>3. /\ Seen(i).active = controller.active /\ Seen(i).discard = controller.discard
        /\ Seen(i).session_id = input_topic[i].message.odometry
        /\ controller.active => Seen(i).target = input_topic[i].message.odometry
        /\ Seen(i) \in Fields
    BY <1>c, <1>s, <2>2 DEF Latched, TargetInv
  <2>4. C(i) \in Command /\ C(i).present = input_topic[i].message.present
        /\ (controller.active => C(i).one_frame)
    BY <1>s, <2>3 DEF Command
  <2> HIDE DEF C, Seen
  <2>5. FieldsInv' /\ TargetInv' /\ ModelInv' /\ controller'.active = controller.active
    BY <2>1, <2>2, <2>3 DEF FieldsInv, TargetInv, ModelInv
  <2>6. \/ pwm_topic' = pwm_topic
        \/ pwm_topic' = Publish(pwm_topic, C(i)) /\ controller.active /\ ~controller.discard
    BY <2>1, <2>3 DEF Released
  <2> QED
    BY <2>1, <2>2, <2>4, <2>5, <2>6
<1> QED
  BY <1>1, <1>2, <1>3

\* What the model controller does by itself.
LEMMA ModelEffect ==
  ASSUME FieldsInv, TargetInv, ModelInv,
         StartModel \/ StopModel \/ SafetyTick \/ RivalSeen
  PROVE  /\ UNCHANGED <<kind, base, topics, accepted>>
         /\ FieldsInv' /\ TargetInv' /\ ModelInv'
         /\ controller'.active = controller.active /\ controller'.discard = controller.discard
<1> USE Parameters
<1> USE DEF Fields
<1>c. controller \in Fields
      /\ base.active \in BOOLEAN
  BY DEF FieldsInv
<1>d. ASSUME controller' = Disabled(controller)
      PROVE  /\ controller'.active = controller.active /\ controller'.discard = controller.discard
             /\ ~controller'.enabled /\ controller'.obs_age = controller.obs_age
             /\ controller'.target = controller.target
             /\ controller'.session_id = controller.session_id
             /\ controller' \in Fields
  BY <1>c, <1>d DEF Disabled
<1>1. CASE StartModel
  <2>1. /\ controller'.active = controller.active /\ controller'.discard = controller.discard
        /\ controller'.obs_age = controller.obs_age /\ controller'.started = base.active
        /\ controller'.target = controller.target
        /\ controller'.session_id = controller.session_id
        /\ controller' \in Fields
    BY <1>1, <1>c DEF StartModel
  <2> QED
    BY <1>1, <2>1 DEF StartModel, FieldsInv, TargetInv, ModelInv
<1>2. ASSUME controller' = Disabled(controller), UNCHANGED <<kind, base, topics, accepted>>
      PROVE  /\ FieldsInv' /\ TargetInv' /\ ModelInv'
             /\ controller'.active = controller.active
             /\ controller'.discard = controller.discard
  BY <1>2, <1>d DEF FieldsInv, TargetInv, ModelInv
<1>3. CASE SafetyTick
  <2>1. CASE controller' = Disabled(controller)
    BY <1>2, <1>3, <2>1 DEF SafetyTick
  <2>2. CASE controller' # Disabled(controller)
    <3>1. controller' = [controller EXCEPT !.obs_age = @ + 1] /\ controller.obs_age # None
      BY <1>3, <2>2 DEF SafetyTick
    <3>2. /\ controller'.active = controller.active /\ controller'.discard = controller.discard
          /\ controller'.enabled = controller.enabled
          /\ controller'.started = controller.started
          /\ controller.obs_age \in Nat /\ controller'.obs_age \in Nat
          /\ controller'.target = controller.target
          /\ controller'.session_id = controller.session_id
          /\ controller' \in Fields
      BY <1>c, <3>1
    <3> QED
      BY <1>3, <3>1, <3>2 DEF SafetyTick, FieldsInv, TargetInv, ModelInv
  <2> QED
    BY <2>1, <2>2
<1> QED
  BY <1>1, <1>2, <1>3 DEF StartModel, StopModel, SafetyTick, RivalSeen

\* What an edge, or the word that nothing changed, does to each controller.
LEMMA EdgeEffect ==
  ASSUME FieldsInv, TopicsInv, TargetInv, ModelInv, OnControlActive
  PROVE  \E i \in DOMAIN control_topic :
           /\ control_topic' = Rest(control_topic, i)
           /\ UNCHANGED <<kind, base, input_topic, pwm_topic, accepted>>
           /\ FieldsInv' /\ TargetInv' /\ ModelInv'
           /\ controller'.active = control_topic[i].message
           /\ controller'.active /\ (controller.active => controller.discard) =>
                controller'.discard
<1> USE Parameters
<1> USE DEF Fields
<1>c. controller \in Fields
  BY DEF FieldsInv
<1>1. PICK i \in DOMAIN control_topic :
        /\ control_topic' = Rest(control_topic, i)
        /\ controller' = CASE kind = "policy" -> AfterEdge(controller, control_topic[i].message)
                          [] kind = "model" -> ModelEdge(controller, control_topic[i].message)
                          [] kind = "cmg" -> CmgEdge(controller, control_topic[i].message)
        /\ UNCHANGED <<kind, base, input_topic, pwm_topic, accepted>>
  BY DEF OnControlActive
<1>2. control_topic[i].message \in BOOLEAN
  BY TopicMessage DEF TopicsInv
<1> DEFINE active == control_topic[i].message
           edge == AfterEdge(controller, active)
<1> HIDE DEF active
<1>3. /\ active \in BOOLEAN
      /\ edge.active = active
      /\ edge.discard = (active /\ (controller.discard \/ ~controller.active))
      /\ edge.enabled = controller.enabled /\ edge.obs_age = controller.obs_age
      /\ edge.started = controller.started /\ edge.session_id = controller.session_id
      /\ edge.target = controller.target
      /\ edge \in Fields
  BY <1>c, <1>2 DEF AfterEdge, active
<1>4. CASE kind = "policy"
  <2>1. controller' = edge
    BY <1>1, <1>4 DEF active
  <2> HIDE DEF edge
  <2> QED
    BY <1>1, <1>3, <1>4, <2>1 DEF FieldsInv, TargetInv, ModelInv, active
<1>5. CASE kind = "model"
  <2>1. controller' = ModelEdge(controller, active)
    BY <1>1, <1>5 DEF active
  <2> HIDE DEF edge
  <2>2. /\ controller'.active = active /\ controller'.discard = edge.discard
        /\ controller'.obs_age = IF active /\ controller.active THEN controller.obs_age ELSE None
        /\ controller'.enabled = (active /\ controller.enabled)
        /\ active => controller'.started = controller.started
        /\ controller' \in Fields
    <3>1. CASE active
      BY <1>3, <2>1, <3>1, <1>c DEF ModelEdge, edge
    <3>2. CASE ~active
      BY <1>3, <2>1, <3>2, <1>c DEF ModelEdge, Disabled, edge
    <3> QED
      BY <3>1, <3>2
  <2> QED
    BY <1>1, <1>3, <1>5, <2>2 DEF FieldsInv, TargetInv, ModelInv, active
<1>6. CASE kind = "cmg"
  <2>1. controller' = CmgEdge(controller, active)
    BY <1>1, <1>6 DEF active
  <2>2. /\ controller'.active = active /\ controller'.discard = edge.discard
        /\ controller'.target = IF active /\ ~controller.active THEN None ELSE controller.target
        /\ controller'.session_id = controller.session_id
        /\ controller' \in Fields
    BY <1>3, <2>1 DEF CmgEdge
  <2> HIDE DEF edge
  <2> QED
    BY <1>1, <1>3, <1>6, <2>2 DEF FieldsInv, TargetInv, ModelInv, active
<1> QED
  BY <1>4, <1>5, <1>6 DEF FieldsInv

-----------------------------------------------------------------------------
(* Controllers: steps.                                                     *)

\* A sample taken, with or without a command.
LEMMA SampleStep ==
  ASSUME AcceptedInv, Lag <= 2,
         OnObservation \/ OnModelObservation \/ OnOdometry
  PROVE  AcceptedInv'
<1> USE Parameters
<1>1. PICK i \in DOMAIN input_topic, command \in Command :
        /\ input_topic' = Rest(input_topic, i)
        /\ UNCHANGED <<kind, base, control_topic, accepted>>
        /\ FieldsInv' /\ TargetInv' /\ ModelInv'
        /\ controller'.active = controller.active
        /\ \/ pwm_topic' = pwm_topic
           \/ /\ pwm_topic' = Publish(pwm_topic, command)
              /\ controller.active /\ ~controller.discard
              /\ command.present = input_topic[i].message.present
              /\ command.one_frame
              /\ base.active /\ kind = "model" => command.start
  BY HandledEffect DEF AcceptedInv
<1>2. /\ control_topic \in Topic(BOOLEAN) /\ Ordered(control_topic)
      /\ input_topic \in Topic([present : BOOLEAN, odometry : Nat]) /\ Ordered(input_topic)
      /\ pwm_topic \in Topic(Command)
  BY DEF AcceptedInv, TopicsInv
<1>3. /\ input_topic' \in Topic([present : BOOLEAN, odometry : Nat]) /\ Ordered(input_topic')
      /\ \A k \in DOMAIN input_topic' :
           /\ k + i \in DOMAIN input_topic /\ k + i > i
           /\ input_topic'[k] = input_topic[k + i]
  BY <1>1, <1>2, RestTopic
<1>4. /\ pwm_topic' \in Topic(Command)
      /\ \A k \in DOMAIN pwm_topic' :
           \/ k \in DOMAIN pwm_topic /\ pwm_topic'[k] = pwm_topic[k]
           \/ /\ controller.active /\ ~controller.discard
              /\ pwm_topic'[k].message = command /\ pwm_topic'[k].age = 0
              /\ command.present = input_topic[i].message.present
              /\ command.one_frame
              /\ base.active /\ kind = "model" => command.start
  <2>1. CASE pwm_topic' = pwm_topic
    BY <1>2, <2>1
  <2>2. CASE pwm_topic' = Publish(pwm_topic, command)
    BY <1>1, <1>2, <2>2, PublishTopic
  <2> QED
    BY <1>1, <2>1, <2>2
<1>5. TopicsInv'
  BY <1>1, <1>2, <1>3, <1>4 DEF TopicsInv
<1>6. EndedInv'
  <2> SUFFICES ASSUME ~base.active PROVE EndedInv'
    BY <1>1 DEF EndedInv
  <2>1. ASSUME NEW k \in DOMAIN pwm_topic'
        PROVE  base.idle <= pwm_topic'[k].age + Lag + 1
    <3>1. CASE k \in DOMAIN pwm_topic /\ pwm_topic'[k] = pwm_topic[k]
      BY <3>1 DEF AcceptedInv, EndedInv
    <3>2. CASE controller.active /\ pwm_topic'[k].age = 0
      <4>1. base.idle \in Nat
        BY DEF AcceptedInv, FieldsInv
      <4>2. ASSUME base.idle >= 1 PROVE base.idle <= Lag + 1
        <5>1. PICK j \in DOMAIN control_topic : control_topic[j].age = base.idle - 1
          BY <3>2, <4>2 DEF AcceptedInv, EndedInv, Believing
        <5>2. control_topic[j].age \in 0 .. Lag
          BY <1>2, TopicMessage
        <5> QED
          BY <4>1, <5>1, <5>2
      <4> QED
        BY <3>2, <4>1, <4>2
    <3> QED
      BY <1>4, <3>1, <3>2
  <2> QED
    BY <1>1, <2>1 DEF AcceptedInv, EndedInv, Believing
<1>7. BegunInv'
  <2> SUFFICES ASSUME base.active, ~base.published PROVE BegunInv'
    BY <1>1 DEF BegunInv
  <2>1. ~controller.active
    BY DEF AcceptedInv, BegunInv
  <2> QED
    BY <1>1, <2>1 DEF AcceptedInv, BegunInv
<1>8. EnabledInv'
  <2> SUFFICES ASSUME OutputEnabled PROVE EnabledInv'
    BY <1>1 DEF EnabledInv, OutputEnabled
  <2>1. base.active
    BY DEF OutputEnabled
  <2>2. ASSUME controller.active, NEW k \in DOMAIN input_topic',
               ~input_topic'[k].message.present
        PROVE  FALSE
    <3>1. /\ k + i \in DOMAIN input_topic /\ k + i > i
          /\ ~input_topic[k + i].message.present
      BY <1>3, <2>2
    <3>2. input_topic[k + i].age >= 2
      BY <2>2, <3>1 DEF AcceptedInv, EnabledInv
    <3>3. input_topic[i].age > input_topic[k + i].age
      BY <1>2, <3>1 DEF Ordered
    <3>4. input_topic[i].age \in 0 .. Lag /\ input_topic[k + i].age \in 0 .. Lag
      BY <1>2, <3>1, TopicMessage
    <3> QED
      BY <3>2, <3>3, <3>4
  <2>3. ASSUME NEW k \in DOMAIN input_topic', ~input_topic'[k].message.present
        PROVE  /\ input_topic'[k].age >= 1
               /\ controller.active \/ (\E j \in DOMAIN control_topic : control_topic[j].message)
                    => input_topic'[k].age >= 2
    BY <1>3, <2>3 DEF AcceptedInv, EnabledInv
  <2>4. ASSUME NEW k \in DOMAIN pwm_topic'
        PROVE  /\ pwm_topic'[k].message.present
               /\ kind = "model" => pwm_topic'[k].message.start
    <3>1. CASE k \in DOMAIN pwm_topic /\ pwm_topic'[k] = pwm_topic[k]
      BY <3>1 DEF AcceptedInv, EnabledInv
    <3>2. CASE /\ controller.active /\ ~controller.discard
               /\ pwm_topic'[k].message = command
               /\ command.present = input_topic[i].message.present
               /\ base.active /\ kind = "model" => command.start
      BY <2>1, <3>2 DEF AcceptedInv, EnabledInv
    <3> QED
      BY <1>4, <3>1, <3>2
  <2> QED
    BY <1>1, <2>2, <2>3, <2>4 DEF EnabledInv
<1>9. CommandsInv'
  BY <1>4 DEF AcceptedInv, CommandsInv
<1>10. AcceptedIsLive'
  BY <1>1 DEF AcceptedInv, AcceptedIsLive
<1> QED
  BY <1>1, <1>5, <1>6, <1>7, <1>8, <1>9, <1>10 DEF AcceptedInv

\* The model controller by itself publishes nothing and does not change what it believes.
LEMMA ModelStep ==
  ASSUME AcceptedInv, StartModel \/ StopModel \/ SafetyTick \/ RivalSeen
  PROVE  AcceptedInv'
<1>1. /\ UNCHANGED <<kind, base, topics, accepted>>
      /\ FieldsInv' /\ TargetInv' /\ ModelInv'
      /\ controller'.active = controller.active /\ controller'.discard = controller.discard
  BY ModelEffect DEF AcceptedInv
<1> QED
  BY <1>1
  DEF AcceptedInv, topics, TopicsInv, EndedInv, Believing, BegunInv, EnabledInv, OutputEnabled,
      CommandsInv, AcceptedIsLive

\* A message of control taken.
LEMMA EdgeStep == ASSUME AcceptedInv, OnControlActive PROVE AcceptedInv'
<1> USE Parameters
<1>1. PICK i \in DOMAIN control_topic :
        /\ control_topic' = Rest(control_topic, i)
        /\ UNCHANGED <<kind, base, input_topic, pwm_topic, accepted>>
        /\ FieldsInv' /\ TargetInv' /\ ModelInv'
        /\ controller'.active = control_topic[i].message
        /\ controller'.active /\ (controller.active => controller.discard) => controller'.discard
  BY EdgeEffect DEF AcceptedInv
<1>2. control_topic \in Topic(BOOLEAN) /\ Ordered(control_topic)
  BY DEF AcceptedInv, TopicsInv
<1>3. /\ control_topic' \in Topic(BOOLEAN) /\ Ordered(control_topic')
      /\ \A k \in DOMAIN control_topic' :
           /\ k + i \in DOMAIN control_topic /\ k + i > i
           /\ control_topic'[k] = control_topic[k + i]
      /\ \A k \in DOMAIN control_topic : k > i =>
           k - i \in DOMAIN control_topic' /\ control_topic'[k - i] = control_topic[k]
  BY <1>1, <1>2, RestTopic
<1>4. TopicsInv'
  BY <1>1, <1>3 DEF AcceptedInv, TopicsInv
<1>5. EndedInv'
  <2> SUFFICES ASSUME ~base.active PROVE EndedInv'
    BY <1>1 DEF EndedInv
  <2>1. \A k \in DOMAIN control_topic :
          control_topic[k].message => control_topic[k].age >= base.idle
    BY DEF AcceptedInv, EndedInv
  <2>2. ASSUME Believing', base.idle >= 1
        PROVE  \E k \in DOMAIN control_topic' : control_topic'[k].age = base.idle - 1
    <3>1. PICK j \in DOMAIN control_topic : control_topic[j].message /\ j >= i
      <4>1. CASE controller'.active
        <5>1. i \in Nat
          BY <1>2 DEF Topic
        <5>2. i >= i /\ control_topic[i].message
          BY <1>1, <4>1, <5>1
        <5> QED
          BY <5>2
      <4>2. CASE \E k \in DOMAIN control_topic' : control_topic'[k].message
        BY <1>2, <1>3, <4>2 DEF Topic
      <4> QED
        BY <2>2, <4>1, <4>2 DEF Believing
    <3>2. PICK w \in DOMAIN control_topic : control_topic[w].age = base.idle - 1
      BY <2>2, <3>1 DEF AcceptedInv, EndedInv, Believing
    <3>3. control_topic[j].age >= base.idle /\ base.idle \in Nat
      BY <2>1, <3>1 DEF AcceptedInv, FieldsInv
    <3>4. w > j
      <4>1. w \in Nat /\ j \in Nat /\ control_topic[j].age \in Nat
        BY <1>2, TopicMessage DEF Topic
      <4> QED
        BY <1>2, <3>2, <3>3, <4>1 DEF Ordered
    <3>5. w > i
      BY <1>2, <3>1, <3>4 DEF Topic
    <3> QED
      BY <1>3, <3>2, <3>5
  <2> QED
    BY <1>1, <1>3, <2>1, <2>2 DEF AcceptedInv, EndedInv
<1>6. BegunInv'
  <2> SUFFICES ASSUME base.active, ~base.published PROVE BegunInv'
    BY <1>1 DEF BegunInv
  <2> QED
    BY <1>1, <1>3 DEF AcceptedInv, BegunInv
<1>7. EnabledInv'
  <2> SUFFICES ASSUME OutputEnabled PROVE EnabledInv'
    BY <1>1 DEF EnabledInv, OutputEnabled
  <2>1. (\E j \in DOMAIN control_topic' : control_topic'[j].message) \/ controller'.active
          => \E j \in DOMAIN control_topic : control_topic[j].message
    BY <1>1, <1>3
  <2>2. ASSUME NEW k \in DOMAIN input_topic, ~input_topic[k].message.present
        PROVE  /\ input_topic[k].age >= 1
               /\ controller'.active \/ (\E j \in DOMAIN control_topic' : control_topic'[j].message)
                    => input_topic[k].age >= 2
               /\ controller'.active => controller'.discard
    <3>1. /\ input_topic[k].age >= 1
          /\ (\E j \in DOMAIN control_topic : control_topic[j].message) => input_topic[k].age >= 2
          /\ controller.active => controller.discard
      BY <2>2 DEF AcceptedInv, EnabledInv
    <3> QED
      BY <1>1, <2>1, <3>1
  <2> QED
    BY <1>1, <2>2 DEF AcceptedInv, EnabledInv
<1>8. CommandsInv' /\ AcceptedIsLive'
  BY <1>1 DEF AcceptedInv, CommandsInv, AcceptedIsLive
<1> QED
  BY <1>1, <1>4, <1>5, <1>6, <1>7, <1>8 DEF AcceptedInv

\* A command taken: what passes is of the session that runs.
LEMMA PwmStep == ASSUME AcceptedInv, OnPwm PROVE AcceptedInv'
<1>1. PICK i \in DOMAIN pwm_topic :
        /\ pwm_topic' = Rest(pwm_topic, i)
        /\ accepted' = IF OutputEnabled THEN pwm_topic[i].message ELSE accepted
        /\ UNCHANGED <<kind, base, controller, control_topic, input_topic>>
  BY DEF OnPwm
<1>2. /\ pwm_topic' \in Topic(Command)
      /\ \A k \in DOMAIN pwm_topic' :
           k + i \in DOMAIN pwm_topic /\ pwm_topic'[k] = pwm_topic[k + i]
  BY <1>1, RestTopic DEF AcceptedInv, TopicsInv
<1>3. AcceptedIsLive'
  BY <1>1 DEF AcceptedInv, EnabledInv, CommandsInv, AcceptedIsLive
<1> QED
  BY <1>1, <1>2, <1>3
  DEF AcceptedInv, FieldsInv, TopicsInv, TargetInv, ModelInv, EndedInv, Believing, BegunInv,
      EnabledInv, OutputEnabled, CommandsInv

\* A sample thrown away.
LEMMA BadInputStep == ASSUME AcceptedInv, OnBadInput PROVE AcceptedInv'
<1> USE Parameters
<1>1. PICK i \in DOMAIN input_topic :
        /\ input_topic' = Rest(input_topic, i)
        /\ controller' = CASE kind = "policy" -> controller
                          [] kind = "model" -> Disabled(controller)
                          [] kind = "cmg" -> Latched(controller, input_topic[i].message)
        /\ UNCHANGED <<kind, base, control_topic, pwm_topic, accepted>>
  BY DEF OnBadInput
<1>2. controller \in Fields /\ input_topic[i].message \in [present : BOOLEAN, odometry : Nat]
  BY TopicMessage DEF AcceptedInv, FieldsInv, TopicsInv
<1>3. /\ controller'.active = controller.active /\ controller'.discard = controller.discard
      /\ FieldsInv' /\ TargetInv' /\ ModelInv'
  <2> DEFINE sample == input_topic[i].message
  <2> HIDE DEF sample
  <2>1. CASE kind = "policy"
    BY <1>1, <2>1 DEF AcceptedInv, FieldsInv, TargetInv, ModelInv
  <2>2. CASE kind = "model"
    <3>1. controller' = Disabled(controller)
      BY <1>1, <2>2
    <3>2. /\ controller'.active = controller.active /\ controller'.discard = controller.discard
          /\ controller'.obs_age = controller.obs_age /\ ~controller'.enabled
          /\ controller' \in Fields
      BY <1>2, <3>1 DEF Disabled, Fields
    <3> QED
      BY <1>1, <2>2, <3>2 DEF AcceptedInv, FieldsInv, TargetInv, ModelInv
  <2>3. CASE kind = "cmg"
    <3>1. controller' = Latched(controller, sample) /\ sample \in [present : BOOLEAN, odometry : Nat]
      BY <1>1, <1>2, <2>3 DEF sample
    <3>2. /\ controller'.active = controller.active /\ controller'.discard = controller.discard
          /\ controller'.session_id = sample.odometry
          /\ controller.active => controller'.target = sample.odometry
          /\ controller' \in Fields
      BY <1>2, <2>3, <3>1 DEF Latched, Fields, AcceptedInv, TargetInv
    <3> QED
      BY <1>1, <2>3, <3>2 DEF AcceptedInv, FieldsInv, TargetInv, ModelInv
  <2> QED
    BY <2>1, <2>2, <2>3 DEF AcceptedInv, FieldsInv
<1>4. /\ input_topic' \in Topic([present : BOOLEAN, odometry : Nat]) /\ Ordered(input_topic')
      /\ \A k \in DOMAIN input_topic' :
           k + i \in DOMAIN input_topic /\ input_topic'[k] = input_topic[k + i]
  BY <1>1, RestTopic DEF AcceptedInv, TopicsInv
<1> QED
  BY <1>1, <1>3, <1>4
  DEF AcceptedInv, TopicsInv, EndedInv, Believing, BegunInv, EnabledInv, OutputEnabled,
      CommandsInv, AcceptedIsLive

\* A controller that starts again has heard of nothing.
LEMMA RestartStep == ASSUME AcceptedInv, Restart PROVE AcceptedInv'
<1>1. /\ controller' = NewController
      /\ control_topic' = <<>> /\ input_topic' = <<>>
      /\ UNCHANGED <<kind, base, pwm_topic, accepted>>
  BY DEF Restart
<1>2. DOMAIN control_topic' = {} /\ DOMAIN input_topic' = {}
  BY <1>1
<1>3. TopicsInv'
  BY <1>1, <1>2 DEF AcceptedInv, TopicsInv, Topic, Ordered
<1>4. FieldsInv' /\ TargetInv' /\ ModelInv'
  BY <1>1, NewFields DEF AcceptedInv, FieldsInv, TargetInv, ModelInv
<1>5. ~controller'.active
  BY <1>1, NewFields
<1> QED
  BY <1>1, <1>2, <1>3, <1>4, <1>5
  DEF AcceptedInv, EndedInv, Believing, BegunInv, EnabledInv, OutputEnabled, CommandsInv,
      AcceptedIsLive

\* START: control was off for longer than its last messages can wait.
LEMMA StartStep ==
  ASSUME AcceptedInv, Start, MinGap > 2 * Lag, MinGap > Lag + 1
  PROVE  AcceptedInv'
<1> USE Parameters
<1>1. /\ ~base.active /\ base.idle = MinGap
      /\ base'.active /\ ~base'.published /\ base'.alive = base.alive
      /\ base'.idle = base.idle /\ base'.odometry = base.odometry
      /\ base' \in [alive : BOOLEAN, active : BOOLEAN, published : BOOLEAN,
                    idle : 0 .. MinGap, odometry : Nat]
      /\ UNCHANGED <<kind, controller, topics, accepted>>
  BY DEF Start, AcceptedInv, FieldsInv
<1>2. ~Believing
  <2> SUFFICES ASSUME Believing PROVE FALSE
    OBVIOUS
  <2>1. PICK j \in DOMAIN control_topic : control_topic[j].age = MinGap - 1
    BY <1>1 DEF AcceptedInv, EndedInv
  <2>2. control_topic[j].age \in 0 .. Lag
    BY TopicMessage DEF AcceptedInv, TopicsInv
  <2> QED
    BY <2>1, <2>2
<1>3. BegunInv'
  <2>1. ASSUME NEW k \in DOMAIN pwm_topic PROVE pwm_topic[k].age >= Lag
    <3>1. MinGap <= pwm_topic[k].age + Lag + 1
      BY <1>1 DEF AcceptedInv, EndedInv
    <3>2. pwm_topic[k].age \in 0 .. Lag
      BY TopicMessage DEF AcceptedInv, TopicsInv
    <3> QED
      BY <3>1, <3>2
  <2> QED
    BY <1>1, <1>2, <2>1 DEF BegunInv, Believing, topics
<1>4. ModelInv'
  BY <1>1, <1>2 DEF AcceptedInv, ModelInv, Believing
<1> QED
  BY <1>1, <1>3, <1>4
  DEF AcceptedInv, FieldsInv, TopicsInv, TargetInv, EndedInv, EnabledInv, OutputEnabled,
      CommandsInv, AcceptedIsLive, topics

\* A command of the past keeps its age.
LEMMA PastCommand ==
  ASSUME NEW m \in Command, NEW a, NEW e, e = [message |-> m, age |-> a], NEW past,
         past = [e EXCEPT !.message.present = FALSE, !.message.start = FALSE]
  PROVE  past = [message |-> [m EXCEPT !.present = FALSE, !.start = FALSE], age |-> a]
BY DEF Command

\* The end of a session: what waits is of the past from now on.
LEMMA EndStep ==
  ASSUME AcceptedInv, NEW next,
         next \in [alive : BOOLEAN, active : BOOLEAN, published : BOOLEAN,
                   idle : 0 .. MinGap, odometry : Nat],
         EndSession(next)
  PROVE  AcceptedInv'
<1> USE Parameters
<1> DEFINE Samples == [present : BOOLEAN, odometry : Nat]
<1>1. /\ ~base'.active /\ ~base'.published /\ base'.idle = 0
      /\ base' \in [alive : BOOLEAN, active : BOOLEAN, published : BOOLEAN,
                    idle : 0 .. MinGap, odometry : Nat]
  <2>1. base' = [next EXCEPT !.active = FALSE, !.published = FALSE, !.idle = 0]
    BY DEF EndSession
  <2>2. 0 \in 0 .. MinGap
    OBVIOUS
  <2> QED
    BY <2>1, <2>2
<1>2. /\ controller'.active = controller.active /\ controller'.discard = controller.discard
      /\ controller'.enabled = controller.enabled
      /\ controller'.obs_age = controller.obs_age
      /\ controller'.target = controller.target
      /\ controller'.session_id = controller.session_id
      /\ controller' \in Fields
  BY DEF EndSession, Fields, AcceptedInv, FieldsInv
<1>3. /\ UNCHANGED <<kind, control_topic, accepted>>
      /\ control_topic \in Topic(BOOLEAN) /\ Ordered(control_topic)
      /\ input_topic \in Topic(Samples) /\ Ordered(input_topic)
      /\ pwm_topic \in Topic(Command)
  BY DEF EndSession, AcceptedInv, TopicsInv
<1>4. input_topic' \in Topic(Samples) /\ Ordered(input_topic')
  <2>1. /\ DOMAIN input_topic' = DOMAIN input_topic
        /\ input_topic' = [k \in DOMAIN input_topic' |-> input_topic'[k]]
        /\ \A k \in DOMAIN input_topic :
             input_topic'[k] = [input_topic[k] EXCEPT !.message.present = FALSE]
    BY DEF EndSession
  <2>2. \A k \in DOMAIN input_topic :
          /\ input_topic'[k] = [message |-> input_topic'[k].message, age |-> input_topic'[k].age]
          /\ input_topic'[k].message \in Samples /\ input_topic'[k].age = input_topic[k].age
    <3> SUFFICES ASSUME NEW k \in DOMAIN input_topic
                 PROVE  /\ input_topic'[k] = [message |-> input_topic'[k].message,
                                              age |-> input_topic'[k].age]
                        /\ input_topic'[k].message \in Samples
                        /\ input_topic'[k].age = input_topic[k].age
      OBVIOUS
    <3> DEFINE m == input_topic[k].message
               a == input_topic[k].age
    <3>1. input_topic[k] = [message |-> m, age |-> a] /\ m \in Samples
      <4> HIDE DEF Samples
      <4> QED
        BY <1>3, TopicMessage
    <3> HIDE DEF m, a
    <3>2. input_topic'[k] = [message |-> [m EXCEPT !.present = FALSE], age |-> a]
      BY <2>1, <3>1
    <3>3. [m EXCEPT !.present = FALSE] \in Samples
      BY <3>1
    <3> QED
      BY <3>1, <3>2, <3>3
  <2> HIDE DEF Samples
  <2> QED
    BY <1>3, <2>1, <2>2, RewrittenTopic
<1>5. /\ pwm_topic' \in Topic(Command) /\ DOMAIN pwm_topic' = DOMAIN pwm_topic
      /\ \A k \in DOMAIN pwm_topic :
           /\ pwm_topic'[k].age = pwm_topic[k].age
           /\ pwm_topic'[k].message.one_frame = pwm_topic[k].message.one_frame
  <2>1. /\ DOMAIN pwm_topic' = DOMAIN pwm_topic
        /\ pwm_topic' = [k \in DOMAIN pwm_topic' |-> pwm_topic'[k]]
        /\ \A k \in DOMAIN pwm_topic :
             pwm_topic'[k] = [pwm_topic[k] EXCEPT !.message.present = FALSE,
                                                  !.message.start = FALSE]
    BY DEF EndSession
  <2> HIDE DEF Samples
  <2>2. \A k \in DOMAIN pwm_topic :
          /\ pwm_topic'[k] = [message |-> pwm_topic'[k].message, age |-> pwm_topic'[k].age]
          /\ pwm_topic'[k].message \in Command /\ pwm_topic'[k].age = pwm_topic[k].age
          /\ pwm_topic'[k].message.one_frame = pwm_topic[k].message.one_frame
    <3> SUFFICES ASSUME NEW k \in DOMAIN pwm_topic
                 PROVE  /\ pwm_topic'[k] = [message |-> pwm_topic'[k].message,
                                            age |-> pwm_topic'[k].age]
                        /\ pwm_topic'[k].message \in Command
                        /\ pwm_topic'[k].age = pwm_topic[k].age
                        /\ pwm_topic'[k].message.one_frame = pwm_topic[k].message.one_frame
      OBVIOUS
    <3> DEFINE m == pwm_topic[k].message
               a == pwm_topic[k].age
    <3>1. pwm_topic[k] = [message |-> m, age |-> a] /\ m \in Command
      BY <1>3, TopicMessage
    <3> HIDE DEF m, a
    <3> DEFINE gone == [m EXCEPT !.present = FALSE, !.start = FALSE]
    <3>2. pwm_topic'[k] = [message |-> gone, age |-> a]
      BY <2>1, <3>1, PastCommand
    <3>3. gone \in Command /\ gone.one_frame = m.one_frame
      BY <3>1 DEF Command
    <3> HIDE DEF gone
    <3> QED
      BY <3>1, <3>2, <3>3
  <2>3. pwm_topic' \in Topic(Command)
    <3> DEFINE after == pwm_topic'
    <3>1. /\ DOMAIN after = DOMAIN pwm_topic
          /\ \A k \in DOMAIN pwm_topic :
               /\ after[k] = [message |-> after[k].message, age |-> after[k].age]
               /\ after[k].message \in Command /\ after[k].age = pwm_topic[k].age
          /\ after = [k \in DOMAIN after |-> after[k]]
      BY <2>1, <2>2
    <3> HIDE DEF after
    <3>2. after \in Topic(Command)
      BY <1>3, <3>1, RewrittenTopic
    <3> QED
      BY <3>2 DEF after
  <2> QED
    BY <2>1, <2>2, <2>3
<1>6. FieldsInv' /\ TopicsInv'
  BY <1>1, <1>2, <1>3, <1>4, <1>5 DEF AcceptedInv, FieldsInv, TopicsInv
<1>7. TargetInv' /\ ModelInv'
  BY <1>1, <1>2, <1>3 DEF AcceptedInv, TargetInv, ModelInv
<1>8. EndedInv'
  <2>1. \A k \in DOMAIN control_topic : control_topic[k].age >= 0
    BY <1>3, TopicMessage
  <2>2. \A k \in DOMAIN pwm_topic : 0 <= pwm_topic[k].age + Lag + 1
    BY <1>3, TopicMessage
  <2> QED
    BY <1>1, <1>3, <1>5, <2>1, <2>2 DEF EndedInv
<1>9. BegunInv' /\ EnabledInv'
  BY <1>1 DEF BegunInv, EnabledInv, OutputEnabled
<1>10. CommandsInv' /\ AcceptedIsLive'
  BY <1>3, <1>5 DEF AcceptedInv, CommandsInv, AcceptedIsLive
<1> QED
  BY <1>6, <1>7, <1>8, <1>9, <1>10 DEF AcceptedInv

\* Odometry begins anew, under control or not.
LEMMA OdometryStep == ASSUME AcceptedInv, NewOdometrySession PROVE AcceptedInv'
<1> DEFINE next == [base EXCEPT !.odometry = @ + 1]
<1>1. /\ next \in [alive : BOOLEAN, active : BOOLEAN, published : BOOLEAN,
                   idle : 0 .. MinGap, odometry : Nat]
      /\ next.active = base.active /\ next.published = base.published /\ next.idle = base.idle
  BY DEF AcceptedInv, FieldsInv
<1>2. CASE base.active
  <2>1. EndSession(next)
    BY <1>2 DEF NewOdometrySession
  <2> HIDE DEF next
  <2> QED
    BY <1>1, <2>1, EndStep
<1>3. CASE ~base.active
  <2>1. base' = next /\ UNCHANGED <<kind, controller, topics, accepted>>
    BY <1>3 DEF NewOdometrySession
  <2> HIDE DEF next
  <2> QED
    BY <1>1, <2>1
    DEF AcceptedInv, FieldsInv, TopicsInv, TargetInv, ModelInv, EndedInv, Believing, BegunInv,
        EnabledInv, OutputEnabled, CommandsInv, AcceptedIsLive, topics
<1> QED
  BY <1>2, <1>3

\* A tick makes what waits older and says whether control is enabled.
LEMMA TickStep ==
  ASSUME AcceptedInv, Tick, MinGap > Lag + 1
  PROVE  AcceptedInv'
<1> USE Parameters
<1> DEFINE Samples == [present : BOOLEAN, odometry : Nat]
<1>1. /\ control_topic \in Topic(BOOLEAN) /\ Ordered(control_topic) /\ InTime(control_topic)
      /\ input_topic \in Topic(Samples) /\ Ordered(input_topic) /\ InTime(input_topic)
      /\ pwm_topic \in Topic(Command) /\ InTime(pwm_topic)
  BY DEF AcceptedInv, TopicsInv, Tick
<1>2. base \in [alive : BOOLEAN, active : BOOLEAN, published : BOOLEAN,
                idle : 0 .. MinGap, odometry : Nat]
  BY DEF AcceptedInv, FieldsInv
<1>3. PICK new \in BOOLEAN :
        /\ input_topic' =
             IF new THEN Publish(Older(input_topic), [present |-> base.active,
                                                      odometry |-> base.odometry])
             ELSE Older(input_topic)
        /\ base' = [base EXCEPT !.published = base.active /\ (@ \/ new),
                                !.idle = IF base.active \/ @ = MinGap THEN @ ELSE @ + 1]
  BY DEF Tick
<1>4. /\ base' \in [alive : BOOLEAN, active : BOOLEAN, published : BOOLEAN,
                    idle : 0 .. MinGap, odometry : Nat]
      /\ base'.active = base.active
      /\ base'.published = (base.active /\ (base.published \/ new))
      /\ base'.idle = IF base.active \/ base.idle = MinGap THEN base.idle ELSE base.idle + 1
  <2> DEFINE published == base.active /\ (base.published \/ new)
             idle == IF base.active \/ base.idle = MinGap THEN base.idle ELSE base.idle + 1
  <2>1. published \in BOOLEAN /\ idle \in 0 .. MinGap
    BY <1>2
  <2>2. base' = [base EXCEPT !.published = published, !.idle = idle]
    BY <1>3
  <2> HIDE DEF published, idle
  <2>3. /\ base' \in [alive : BOOLEAN, active : BOOLEAN, published : BOOLEAN,
                      idle : 0 .. MinGap, odometry : Nat]
        /\ base'.active = base.active /\ base'.published = published /\ base'.idle = idle
    BY <1>2, <2>1, <2>2
  <2> QED
    BY <2>3 DEF published, idle
<1>5. UNCHANGED <<kind, controller, accepted>>
      /\ control_topic' = Publish(Older(control_topic), OutputEnabled)
      /\ pwm_topic' = Older(pwm_topic)
  BY DEF Tick
<1>6. OutputEnabled \in BOOLEAN
  BY DEF OutputEnabled
<1>7. /\ control_topic' \in Topic(BOOLEAN) /\ Ordered(control_topic')
      /\ \A k \in DOMAIN control_topic' :
           \/ /\ k \in DOMAIN control_topic
              /\ control_topic'[k].message = control_topic[k].message
              /\ control_topic'[k].age = control_topic[k].age + 1
           \/ control_topic'[k].message = OutputEnabled /\ control_topic'[k].age = 0
      /\ \A k \in DOMAIN control_topic :
           k \in DOMAIN control_topic' /\ control_topic'[k].age = control_topic[k].age + 1
      /\ \E k \in DOMAIN control_topic' : control_topic'[k].age = 0
  <2> DEFINE older == Older(control_topic)
  <2>1. /\ older \in Topic(BOOLEAN) /\ DOMAIN older = DOMAIN control_topic /\ Ordered(older)
        /\ \A k \in DOMAIN control_topic :
             /\ older[k].message = control_topic[k].message
             /\ older[k].age = control_topic[k].age + 1 /\ control_topic[k].age \in Nat
    BY <1>1, OlderTopic
  <2>2. \A k \in DOMAIN older : older[k].age >= 1
    BY <2>1
  <2> HIDE DEF older
  <2> DEFINE next == Publish(older, OutputEnabled)
  <2>3. /\ next \in Topic(BOOLEAN) /\ Ordered(next)
        /\ \A k \in DOMAIN next : \/ k \in DOMAIN older /\ next[k] = older[k]
                                  \/ next[k].message = OutputEnabled /\ next[k].age = 0
        /\ \A k \in DOMAIN older : k \in DOMAIN next /\ next[k] = older[k]
        /\ \E k \in DOMAIN next : next[k].age = 0
    BY <1>6, <2>1, <2>2, PublishTopic
  <2>4. control_topic' = next
    BY <1>5 DEF older
  <2> HIDE DEF next
  <2> QED
    BY <2>1, <2>3, <2>4
<1>8. /\ input_topic' \in Topic(Samples) /\ Ordered(input_topic')
      /\ \A k \in DOMAIN input_topic' :
           \/ /\ k \in DOMAIN input_topic
              /\ input_topic'[k].message = input_topic[k].message
              /\ input_topic'[k].age = input_topic[k].age + 1 /\ input_topic[k].age \in Nat
           \/ new /\ (base.active => input_topic'[k].message.present)
  <2> DEFINE older == Older(input_topic)
             sample == [present |-> base.active, odometry |-> base.odometry]
  <2>0. sample \in Samples /\ (base.active => sample.present)
    BY <1>2
  <2> HIDE DEF Samples, sample
  <2>1. /\ older \in Topic(Samples) /\ DOMAIN older = DOMAIN input_topic /\ Ordered(older)
        /\ \A k \in DOMAIN input_topic :
             /\ older[k].message = input_topic[k].message
             /\ older[k].age = input_topic[k].age + 1 /\ input_topic[k].age \in Nat
    BY <1>1, OlderTopic
  <2>2. \A k \in DOMAIN older : older[k].age >= 1
    BY <2>1
  <2> HIDE DEF older
  <2> DEFINE next == Publish(older, sample)
  <2>3. /\ next \in Topic(Samples) /\ Ordered(next)
        /\ \A k \in DOMAIN next : \/ k \in DOMAIN older /\ next[k] = older[k]
                                  \/ next[k].message = sample
    BY <2>0, <2>1, <2>2, PublishTopic
  <2>4. input_topic' = IF new THEN next ELSE older
    BY <1>3 DEF older, sample
  <2> HIDE DEF next
  <2> QED
    BY <2>0, <2>1, <2>3, <2>4
<1>9. /\ pwm_topic' \in Topic(Command) /\ DOMAIN pwm_topic' = DOMAIN pwm_topic
      /\ \A k \in DOMAIN pwm_topic :
           /\ pwm_topic'[k].message = pwm_topic[k].message
           /\ pwm_topic'[k].age = pwm_topic[k].age + 1
           /\ pwm_topic[k].age \in Nat /\ pwm_topic[k].age < Lag
  BY <1>1, <1>5, OlderTopic
<1>10. FieldsInv' /\ TopicsInv' /\ TargetInv' /\ ModelInv'
  BY <1>4, <1>5, <1>7, <1>8, <1>9
  DEF AcceptedInv, FieldsInv, TopicsInv, TargetInv, ModelInv
<1>11. EndedInv'
  <2> SUFFICES ASSUME ~base.active PROVE EndedInv'
    BY <1>4 DEF EndedInv
  <2>0. ~OutputEnabled /\ base.idle \in Nat /\ base'.idle <= base.idle + 1 /\ base'.idle \in Nat
    BY <1>2, <1>4 DEF OutputEnabled
  <2>1. ASSUME NEW k \in DOMAIN control_topic', control_topic'[k].message
        PROVE  control_topic'[k].age >= base'.idle
    <3>1. /\ k \in DOMAIN control_topic
          /\ control_topic[k].message
          /\ control_topic'[k].age = control_topic[k].age + 1
      BY <1>7, <2>0, <2>1
    <3>2. control_topic[k].age >= base.idle /\ control_topic[k].age \in 0 .. Lag
      BY <1>1, <3>1, TopicMessage DEF AcceptedInv, EndedInv
    <3> QED
      BY <2>0, <3>1, <3>2
  <2>2. ASSUME Believing', base'.idle >= 1
        PROVE  \E k \in DOMAIN control_topic' : control_topic'[k].age = base'.idle - 1
    <3>1. Believing
      BY <1>5, <1>7, <2>0, <2>2 DEF Believing
    <3>2. CASE base.idle = 0
      BY <1>4, <1>7, <2>2, <3>2
    <3>3. CASE base.idle >= 1
      <4>1. PICK j \in DOMAIN control_topic : control_topic[j].age = base.idle - 1
        BY <3>1, <3>3 DEF AcceptedInv, EndedInv
      <4>2. control_topic[j].age \in 0 .. Lag
        BY <1>1, TopicMessage
      <4>3. base.idle # MinGap
        BY <4>1, <4>2
      <4>4. base'.idle = base.idle + 1
        BY <1>4, <4>3
      <4>5. j \in DOMAIN control_topic' /\ control_topic'[j].age = control_topic[j].age + 1
        BY <1>7
      <4> QED
        BY <2>0, <4>1, <4>4, <4>5
    <3> QED
      BY <2>0, <3>2, <3>3
  <2>3. ASSUME NEW k \in DOMAIN pwm_topic
        PROVE  base'.idle <= pwm_topic'[k].age + Lag + 1
    <3>1. base.idle <= pwm_topic[k].age + Lag + 1
      BY DEF AcceptedInv, EndedInv
    <3> QED
      BY <1>9, <2>0, <3>1
  <2> QED
    BY <1>9, <2>1, <2>2, <2>3 DEF EndedInv
<1>12. ASSUME base.active, ~base.published
       PROVE  /\ \A k \in DOMAIN control_topic' : ~control_topic'[k].message
              /\ ~controller.active
              /\ DOMAIN pwm_topic' = {}
  <2>1. ~OutputEnabled
    BY <1>12 DEF OutputEnabled
  <2>2. \A k \in DOMAIN control_topic' : ~control_topic'[k].message
    BY <1>7, <1>12, <2>1 DEF AcceptedInv, BegunInv
  <2>3. DOMAIN pwm_topic' = {}
    <3> SUFFICES ASSUME NEW k \in DOMAIN pwm_topic PROVE FALSE
      BY <1>9
    <3>1. pwm_topic[k].age >= Lag
      BY <1>12 DEF AcceptedInv, BegunInv
    <3> QED
      BY <1>9, <3>1
  <2> QED
    BY <1>12, <2>2, <2>3 DEF AcceptedInv, BegunInv
<1>13. BegunInv'
  BY <1>4, <1>5, <1>12 DEF BegunInv
<1>14. EnabledInv'
  <2> SUFFICES ASSUME base.active, base.published \/ new PROVE EnabledInv'
    BY <1>4 DEF EnabledInv, OutputEnabled
  <2>1. CASE ~base.published
    <3>1. ASSUME NEW k \in DOMAIN input_topic', ~input_topic'[k].message.present
          PROVE  input_topic'[k].age >= 1
      BY <1>8, <3>1
    <3> QED
      BY <1>5, <1>12, <2>1, <3>1 DEF EnabledInv
  <2>2. CASE base.published
    <3>1. OutputEnabled
      BY <2>2 DEF OutputEnabled
    <3>2. ASSUME NEW k \in DOMAIN input_topic', ~input_topic'[k].message.present
          PROVE  input_topic'[k].age >= 2 /\ (controller.active => controller.discard)
      <4>1. /\ k \in DOMAIN input_topic /\ ~input_topic[k].message.present
            /\ input_topic'[k].age = input_topic[k].age + 1 /\ input_topic[k].age \in Nat
        BY <1>8, <3>2
      <4>2. input_topic[k].age >= 1 /\ (controller.active => controller.discard)
        BY <3>1, <4>1 DEF AcceptedInv, EnabledInv
      <4> QED
        BY <4>1, <4>2
    <3>3. ASSUME NEW k \in DOMAIN input_topic', ~input_topic'[k].message.present
          PROVE  input_topic'[k].age >= 1
      <4>1. input_topic'[k].age >= 2 /\ input_topic'[k].age \in Nat
        <5>1. input_topic'[k].age = input_topic[k].age + 1 /\ input_topic[k].age \in Nat
          BY <1>8, <3>3
        <5> QED
          BY <3>2, <3>3, <5>1
      <4> QED
        BY <4>1
    <3>4. \A k \in DOMAIN pwm_topic' :
            pwm_topic'[k].message.present /\ (kind = "model" => pwm_topic'[k].message.start)
      BY <1>9, <3>1 DEF AcceptedInv, EnabledInv
    <3> QED
      BY <1>5, <3>2, <3>3, <3>4 DEF EnabledInv
  <2> QED
    BY <1>2, <2>1, <2>2
<1>15. CommandsInv' /\ AcceptedIsLive'
  BY <1>5, <1>9 DEF AcceptedInv, CommandsInv, AcceptedIsLive
<1> QED
  BY <1>10, <1>11, <1>13, <1>14, <1>15 DEF AcceptedInv

\* Initially nothing waits and the controller is off.
LEMMA AcceptedInit == ControllersInit => AcceptedInv
<1> SUFFICES ASSUME ControllersInit PROVE AcceptedInv
  OBVIOUS
<1> USE Parameters
<1>1. /\ control_topic = <<>> /\ input_topic = <<>> /\ pwm_topic = <<>>
      /\ controller = NewController /\ kind \in Kinds /\ accepted = None
      /\ base = [alive |-> TRUE, active |-> FALSE, published |-> FALSE, idle |-> MinGap,
                 odometry |-> 1]
  BY DEF ControllersInit
<1>2. FieldsInv /\ TargetInv /\ ModelInv
  <2>1. MinGap \in 0 .. MinGap /\ kind \in {"policy", "model", "cmg"}
    BY <1>1, ControllersAssumption
  <2> QED
    BY <1>1, <2>1, NewFields DEF FieldsInv, TargetInv, ModelInv
<1>3. TopicsInv
  BY <1>1 DEF TopicsInv, Topic, Ordered
<1>4. EndedInv /\ BegunInv /\ EnabledInv /\ CommandsInv
  BY <1>1, NewFields DEF EndedInv, Believing, BegunInv, EnabledInv, OutputEnabled, CommandsInv
<1> QED
  BY <1>1, <1>2, <1>3, <1>4 DEF AcceptedInv, AcceptedIsLive

\* Every step, one lemma per group of actions.
LEMMA AcceptedStep ==
  ASSUME Lag <= 2, MinGap > 2 * Lag, MinGap > Lag + 1
  PROVE  AcceptedInv /\ [ControllersNext]_controllersvars => AcceptedInv'
<1> SUFFICES ASSUME AcceptedInv, [ControllersNext]_controllersvars PROVE AcceptedInv'
  OBVIOUS
<1>1. CASE Stop
  <2>1. EndSession(base) /\ base \in [alive : BOOLEAN, active : BOOLEAN, published : BOOLEAN,
                                      idle : 0 .. MinGap, odometry : Nat]
    BY <1>1 DEF Stop, AcceptedInv, FieldsInv
  <2> QED
    BY <2>1, EndStep
<1>2. CASE BaseDies
  <2> DEFINE next == [base EXCEPT !.alive = FALSE]
  <2>1. EndSession(next) /\ next \in [alive : BOOLEAN, active : BOOLEAN, published : BOOLEAN,
                                      idle : 0 .. MinGap, odometry : Nat]
    BY <1>2 DEF BaseDies, AcceptedInv, FieldsInv
  <2> HIDE DEF next
  <2> QED
    BY <2>1, EndStep
<1>3. CASE UNCHANGED controllersvars
  BY <1>3
  DEF controllersvars, topics, AcceptedInv, FieldsInv, TopicsInv, TargetInv, ModelInv, EndedInv,
      Believing, BegunInv, EnabledInv, OutputEnabled, CommandsInv, AcceptedIsLive
<1> QED
  BY <1>1, <1>2, <1>3, TickStep, StartStep, OdometryStep, PwmStep, EdgeStep, SampleStep,
     BadInputStep, ModelStep, RestartStep
  DEF ControllersNext

\* Whatever the interleaving of the two topics, and however often control ends, odometry
\* begins anew or a controller is restarted, what obs_node passes on was computed from a
\* sample of the present session (policy_node.py, model_based_controller_node.py,
\* cmg_policy_node.py: the discard rule; obs_node.py: _on_pwm).
THEOREM AcceptedCommandsAreLive ==
  ASSUME Lag <= 2, MinGap > 2 * Lag, MinGap > Lag + 1
  PROVE  ControllersSpec => []AcceptedIsLive
<1>1. AcceptedInv => AcceptedIsLive
  BY DEF AcceptedInv
<1> QED
  BY <1>1, AcceptedInit, AcceptedStep, PTL DEF ControllersSpec
=============================================================================
