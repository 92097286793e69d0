--------------------------- MODULE InterfaceProofs ---------------------------
(***************************************************************************)
(* Proofs about RealRobotInterface: what it borrows of the autopilot       *)
(* (Passthrough), for every set of servos and cameras and every number of  *)
(* processes, and what it makes of the autopilot's telemetry (Telemetry),  *)
(* for every setting of the tracker's limits that fits the link.           *)
(***************************************************************************)
EXTENDS Passthrough, Telemetry, TLAPS

-----------------------------------------------------------------------------
(* Passthrough *)

\* Two settings with the same values are equal.
LEMMA SettingEqual ==
  ASSUME NEW f \in Setting, NEW g \in Setting, \A p \in Params : f[p] = g[p]
  PROVE  f = g
BY DEF Setting

\* An operation that runs has a process and a backup; an enabling one has set what it has
\* left behind; the word that pass-through is held is given at rest.
HeldInv ==
  /\ TypeOK
  /\ job # "none" => exit = "running" /\ backup # NoBackup
  /\ job = "enable" => \A p \in Params \ todo : fc[p] = "set"
  /\ held => job = "none" /\ fc = Borrowed

\* Initially nothing is borrowed.
LEMMA HeldInit == Init => HeldInv
<1> SUFFICES ASSUME Init PROVE HeldInv
  OBVIOUS
<1>1. fc \in Setting /\ found \in Setting
  BY DEF Init, Native, Setting, Value
<1>2. enables \in 0..MaxEnables /\ runs \in 1..MaxRuns
  BY RunsAssumption DEF Init
<1> QED
  BY <1>1, <1>2 DEF Init, HeldInv, TypeOK

\* HeldInv is inductive: one step per action.
LEMMA HeldStep == HeldInv /\ [Next]_ptvars => HeldInv'
<1> SUFFICES ASSUME HeldInv, [Next]_ptvars PROVE HeldInv'
  OBVIOUS
<1> USE BackupAssumption, RunsAssumption
<1>1. CASE EnableUnread
  BY <1>1 DEF EnableUnread, EnableCall, HeldInv, TypeOK, call
<1>2. CASE EnableBegin
  <2>1. enables' \in 0..MaxEnables
    BY <1>2 DEF EnableBegin, EnableCall, HeldInv, TypeOK
  <2>2. backup' \in Setting /\ backup' # NoBackup
    BY <1>2 DEF EnableBegin, Originals, HeldInv, TypeOK
  <2> QED
    BY <1>2, <2>1, <2>2 DEF EnableBegin, EnableCall, Run, HeldInv, TypeOK
<1>3. CASE SetVerified
  <2>1. PICK p \in NextToSet :
          fc' = [fc EXCEPT ![p] = "set"] /\ todo' = todo \ {p}
    BY <1>3 DEF SetVerified
  <2>2. p \in Params
    BY <2>1 DEF HeldInv, TypeOK, NextToSet
  <2>3. fc' \in Setting
    BY <2>1, <2>2 DEF HeldInv, TypeOK, Setting, Value
  <2>4. \A q \in Params \ todo' : fc'[q] = "set"
    BY <1>3, <2>1, <2>2 DEF SetVerified, HeldInv, TypeOK, Setting
  <2> QED
    BY <1>3, <2>1, <2>3, <2>4
    DEF SetVerified, Within, counters, HeldInv, TypeOK
<1>4. CASE SetUnverified
  <2>1. PICK p \in NextToSet : fc' \in {fc, [fc EXCEPT ![p] = "set"]}
    BY <1>4 DEF SetUnverified
  <2>2. fc' \in Setting
    BY <2>1 DEF HeldInv, TypeOK, NextToSet, Setting, Value
  <2> QED
    BY <1>4, <2>2 DEF SetUnverified, Run, Within, counters, HeldInv, TypeOK
<1>5. CASE EnableEnd
  <2>1. fc = Borrowed
    BY <1>5, SettingEqual DEF EnableEnd, HeldInv, TypeOK, Borrowed, Setting, Value
  <2> QED
    BY <1>5, <2>1 DEF EnableEnd, Rest, Within, counters, HeldInv, TypeOK, Borrowed
<1>6. CASE CloseBegin
  BY <1>6 DEF CloseBegin, Run, Rest, counters, HeldInv, TypeOK
<1>7. CASE CloseSkipped
  BY <1>7 DEF CloseSkipped, Rest, counters, HeldInv, TypeOK
<1>8. CASE RestoreVerified
  <2>1. PICK p \in NextToRestore :
          fc' = [fc EXCEPT ![p] = backup[p]] /\ todo' = todo \ {p}
    BY <1>8 DEF RestoreVerified
  <2>2. fc' \in Setting
    BY <1>8, <2>1
    DEF RestoreVerified, Restoring, HeldInv, TypeOK, NextToRestore, Setting
  <2> QED
    BY <1>8, <2>1, <2>2
    DEF RestoreVerified, Restoring, Within, counters, HeldInv, TypeOK
<1>9. CASE RestoreUnverified
  <2>1. PICK p \in NextToRestore :
          /\ fc' \in {fc, [fc EXCEPT ![p] = backup[p]]}
          /\ todo' = todo \ {p}
    BY <1>9 DEF RestoreUnverified
  <2>2. fc' \in Setting
    BY <1>9, <2>1
    DEF RestoreUnverified, Restoring, HeldInv, TypeOK, NextToRestore, Setting
  <2> QED
    BY <1>9, <2>1, <2>2
    DEF RestoreUnverified, Restoring, Within, counters, HeldInv, TypeOK
<1>10. CASE RestoreEnd
  BY <1>10 DEF RestoreEnd, Restoring, Rest, counters, HeldInv, TypeOK
<1>11. CASE RestoreRaises
  <2>1. PICK p \in todo : fc' \in {fc, [fc EXCEPT ![p] = backup[p]]}
    BY <1>11 DEF RestoreRaises
  <2>2. fc' \in Setting
    BY <1>11, <2>1 DEF RestoreRaises, Restoring, HeldInv, TypeOK, Setting
  <2> QED
    BY <1>11, <2>2 DEF RestoreRaises, Restoring, Rest, counters, HeldInv, TypeOK
<1>12. CASE Crash
  BY <1>12 DEF Crash, Rest, counters, HeldInv, TypeOK
<1>13. CASE Start
  <2>1. runs' \in 1..MaxRuns /\ enables' \in 0..MaxEnables
    BY <1>13 DEF Start, HeldInv, TypeOK
  <2> QED
    BY <1>13, <2>1 DEF Start, call, HeldInv, TypeOK
<1>14. CASE UNCHANGED ptvars
  BY <1>14 DEF ptvars, call, counters, HeldInv, TypeOK
<1> QED
  BY <1>1, <1>2, <1>3, <1>4, <1>5, <1>6, <1>7, <1>8, <1>9, <1>10, <1>11,
     <1>12, <1>13, <1>14
  DEF Next, EnableStep, RestoreStep

\* Every variable keeps its type.
THEOREM PassthroughTypes == Spec => []TypeOK
<1>1. HeldInv => TypeOK
  BY DEF HeldInv
<1> QED
  BY <1>1, HeldInit, HeldStep, PTL DEF Spec

\* After enable_passthrough returned normally every borrowed parameter stays
\* set until the process begins to give them back.
THEOREM PassthroughIsHeld == Spec => []PassthroughHeld
<1>1. HeldInv => PassthroughHeld
  BY DEF HeldInv, PassthroughHeld
<1> QED
  BY <1>1, HeldInit, HeldStep, PTL DEF Spec

-----------------------------------------------------------------------------
\* With one enable_passthrough per process, the backup is what the process met,
\* and without a backup nothing is borrowed.
LoanInv ==
  /\ exit = "running" /\ enables = 0 => job = "none" /\ backup = NoBackup
  /\ exit = "running" => backup \in {found, NoBackup}
  /\ exit = "running" /\ backup = NoBackup => fc = found
  /\ Restoring /\ ~failed => \A p \in Params \ todo : fc[p] = backup[p]
  /\ exit = "clean" => fc = found

\* Initially the process has borrowed nothing.
LEMMA LoanInit == Init => LoanInv
BY DEF Init, LoanInv, Restoring

\* LoanInv is inductive next to HeldInv: one step per action.
LEMMA LoanStep ==
  ASSUME MaxEnables = 1
  PROVE  HeldInv /\ LoanInv /\ [Next]_ptvars => LoanInv'
<1> SUFFICES ASSUME HeldInv, LoanInv, [Next]_ptvars PROVE LoanInv'
  OBVIOUS
<1> USE DEF Restoring
<1>1. CASE EnableUnread
  BY <1>1 DEF EnableUnread, EnableCall, HeldInv, TypeOK, LoanInv, call
<1>2. CASE EnableBegin
  BY <1>2 DEF EnableBegin, EnableCall, Originals, Run, HeldInv, TypeOK, LoanInv
<1>3. CASE SetVerified
  BY <1>3 DEF SetVerified, Within, counters, HeldInv, LoanInv
<1>4. CASE SetUnverified
  BY <1>4 DEF SetUnverified, Run, Within, counters, HeldInv, LoanInv
<1>5. CASE EnableEnd
  BY <1>5 DEF EnableEnd, Rest, Within, counters, HeldInv, LoanInv
<1>6. CASE CloseBegin
  BY <1>6 DEF CloseBegin, Run, Rest, counters, HeldInv, LoanInv
<1>7. CASE CloseSkipped
  BY <1>7 DEF CloseSkipped, Rest, counters, HeldInv, LoanInv
<1>8. CASE RestoreVerified
  <2>1. PICK p \in NextToRestore :
          fc' = [fc EXCEPT ![p] = backup[p]] /\ todo' = todo \ {p}
    BY <1>8 DEF RestoreVerified
  <2>2. ~failed' => \A q \in Params \ todo' : fc'[q] = backup'[q]
    BY <1>8, <2>1 DEF RestoreVerified, HeldInv, TypeOK, LoanInv, Setting
  <2> QED
    BY <1>8, <2>2 DEF RestoreVerified, Within, counters, HeldInv, LoanInv
<1>9. CASE RestoreUnverified
  BY <1>9 DEF RestoreUnverified, Within, counters, HeldInv, LoanInv
<1>10. CASE RestoreEnd
  <2>1. ~failed => fc = backup
    BY <1>10, SettingEqual DEF RestoreEnd, HeldInv, TypeOK, LoanInv
  <2> QED
    BY <1>10, <2>1 DEF RestoreEnd, Rest, counters, HeldInv, LoanInv
<1>11. CASE RestoreRaises
  BY <1>11 DEF RestoreRaises, Rest, counters, HeldInv, LoanInv
<1>12. CASE Crash
  BY <1>12 DEF Crash, Rest, counters, HeldInv, LoanInv
<1>13. CASE Start
  BY <1>13 DEF Start, call, HeldInv, LoanInv
<1>14. CASE UNCHANGED ptvars
  BY <1>14 DEF ptvars, call, counters, LoanInv
<1> QED
  BY <1>1, <1>2, <1>3, <1>4, <1>5, <1>6, <1>7, <1>8, <1>9, <1>10, <1>11,
     <1>12, <1>13, <1>14
  DEF Next, EnableStep, RestoreStep

\* A process that borrows once, as obs_node does, can always give back what it
\* changed, whichever sets, read-backs or rollbacks failed.
THEOREM LoanIsRecoverable ==
  ASSUME MaxEnables = 1 PROVE Spec => []Recoverable
<1>1. HeldInv /\ LoanInv => Recoverable
  BY DEF LoanInv, Recoverable
<1> QED
  BY <1>1, HeldInit, HeldStep, LoanInit, LoanStep, PTL DEF Spec

\* Such a process leaves the parameters it met whenever close() reports no
\* error.
THEOREM CleanCloseRestores ==
  ASSUME MaxEnables = 1 PROVE Spec => []CleanExitRestores
<1>1. HeldInv /\ LoanInv => CleanExitRestores
  BY DEF LoanInv, CleanExitRestores
<1> QED
  BY <1>1, HeldInit, HeldStep, LoanInit, LoanStep, PTL DEF Spec

-----------------------------------------------------------------------------
(* Telemetry: the types, and the arithmetic of a clock that wraps *)

-----------------------------------------------------------------------------
(* Telemetry *)

\* A remainder is determined by the quotient.
LEMMA ModUnique ==
  ASSUME NEW m \in Nat \ {0}, NEW x \in Nat, NEW q \in Nat, NEW r \in 0 .. m - 1,
         x = m * q + r
  PROVE  x % m = r
OBVIOUS

\* The range of a remainder.
LEMMA ModRange ==
  ASSUME NEW m \in Nat \ {0}, NEW x \in Nat
  PROVE  /\ x % m \in 0 .. m - 1 /\ x % m <= x
         /\ x < m => x % m = x
OBVIOUS

\* A clock modulo m that advances by less than m wraps at most once.
LEMMA ModStep ==
  ASSUME NEW m \in Nat \ {0}, NEW x \in Nat, NEW k \in 0 .. m - 1
  PROVE  (x + k) % m = IF (x % m) + k < m THEN (x % m) + k ELSE (x % m) + k - m
<1> DEFINE q == x \div m
           r == x % m
<1>1. q \in Nat /\ r \in 0 .. m - 1 /\ x = m * q + r
  OBVIOUS
<1> HIDE DEF q, r
<1>2. CASE r + k < m
  <2>1. x + k = m * q + (r + k)
    BY <1>1
  <2> QED
    BY <1>1, <1>2, <2>1, ModUnique DEF r
<1>3. CASE r + k >= m
  <2>1. m * (q + 1) = m * q + m
    BY <1>1
  <2>2. x + k = m * (q + 1) + (r + k - m)
    BY <1>1, <2>1
  <2>3. r + k - m \in 0 .. m - 1 /\ q + 1 \in Nat /\ x + k \in Nat
    BY <1>1, <1>3
  <2>4. (x + k) % m = r + k - m
    BY <2>2, <2>3, ModUnique
  <2> QED
    BY <1>1, <1>3, <2>4 DEF r
<1> QED
  BY <1>1, <1>2, <1>3

\* The same, for two readings of one clock.
LEMMA ModLater ==
  ASSUME NEW m \in Nat \ {0}, NEW x \in Nat, NEW y \in Nat, x <= y, y - x < m
  PROVE  \/ y % m = (x % m) + (y - x)
         \/ y % m = (x % m) + (y - x) - m /\ (x % m) + (y - x) >= m
<1> DEFINE k == y - x
<1>1. k \in 0 .. m - 1 /\ y = x + k
  OBVIOUS
<1>2. (x + k) % m = IF (x % m) + k < m THEN (x % m) + k ELSE (x % m) + k - m
  BY <1>1, ModStep
<1> HIDE DEF k
<1>3. y % m = IF (x % m) + k < m THEN (x % m) + k ELSE (x % m) + k - m
  BY <1>1, <1>2
<1>4. (x % m) \in Int
  BY ModRange
<1> QED
  BY <1>1, <1>3, <1>4 DEF k

\* A factor of at least one.
LEMMA Scaled ==
  ASSUME NEW c \in Nat \ {0}, NEW k \in Nat
  PROVE  c * k \in Nat /\ c * k >= k
OBVIOUS

\* A product grows with its factor.
LEMMA ScaledLess ==
  ASSUME NEW c \in Nat \ {0}, NEW k \in Nat, NEW n \in Nat, k <= n
  PROVE  c * k <= c * n
OBVIOUS

\* The constants, one by one.
LEMMA Limits ==
  /\ Streams = {Att, Pos} /\ Att # Pos
  /\ Modulus \in Nat \ {0} /\ WrapWindow \in Nat \ {0} /\ 2 * WrapWindow < Modulus
  /\ ClockSlack \in Nat \ {0} /\ ReorderTolerance \in Nat
  /\ ConfirmationWindow \in Nat /\ CandidateMaxBoot \in Nat
  /\ CandidateSkew \in Nat /\ MaxForwardJump \in Nat
  /\ MaxGap \in Nat /\ JumpMaxDt \in Nat /\ MaxAge \in Nat /\ SkewMax \in Nat
  /\ MinUptime \in Nat
BY BootTimeAssumption, TelemetryAssumption DEF Att, Pos

\* Late bounds every delay.
LEMMA LateBounds ==
  /\ Late \in Nat /\ Late >= 1
  /\ \A s \in Streams : Delay[s] \in Nat /\ Delay[s] <= Late
BY TelemetryAssumption DEF Late, Att, Pos

-----------------------------------------------------------------------------
\* The tracker with the candidates that have not expired.
LEMMA UnexpiredFields ==
  ASSUME NEW t \in Tracker, NEW rx \in Nat
  PROVE  LET u == Unexpired(t, rx)
         IN /\ u \in Tracker
            /\ u.last = t.last /\ u.anchor = t.anchor /\ u.resets = t.resets
            /\ u.wraps = t.wraps /\ u.lastWrap = t.lastWrap
BY DEF Unexpired, Tracker

\* The tracker that takes a sample.
LEMMA TakenFields ==
  ASSUME NEW t \in Tracker, NEW s \in Streams, NEW boot \in BootTimes, NEW rx \in Nat
  PROVE  LET u == Unexpired(t, rx)
             w == Taken(t, s, boot, rx)
         IN /\ w \in Tracker
            /\ w.last = [t.last EXCEPT ![s] = [boot |-> boot, rx |-> rx]]
            /\ w.candidates = [u.candidates EXCEPT ![s] = None]
            /\ w.anchor = t.anchor /\ w.resets = t.resets
            /\ w.wraps = t.wraps /\ w.lastWrap = t.lastWrap
<1> DEFINE u == Unexpired(t, rx)
           z == [boot |-> boot, rx |-> rx]
           w == Taken(t, s, boot, rx)
<1>1. /\ u \in Tracker
      /\ u.last = t.last /\ u.anchor = t.anchor /\ u.resets = t.resets
      /\ u.wraps = t.wraps /\ u.lastWrap = t.lastWrap
  BY UnexpiredFields
<1>2. z \in Sample
  BY DEF Sample
<1>3. w = [u EXCEPT !.last[s] = z, !.candidates[s] = None]
  BY DEF Taken
<1>4. /\ w.last = [u.last EXCEPT ![s] = z]
      /\ w.candidates = [u.candidates EXCEPT ![s] = None]
      /\ w.anchor = u.anchor /\ w.resets = u.resets
      /\ w.wraps = u.wraps /\ w.lastWrap = u.lastWrap
      /\ w = [last |-> w.last, candidates |-> w.candidates, anchor |-> w.anchor,
              resets |-> w.resets, wraps |-> w.wraps, lastWrap |-> w.lastWrap]
  BY <1>1, <1>3 DEF Tracker
<1> HIDE DEF w, u, z
<1>5. /\ w.last \in [Streams -> Sample \cup {None}]
      /\ w.candidates \in [Streams -> Sample \cup {None}]
  BY <1>1, <1>2, <1>4 DEF Tracker
<1>6. w \in Tracker
  BY <1>1, <1>4, <1>5 DEF Tracker
<1> QED
  BY <1>1, <1>4, <1>6 DEF w, u, z

\* What observe does to each part of the tracker.
LEMMA Observed ==
  ASSUME NEW t \in Tracker, NEW s \in Streams, NEW boot \in BootTimes, NEW rx \in Nat,
         NEW d, d = Disposition(t, s, boot, rx),
         NEW o, o = Observe(t, s, boot, rx)
  PROVE  /\ o \in Tracker
         /\ d \in {"accept", "wrap", "reset", "reset_candidate", "drop_reordered"}
         /\ \A r \in Streams :
              /\ o.last[r] = IF Accepted(d) /\ r = s THEN [boot |-> boot, rx |-> rx]
                             ELSE IF d = "reset" THEN None ELSE t.last[r]
              /\ o.candidates[r] =
                   IF d = "reset_candidate" /\ r = s THEN [boot |-> boot, rx |-> rx]
                   ELSE IF d = "reset" \/ (Accepted(d) /\ r = s) THEN None
                   ELSE Unexpired(t, rx).candidates[r]
         /\ o.anchor = IF d = "reset" THEN [boot |-> boot, rx |-> rx] ELSE t.anchor
         /\ o.resets = IF d = "reset" THEN t.resets + 1 ELSE t.resets
         /\ d # "wrap" => o.wraps = t.wraps /\ o.lastWrap = t.lastWrap
         /\ d = "wrap" =>
              LET again == t.lastWrap # None /\ rx - t.lastWrap <= ConfirmationWindow
              IN /\ o.wraps = IF again THEN t.wraps ELSE t.wraps + 1
                 /\ o.lastWrap = IF again THEN t.lastWrap ELSE rx
<1> DEFINE u == Unexpired(t, rx)
           z == [boot |-> boot, rx |-> rx]
<1>1. u \in Tracker
      /\ u.last = t.last /\ u.anchor = t.anchor /\ u.resets = t.resets
      /\ u.wraps = t.wraps /\ u.lastWrap = t.lastWrap
  BY UnexpiredFields
<1>2. z \in Sample
  BY DEF Sample
<1>3. d \in {"accept", "wrap", "reset", "reset_candidate", "drop_reordered"}
  BY DEF Disposition
<1>4. CASE d = "accept"
  <2>1. /\ o \in Tracker
        /\ o.last = [t.last EXCEPT ![s] = z]
        /\ o.candidates = [u.candidates EXCEPT ![s] = None]
        /\ o.anchor = t.anchor /\ o.resets = t.resets
        /\ o.wraps = t.wraps /\ o.lastWrap = t.lastWrap
    BY <1>4, TakenFields DEF Observe
  <2> QED
    BY <1>1, <1>4, <2>1 DEF Accepted, Tracker
<1>5. CASE d = "wrap"
  <2> DEFINE w == Taken(t, s, boot, rx)
             again == t.lastWrap # None /\ rx - t.lastWrap <= ConfirmationWindow
             wraps == IF again THEN w.wraps ELSE w.wraps + 1
             lastWrap == IF again THEN w.lastWrap ELSE rx
  <2>1. o = [w EXCEPT !.wraps = wraps, !.lastWrap = lastWrap]
    BY <1>5 DEF Observe, TakenWrap
  <2>2. /\ w \in Tracker
        /\ w.last = [t.last EXCEPT ![s] = z]
        /\ w.candidates = [u.candidates EXCEPT ![s] = None]
        /\ w.anchor = t.anchor /\ w.resets = t.resets
        /\ w.wraps = t.wraps /\ w.lastWrap = t.lastWrap
    BY TakenFields
  <2>3. wraps \in Nat /\ lastWrap \in Nat \cup {None}
    BY <2>2 DEF Tracker
  <2>4. /\ o.last = w.last /\ o.candidates = w.candidates /\ o.anchor = w.anchor
        /\ o.resets = w.resets /\ o.wraps = wraps /\ o.lastWrap = lastWrap
        /\ o \in Tracker
    <3> HIDE DEF w, wraps, lastWrap
    <3> QED
      BY <2>1, <2>2, <2>3 DEF Tracker
  <2> HIDE DEF w
  <2> QED
    BY <1>1, <1>5, <2>2, <2>4 DEF Accepted, Tracker
<1>6. CASE d = "reset"
  <2>1. o = [t EXCEPT !.last = [r \in Streams |-> IF r = s THEN z ELSE None],
                      !.candidates = [r \in Streams |-> None],
                      !.anchor = z, !.resets = @ + 1]
    BY <1>6 DEF Observe, ConfirmedReset
  <2>2. /\ o.last = [r \in Streams |-> IF r = s THEN z ELSE None]
        /\ o.candidates = [r \in Streams |-> None]
        /\ o.anchor = z /\ o.resets = t.resets + 1
        /\ o.wraps = t.wraps /\ o.lastWrap = t.lastWrap
        /\ o = [last |-> o.last, candidates |-> o.candidates, anchor |-> o.anchor,
                resets |-> o.resets, wraps |-> o.wraps, lastWrap |-> o.lastWrap]
    BY <2>1 DEF Tracker
  <2>3. o \in Tracker
    BY <1>2, <2>2 DEF Tracker
  <2> QED
    BY <1>6, <2>2, <2>3 DEF Accepted
<1>7. CASE d = "reset_candidate"
  <2>1. o = [u EXCEPT !.candidates[s] = z]
    BY <1>7 DEF Observe, Suspected
  <2> QED
    BY <1>1, <1>2, <1>7, <2>1 DEF Tracker, Accepted
<1>8. CASE d = "drop_reordered"
  <2>1. o = u
    BY <1>8 DEF Observe
  <2> QED
    BY <1>1, <1>8, <2>1 DEF Tracker, Accepted
<1> QED
  BY <1>3, <1>4, <1>5, <1>6, <1>7, <1>8
\* The tracker stays a tracker.
LEMMA ObservedType ==
  ASSUME NEW t \in Tracker, NEW s \in Streams, NEW boot \in BootTimes, NEW rx \in Nat
  PROVE  Observe(t, s, boot, rx) \in Tracker
BY Observed

-----------------------------------------------------------------------------
\* The boot time that a packet carries fits the clock.
LEMMA BootTimeRange ==
  ASSUME NEW p \in Packet PROVE TimeBootMs(p) \in BootTimes
BY Limits, ModRange DEF TimeBootMs, BootTimes, Packet

\* The first sample of nothing.
LEMMA TelemetryTypeInit == TelemetryInit => TelemetryTypeOK
<1> SUFFICES ASSUME TelemetryInit PROVE TelemetryTypeOK
  OBVIOUS
<1>1. tracker \in Tracker
  BY DEF TelemetryInit, NewTracker, Tracker
<1>2. vehicle \in [boot : Nat, up : Nat, wraps : Nat, origin : Nat]
  BY TelemetryAssumption DEF TelemetryInit
<1> QED
  BY <1>1, <1>2 DEF TelemetryInit, TelemetryTypeOK, Timer, Nodes

\* The cache and the tracker keep their types.
LEMMA ReceiveTypes ==
  ASSUME TelemetryTypeOK, NEW p \in net, Receive(p) PROVE TelemetryTypeOK'
<1> DEFINE d == Disposition(tracker, p.stream, TimeBootMs(p), now)
           o == Observe(tracker, p.stream, TimeBootMs(p), now)
<1>1. /\ p \in Packet /\ p.stream \in Streams /\ now \in Nat
      /\ TimeBootMs(p) \in BootTimes /\ tracker \in Tracker
  BY BootTimeRange DEF TelemetryTypeOK, Packet
<1>2. tracker' = o /\ cache' = Stored(d, p) /\ fresh' = (fresh \/ Accepted(d))
  BY DEF Receive
<1>0. d = Disposition(tracker, p.stream, TimeBootMs(p), now)
      /\ o = Observe(tracker, p.stream, TimeBootMs(p), now)
  OBVIOUS
<1> HIDE DEF d, o
<1>3. o \in Tracker
  BY <1>0, <1>1, ObservedType
<1>4. cache' \in [Streams -> Cached \cup {None}]
  <2>1. [packet |-> p, rx |-> now] \in Cached
    BY <1>1 DEF Cached
  <2> QED
    BY <1>2, <2>1 DEF Stored, TelemetryTypeOK
<1>5. quiet' \in [Streams \cup {Timer} -> Nat] /\ net' \subseteq Packet
  BY DEF Receive, TelemetryTypeOK
<1>6. fresh' \in BOOLEAN
  <2>1. fresh \in BOOLEAN
    BY DEF TelemetryTypeOK
  <2> QED
    BY <1>2, <2>1, Zenon
<1> QED
  BY <1>2, <1>3, <1>4, <1>5, <1>6 DEF Receive, TelemetryTypeOK

\* A sample that is looked at is one of the types of the jump detector.
LEMMA DetectedType ==
  ASSUME TelemetryTypeOK, Snapshot
  PROVE  /\ Origin(Pos) \in Nat \X Nat /\ SampleTime \in Nat
         /\ Detected \in [raw : Nat \cup {None}, nav : Nat,
                          origin : (Nat \X Nat) \cup {None}, time : Nat, resets : Nat]
         /\ Detected.raw = tracker.resets /\ tracker.resets \in Nat
         /\ Detected.nav = (IF odom.raw # tracker.resets THEN 0
                            ELSE IF Jump THEN odom.nav + 1 ELSE odom.nav)
         /\ Detected.origin = Origin(Pos) /\ Detected.time = SampleTime
         /\ Session(Detected) = <<tracker.resets, Detected.nav>>
         /\ Session(Detected) \in Nat \X Nat
<1>1. Att \in Streams /\ Pos \in Streams
  BY Limits
<1>2. \A s \in Streams : cache[s] \in Cached
  BY DEF TelemetryTypeOK, Snapshot
<1>3. /\ cache[Att].rx \in Nat /\ cache[Pos].rx \in Nat
      /\ cache[Pos].packet.boot \in Nat /\ cache[Pos].packet.origin \in Nat
  BY <1>1, <1>2 DEF Cached, Packet
<1>4. Origin(Pos) \in Nat \X Nat /\ SampleTime \in Nat
  BY <1>3 DEF Origin, SampleTime
<1>5. tracker.resets \in Nat
  BY DEF TelemetryTypeOK, Tracker
<1> DEFINE nav == IF odom.raw # tracker.resets THEN 0
                  ELSE IF Jump THEN odom.nav + 1 ELSE odom.nav
<1>6. odom \in [raw : Nat \cup {None}, nav : Nat,
                origin : (Nat \X Nat) \cup {None}, time : Nat, resets : Nat]
  BY DEF TelemetryTypeOK
<1>7. nav \in Nat
  BY <1>6
<1>8. Detected = [odom EXCEPT !.raw = tracker.resets, !.nav = nav,
                              !.origin = Origin(Pos), !.time = SampleTime]
  BY DEF Detected
<1> HIDE DEF nav
<1>9. /\ Detected \in [raw : Nat \cup {None}, nav : Nat,
                       origin : (Nat \X Nat) \cup {None}, time : Nat, resets : Nat]
      /\ Detected.raw = tracker.resets /\ Detected.nav = nav
      /\ Detected.origin = Origin(Pos) /\ Detected.time = SampleTime
  BY <1>4, <1>5, <1>6, <1>7, <1>8
<1>10. Session(Detected) = <<tracker.resets, nav>>
  BY <1>9 DEF Session
<1> QED
  BY <1>4, <1>5, <1>7, <1>9, <1>10 DEF nav

\* The timer keeps the types of what it publishes.
LEMMA NodeTickTypes ==
  ASSUME TelemetryTypeOK, NodeTick PROVE TelemetryTypeOK'
<1>1. quiet' \in [Streams \cup {Timer} -> Nat]
  BY DEF NodeTick, TelemetryTypeOK
<1>2. /\ fresh' \in BOOLEAN /\ active' \in BOOLEAN
      /\ odom' \in [raw : Nat \cup {None}, nav : Nat,
                    origin : (Nat \X Nat) \cup {None}, time : Nat, resets : Nat]
      /\ first' \in [session : (Nat \X Nat) \cup {None},
                     origin : (Nat \X Nat) \cup {None}]
  <2> DEFINE OdomType == [raw : Nat \cup {None}, nav : Nat,
                          origin : (Nat \X Nat) \cup {None}, time : Nat, resets : Nat]
             FirstType == [session : (Nat \X Nat) \cup {None},
                           origin : (Nat \X Nat) \cup {None}]
  <2>1. /\ fresh \in BOOLEAN /\ active \in BOOLEAN /\ odom \in OdomType
        /\ first \in FirstType
    BY DEF TelemetryTypeOK
  <2>2. ASSUME Snapshot
        PROVE  /\ Detected \in OdomType
               /\ [Detected EXCEPT !.resets = tracker.resets] \in OdomType
               /\ Published => first' \in FirstType
    <3>1. Published => first' \in FirstType
      BY <2>1, <2>2, DetectedType DEF Published
    <3> QED
      BY <2>2, <3>1, DetectedType
  <2>3. CASE PublishSample
    BY <2>1, <2>2, <2>3 DEF PublishSample
  <2>4. CASE PublishOrFault
    <3>1. Valid => Snapshot
      BY DEF Valid
    <3>2. active' \in BOOLEAN
      <4>1. active' = FALSE \/ active' = active
            \/ active' = (active /\ odom.resets = tracker.resets)
        BY <2>4, Zenon DEF PublishOrFault
      <4> QED
        BY <2>1, <4>1, Zenon
    <3>3. fresh' = FALSE \/ fresh' = fresh
      BY <2>4 DEF PublishOrFault
    <3>4. odom' \in OdomType
      BY <2>1, <2>2, <2>4, <3>1 DEF PublishOrFault
    <3>5. \/ UNCHANGED <<fresh, odom, first>> \/ UNCHANGED <<fresh, odom, active, first>>
          \/ UNCHANGED first \/ (Valid /\ Published)
      BY <2>4, Zenon DEF PublishOrFault
    <3>6. first' = first \/ (Valid /\ Published)
      BY <3>5
    <3> HIDE DEF OdomType, FirstType
    <3>7. first' \in FirstType
      BY <2>1, <2>2, <3>1, <3>6
    <3>8. fresh' \in BOOLEAN
      BY <2>1, <3>3, Zenon
    <3> QED
      BY <3>2, <3>4, <3>7, <3>8 DEF OdomType, FirstType
  <2> QED
    BY <2>3, <2>4 DEF NodeTick
<1> QED
  BY <1>1, <1>2 DEF NodeTick, autopilot, TelemetryTypeOK

\* TelemetryTypeOK is inductive: one step per action.
LEMMA TelemetryTypeStep ==
  TelemetryTypeOK /\ [TelemetryNext]_telemetryvars => TelemetryTypeOK'
<1> SUFFICES ASSUME TelemetryTypeOK, [TelemetryNext]_telemetryvars
             PROVE  TelemetryTypeOK'
  OBVIOUS
<1>1. CASE Tick
  <2>1. vehicle' \in [boot : Nat, up : Nat, wraps : Nat, origin : Nat]
        /\ vehicle'.up \in Nat /\ now' \in Nat
    <3>1. (vehicle.up + 1) \in Nat /\ (vehicle.wraps + 1) \in Nat
      BY DEF TelemetryTypeOK
    <3> DEFINE wraps == IF (vehicle.up + 1) % Modulus = 0 THEN vehicle.wraps + 1
                        ELSE vehicle.wraps
    <3>2. wraps \in Nat
      BY <3>1 DEF TelemetryTypeOK
    <3>3. vehicle' = [vehicle EXCEPT !.up = vehicle.up + 1, !.wraps = wraps]
      BY <1>1 DEF Tick
    <3> HIDE DEF wraps
    <3>4. now' \in Nat
      BY <1>1 DEF Tick, TelemetryTypeOK
    <3> QED
      BY <3>1, <3>2, <3>3, <3>4 DEF TelemetryTypeOK
  <2>2. net' \subseteq Packet
    <3>1. \A s \in Streams : [stream |-> s, boot |-> vehicle.boot, up |-> vehicle'.up,
                              origin |-> vehicle.origin, at |-> now'] \in Packet
      BY <2>1 DEF Packet, TelemetryTypeOK
    <3> QED
      BY <1>1, <3>1 DEF Tick, TelemetryTypeOK
  <2>3. quiet' \in [Streams \cup {Timer} -> Nat]
    BY <1>1 DEF Tick, TelemetryTypeOK
  <2> QED
    BY <1>1, <2>1, <2>2, <2>3 DEF Tick, publisher, TelemetryTypeOK
<1>2. CASE Reboot
  <2>1. vehicle' \in [boot : Nat, up : Nat, wraps : Nat, origin : Nat]
    <3>1. vehicle.boot + 1 \in Nat
      BY DEF TelemetryTypeOK
    <3>2. vehicle' = [vehicle EXCEPT !.boot = vehicle.boot + 1, !.up = 0]
      BY <1>2 DEF Reboot
    <3> QED
      BY <3>1, <3>2 DEF TelemetryTypeOK
  <2>2. quiet' \in [Streams \cup {Timer} -> Nat]
    BY <1>2 DEF Reboot, TelemetryTypeOK
  <2> QED
    BY <1>2, <2>1, <2>2 DEF Reboot, publisher, TelemetryTypeOK
<1>3. CASE MoveOrigin
  BY <1>3 DEF MoveOrigin, publisher, TelemetryTypeOK
<1>4. CASE \E p \in net : Receive(p)
  BY <1>4, ReceiveTypes
<1>5. CASE NodeTick
  BY <1>5, NodeTickTypes
<1>6. CASE StartControl
  BY <1>6 DEF StartControl, autopilot, TelemetryTypeOK
<1>7. CASE StopControl
  BY <1>7 DEF StopControl, autopilot, TelemetryTypeOK
<1>8. CASE UNCHANGED telemetryvars
  BY <1>8 DEF telemetryvars, TelemetryTypeOK
<1> QED
  BY <1>1, <1>2, <1>3, <1>4, <1>5, <1>6, <1>7, <1>8 DEF TelemetryNext

\* Every variable of the telemetry keeps its type.
THEOREM TelemetryTypes == TelemetrySpec => []TelemetryTypeOK
BY TelemetryTypeInit, TelemetryTypeStep, PTL DEF TelemetrySpec
-----------------------------------------------------------------------------
(* The link between the autopilot and the tracker *)

-----------------------------------------------------------------------------
(* Telemetry: the tracker and the link, between reboots and through one *)

\* The process time of the last reboot, and: no reboot is unknown to the tracker.
Rebooted == now - vehicle.up
Healthy == tracker.resets = vehicle.boot

\* Nothing is silent for longer than MaxGap.
QuietInv == \A q \in Streams \cup {Timer} : quiet[q] <= MaxGap

\* A packet on its way shows the present clock of the autopilot, or the one it
\* had before its last reboot.
Present(p) == p.boot = vehicle.boot /\ p.up >= 1 /\ p.up - p.at = vehicle.up - now
Bygone(p) ==
  /\ p.boot = vehicle.boot - 1 /\ p.at <= Rebooted
  /\ TimeBootMs(p) \in MinUptime - Late .. Modulus - WrapWindow - 1
NetInv ==
  \A p \in net : /\ p.at \in 1 .. now /\ now - p.at <= Delay[p.stream]
                 /\ Present(p) \/ Bygone(p)

\* The last sample of a stream is d ticks old on the autopilot's clock.
Old(z, d, s) ==
  /\ d < vehicle.up /\ d < now /\ d <= quiet[s] + Late
  /\ z.boot = (vehicle.up - d) % Modulus
  /\ z.rx <= now /\ z.rx >= now - d /\ z.rx <= now - d + Late
  /\ z.rx > now - quiet[s] - Late

\* The epoch has begun and stream s has not been heard in it.
Awaited(s) ==
  LET a == tracker.anchor
  IN /\ a.rx <= now /\ a.rx >= now - quiet[s]
     /\ a.rx - Rebooted \in 0 .. MaxGap + Late
     /\ a.boot <= a.rx - Rebooted /\ a.boot >= a.rx - Rebooted - Late

\* Between reboots the tracker suspects nothing and its samples are of now.
HealthyInv ==
  Healthy =>
    \A s \in Streams :
      /\ tracker.candidates[s] = None
      /\ tracker.last[s] # None => \E d \in 0 .. MaxGap + Late : Old(tracker.last[s], d, s)
      /\ tracker.last[s] = None /\ tracker.anchor # None => Awaited(s)

\* From a reboot to its detection the samples are of before, the candidates of
\* the new boot, and one of the streams has not reported yet.
PendingInv ==
  ~ Healthy =>
    /\ tracker.resets = vehicle.boot - 1
    /\ \A s \in Streams :
         /\ tracker.last[s] # None
         /\ tracker.last[s].boot \in
              MinUptime - MaxGap - Late .. Modulus - WrapWindow - 1
         /\ tracker.last[s].rx > Rebooted - MaxGap - Late
         /\ tracker.candidates[s] = None => vehicle.up <= quiet[s] + Late
         /\ tracker.candidates[s] # None =>
              /\ tracker.candidates[s].rx = now - quiet[s]
              /\ tracker.candidates[s].boot \in
                   vehicle.up - quiet[s] - Late .. vehicle.up - quiet[s]
    /\ \E s \in Streams : tracker.candidates[s] = None

AnchorInv == tracker.anchor = None <=> tracker.resets = 0

\* A wrap that was counted was counted since the autopilot's clock wrapped.
WrapInv ==
  /\ tracker.wraps <= vehicle.wraps
  /\ /\ tracker.wraps = vehicle.wraps
     /\ vehicle.up >= Modulus /\ vehicle.up % Modulus < now
     => /\ tracker.lastWrap # None
        /\ tracker.lastWrap >= now - (vehicle.up % Modulus)

\* The samples in the cache are the tracker's last ones, of its epoch.
CacheInv ==
  \A s \in Streams : cache[s] # None =>
    /\ cache[s].packet.stream = s
    /\ cache[s].packet.boot = tracker.resets
    /\ cache[s].rx \in cache[s].packet.at .. cache[s].packet.at + Delay[s]
    /\ cache[s].rx <= now
    /\ tracker.last[s] # None /\ tracker.last[s].rx = cache[s].rx
    /\ ~ Healthy => cache[s].packet.at <= Rebooted

\* What is left of the last boot is from just before its last reading, m.
EndInv ==
  \E m \in Nat :
    /\ \A p \in net : p.boot # vehicle.boot => TimeBootMs(p) \in m - Late .. m
    /\ ~ Healthy => \A s \in Streams : tracker.last[s].boot <= m

LinkInv ==
  /\ TelemetryTypeOK
  /\ QuietInv /\ NetInv /\ HealthyInv /\ PendingInv
  /\ EndInv /\ AnchorInv /\ WrapInv /\ CacheInv

\* The types of what a packet on its way and the tracker are made of.
LEMMA Parts ==
  ASSUME LinkInv
  PROVE  /\ now \in Nat /\ vehicle.up \in Nat /\ vehicle.boot \in Nat
         /\ vehicle.wraps \in Nat
         /\ \A q \in Streams \cup {Timer} : quiet[q] \in 0 .. MaxGap
         /\ tracker \in Tracker /\ tracker.resets \in Nat /\ tracker.wraps \in Nat
         /\ \A s \in Streams :
              /\ tracker.last[s] # None =>
                   tracker.last[s].boot \in BootTimes /\ tracker.last[s].rx \in Nat
              /\ tracker.candidates[s] # None =>
                   /\ tracker.candidates[s].boot \in BootTimes
                   /\ tracker.candidates[s].rx \in Nat
         /\ tracker.anchor # None =>
              tracker.anchor.boot \in BootTimes /\ tracker.anchor.rx \in Nat
         /\ \A p \in net :
              /\ p \in Packet /\ p.stream \in Streams /\ p.up \in Nat /\ p.boot \in Nat
              /\ p.at \in 1 .. now /\ now - p.at <= Delay[p.stream]
              /\ now - p.at \in 0 .. Late
              /\ TimeBootMs(p) \in BootTimes
<1>1. /\ now \in Nat /\ vehicle.up \in Nat /\ vehicle.boot \in Nat
      /\ vehicle.wraps \in Nat
      /\ \A q \in Streams \cup {Timer} : quiet[q] \in 0 .. MaxGap
  BY Limits DEF LinkInv, TelemetryTypeOK, QuietInv
<1>2. /\ tracker \in Tracker /\ tracker.resets \in Nat /\ tracker.wraps \in Nat
      /\ tracker.last \in [Streams -> Sample \cup {None}]
      /\ tracker.candidates \in [Streams -> Sample \cup {None}]
      /\ tracker.anchor \in Sample \cup {None}
  BY DEF LinkInv, TelemetryTypeOK, Tracker
<1>3. \A p \in net :
        /\ p \in Packet /\ p.stream \in Streams /\ p.up \in Nat /\ p.boot \in Nat
        /\ p.at \in 1 .. now /\ now - p.at <= Delay[p.stream]
        /\ TimeBootMs(p) \in BootTimes
  BY BootTimeRange DEF LinkInv, TelemetryTypeOK, NetInv, Packet
<1>4. \A p \in net : now - p.at \in 0 .. Late
  BY <1>1, <1>3, LateBounds
<1> QED
  BY <1>1, <1>2, <1>3, <1>4 DEF Sample

\* A packet of the present epoch is in order, a wrap or late, never suspicious.
LEMMA HealthyPresent ==
  ASSUME WellTimed, LinkInv, Healthy, NEW p \in net, Present(p),
         NEW d, d = Disposition(tracker, p.stream, TimeBootMs(p), now)
  PROVE  /\ d \in {"accept", "wrap", "drop_reordered"}
         /\ d = "wrap" => /\ vehicle.up >= Modulus /\ vehicle.up % Modulus < now
                          /\ vehicle.up % Modulus < MaxGap + Late
         /\ d = "drop_reordered" =>
              /\ tracker.last[p.stream] # None
              /\ \E k \in 0 .. MaxGap + Late :
                   Old(tracker.last[p.stream], k, p.stream) /\ k < now - p.at
<1> DEFINE s == p.stream
           b == TimeBootMs(p)
           u == vehicle.up
           e == now - p.at
           z == tracker.last[s]
           a == tracker.anchor
<1>1. /\ s \in Streams /\ now \in Nat /\ u \in Nat /\ p.up \in Nat
      /\ e \in 0 .. Late /\ e < now /\ b \in 0 .. Modulus - 1
      /\ p.up = u - e /\ p.up >= 1 /\ b = p.up % Modulus
      /\ quiet[s] \in 0 .. MaxGap
      /\ z # None => z.boot \in 0 .. Modulus - 1 /\ z.rx \in Nat
      /\ a # None => a.boot \in 0 .. Modulus - 1 /\ a.rx \in Nat
  BY Parts DEF Present, TimeBootMs, BootTimes
<1>2. /\ z # None => \E k \in 0 .. MaxGap + Late : Old(z, k, s)
      /\ z = None /\ a # None => Awaited(s)
  BY <1>1 DEF LinkInv, HealthyInv
<1>3. d = (IF InOrder(tracker, s, b, now) THEN "accept"
           ELSE IF Wrapped(tracker, s, b) THEN "wrap"
           ELSE IF ~ Suspicious(tracker, s, b) THEN "drop_reordered"
           ELSE IF Confirmed(tracker, s, b, now) THEN "reset" ELSE "reset_candidate")
  BY DEF Disposition
<1>4. CASE z = None
  <2>1. CASE a = None
    BY <1>3, <1>4, <2>1 DEF InOrder, PlausibleFirst
  <2>2. CASE a # None
    <3>1. /\ a.rx <= now /\ a.rx >= now - quiet[s]
          /\ a.rx - (now - u) \in 0 .. MaxGap + Late
          /\ a.boot <= a.rx - (now - u) /\ a.boot >= a.rx - (now - u) - Late
      BY <1>2, <1>4, <2>2 DEF Awaited, Rebooted
    <3>2. u < Modulus /\ b = p.up
      <4>1. u <= MaxGap + MaxGap + Late
        BY <1>1, <2>2, <3>1, Limits, LateBounds
      <4>2. p.up < Modulus
        BY <1>1, <4>1, Limits, LateBounds DEF WellTimed
      <4>3. p.up % Modulus = p.up
        BY <1>1, <4>2, ModRange, Limits
      <4>4. u < Modulus
        BY <1>1, <4>1, Limits, LateBounds DEF WellTimed
      <4> QED
        BY <1>1, <4>3, <4>4
    <3>3. b < a.boot => a.boot - b <= CandidateSkew
      BY <1>1, <2>2, <3>1, Limits, LateBounds DEF WellTimed
    <3>4. b - a.boot <= MaxForwardJump
                        + ClockSlack * (IF now > a.rx THEN now - a.rx ELSE 0)
      <4>1. b - a.boot <= (now - a.rx) + Late
        BY <1>1, <2>2, <3>1, <3>2, LateBounds
      <4>2. now - a.rx \in Nat
        BY <1>1, <2>2, <3>1
      <4>3. ClockSlack * (now - a.rx) >= now - a.rx /\ ClockSlack * (now - a.rx) \in Nat
        BY <4>2, Scaled, Limits
      <4>4. (IF now > a.rx THEN now - a.rx ELSE 0) = now - a.rx
        BY <1>1, <2>2, <3>1
      <4> QED
        BY <1>1, <2>2, <4>1, <4>2, <4>3, <4>4, Limits, LateBounds DEF WellTimed
    <3>5. PlausibleFirst(tracker, b, now)
      BY <3>3, <3>4 DEF PlausibleFirst, Allowed
    <3> QED
      BY <1>3, <1>4, <3>5 DEF InOrder
  <2> QED
    BY <2>1, <2>2
<1>5. CASE z # None
  <2>1. PICK k \in 0 .. MaxGap + Late : Old(z, k, s)
    BY <1>2, <1>5
  <2>2. /\ k < u /\ k < now /\ k \in Nat /\ u - k \in Nat
        /\ z.boot = (u - k) % Modulus /\ z.boot <= u - k
        /\ z.rx \in Nat /\ z.rx <= now /\ z.rx >= now - k /\ z.rx <= now - k + Late
    <3>1. /\ k < u /\ k < now /\ k \in Nat /\ u - k \in Nat
          /\ z.boot = (u - k) % Modulus
          /\ z.rx <= now /\ z.rx >= now - k /\ z.rx <= now - k + Late
      BY <1>1, <2>1, Limits, LateBounds DEF Old
    <3> QED
      BY <1>1, <1>5, <3>1, ModRange, Limits
  <2>3. CASE e <= k
    <3>1. \/ b = z.boot + (k - e)
          \/ b = z.boot + (k - e) - Modulus /\ z.boot + (k - e) >= Modulus
      <4>1. u - k <= p.up /\ p.up - (u - k) = k - e /\ p.up - (u - k) < Modulus
        <5>1. MaxGap + Late < Modulus
          BY Limits, LateBounds DEF WellTimed
        <5>2. e \in Nat /\ k \in Nat /\ k <= MaxGap + Late /\ p.up = u - e
          BY <1>1, <2>2, Limits, LateBounds
        <5> QED
          BY <1>1, <2>3, <5>1, <5>2, Limits, LateBounds
      <4>2. \/ p.up % Modulus = ((u - k) % Modulus) + (p.up - (u - k))
            \/ /\ p.up % Modulus = ((u - k) % Modulus) + (p.up - (u - k)) - Modulus
               /\ ((u - k) % Modulus) + (p.up - (u - k)) >= Modulus
        BY <1>1, <2>2, <4>1, ModLater, Limits
      <4> QED
        BY <1>1, <2>2, <4>1, <4>2
    <3>2. CASE b = z.boot + (k - e)
      <4>1. b - z.boot <= MaxForwardJump
                          + ClockSlack * (IF now > z.rx THEN now - z.rx ELSE 0)
        <5>1. b - z.boot <= (now - z.rx) + Late
          BY <1>1, <1>5, <2>2, <2>3, <3>2, LateBounds
        <5>2. now - z.rx \in Nat
          BY <1>1, <2>2
        <5>3. ClockSlack * (now - z.rx) >= now - z.rx /\ ClockSlack * (now - z.rx) \in Nat
          BY <5>2, Scaled, Limits
        <5>4. (IF now > z.rx THEN now - z.rx ELSE 0) = now - z.rx
          BY <1>1, <2>2
        <5> QED
          BY <1>1, <1>5, <2>2, <5>1, <5>2, <5>3, <5>4, Limits, LateBounds DEF WellTimed
      <4>2. b >= z.boot
        BY <1>1, <1>5, <2>2, <2>3, <3>2
      <4>3. InOrder(tracker, s, b, now)
        BY <1>5, <4>1, <4>2 DEF InOrder, PlausibleProgress, Allowed
      <4> QED
        BY <1>3, <4>3
    <3>3. CASE b = z.boot + (k - e) - Modulus /\ z.boot + (k - e) >= Modulus
      <4>1. b < z.boot /\ z.boot >= Modulus - WrapWindow /\ b <= WrapWindow
        BY <1>1, <1>5, <2>2, <2>3, <3>3, Limits, LateBounds DEF WellTimed
      <4>2. Wrapped(tracker, s, b)
        BY <1>5, <4>1 DEF Wrapped
      <4>3. ~ InOrder(tracker, s, b, now)
        BY <1>1, <1>5, <4>1 DEF InOrder
      <4>4. u % Modulus = z.boot + k - Modulus
        <5>1. z.boot + k >= Modulus
          BY <1>1, <1>5, <2>2, <2>3, <3>3, Limits
        <5>2. \/ u % Modulus = ((u - k) % Modulus) + (u - (u - k))
              \/ u % Modulus = ((u - k) % Modulus) + (u - (u - k)) - Modulus
          <6>1. u - k <= u /\ u - (u - k) < Modulus
            BY <1>1, <2>2, Limits, LateBounds DEF WellTimed
          <6> QED
            BY <1>1, <2>2, <6>1, ModLater, Limits
        <5>3. u % Modulus \in 0 .. Modulus - 1
          BY <1>1, ModRange, Limits
        <5> QED
          BY <1>1, <1>5, <2>2, <5>1, <5>2, <5>3, Limits
      <4>5. u >= Modulus /\ u % Modulus < k
        BY <1>1, <1>5, <2>2, <2>3, <3>3, <4>4, Limits
      <4> QED
        BY <1>1, <1>3, <2>2, <4>2, <4>3, <4>5, Limits, LateBounds
    <3> QED
      BY <3>1, <3>2, <3>3
  <2>4. CASE e > k
    <3>1. \/ z.boot = b + (e - k)
          \/ z.boot = b + (e - k) - Modulus /\ b + (e - k) >= Modulus
      <4>1. p.up <= u - k /\ (u - k) - p.up = e - k /\ e - k < Modulus
        <5>1. Late < Modulus
          BY Limits, LateBounds DEF WellTimed
        <5>2. e <= Late /\ e \in Nat /\ k \in Nat /\ p.up = u - e
          BY <1>1, <2>2, LateBounds
        <5> QED
          BY <1>1, <2>4, <5>1, <5>2, Limits, LateBounds
      <4>2. \/ (u - k) % Modulus = (p.up % Modulus) + ((u - k) - p.up)
            \/ /\ (u - k) % Modulus = (p.up % Modulus) + ((u - k) - p.up) - Modulus
               /\ (p.up % Modulus) + ((u - k) - p.up) >= Modulus
        BY <1>1, <2>2, <4>1, ModLater, Limits
      <4> QED
        BY <1>1, <2>2, <4>1, <4>2
    <3>2. ~ Wrapped(tracker, s, b) /\ ~ Suspicious(tracker, s, b)
      BY <1>1, <1>5, <2>2, <2>4, <3>1, Limits, LateBounds
      DEF WellTimed, Wrapped, Suspicious
    <3>3. d \in {"accept", "drop_reordered"}
      BY <1>3, <3>2
    <3> QED
      BY <1>5, <2>1, <2>4, <3>3
  <2> QED
    BY <1>1, <2>2, <2>3, <2>4
<1> QED
  BY <1>4, <1>5

\* A packet from before the last reboot is dropped once that is known.
LEMMA HealthyBygone ==
  ASSUME WellTimed, LinkInv, Healthy, NEW p \in net, Bygone(p),
         NEW d, d = Disposition(tracker, p.stream, TimeBootMs(p), now)
  PROVE  d = "drop_reordered" /\ vehicle.up <= Late
<1> DEFINE s == p.stream
           b == TimeBootMs(p)
           u == vehicle.up
           z == tracker.last[s]
           a == tracker.anchor
<1>1. /\ s \in Streams /\ now \in Nat /\ u \in Nat
      /\ now - p.at \in 0 .. Late /\ p.at <= now - u /\ p.at \in Nat
      /\ b \in MinUptime - Late .. Modulus - WrapWindow - 1
      /\ quiet[s] \in 0 .. MaxGap
      /\ z # None => z.boot \in 0 .. Modulus - 1 /\ z.rx \in Nat
      /\ a # None => a.boot \in 0 .. Modulus - 1 /\ a.rx \in Nat
  BY Parts DEF Bygone, Rebooted, BootTimes
<1>2. u <= Late
  BY <1>1, LateBounds
<1>3. a # None
  <2>1. tracker.resets # 0
    BY Parts DEF Healthy, Bygone
  <2> QED
    BY <2>1 DEF LinkInv, AnchorInv
<1>4. /\ z # None => \E k \in 0 .. MaxGap + Late : Old(z, k, s)
      /\ z = None => Awaited(s)
  BY <1>1, <1>3 DEF LinkInv, HealthyInv
<1>5. ASSUME NEW c \in Nat, NEW rx \in Nat, c <= Late, rx <= now, now - rx <= Late
      PROVE  ~(b - c <= MaxForwardJump + ClockSlack * (IF now > rx THEN now - rx ELSE 0))
  <2>1. now - rx \in Nat /\ (IF now > rx THEN now - rx ELSE 0) = now - rx
    BY <1>1, <1>5
  <2>2. ClockSlack * (now - rx) <= ClockSlack * Late
    BY <1>5, <2>1, ScaledLess, Limits, LateBounds
  <2>3. ClockSlack * (now - rx) \in Nat /\ ClockSlack * Late \in Nat
    BY <2>1, Scaled, Limits, LateBounds
  <2> QED
    BY <1>1, <1>5, <2>1, <2>2, <2>3, Limits, LateBounds DEF WellTimed
<1>6. b > Late
  <2>1. ClockSlack * Late \in Nat
    BY Scaled, Limits, LateBounds
  <2> QED
    BY <1>1, <2>1, Limits, LateBounds DEF WellTimed
<1>7. ~ InOrder(tracker, s, b, now)
  <2>1. CASE z = None
    <3>1. a.rx <= now /\ now - a.rx <= Late /\ a.boot <= Late
      BY <1>1, <1>2, <1>3, <1>4, <2>1, LateBounds DEF Awaited, Rebooted
    <3>2. ~(b - a.boot <= MaxForwardJump
                          + ClockSlack * (IF now > a.rx THEN now - a.rx ELSE 0))
      BY <1>1, <1>3, <1>5, <3>1
    <3>3. ~(b < a.boot)
      BY <1>1, <1>3, <1>6, <3>1, LateBounds
    <3> QED
      BY <1>3, <2>1, <3>2, <3>3 DEF InOrder, PlausibleFirst, Allowed
  <2>2. CASE z # None
    <3>1. PICK k \in 0 .. MaxGap + Late : Old(z, k, s)
      BY <1>4, <2>2
    <3>2. z.rx <= now /\ now - z.rx <= Late /\ z.boot <= Late
      <4>1. k < u /\ z.rx <= now /\ z.rx >= now - k /\ z.boot = (u - k) % Modulus
            /\ k \in Nat
        BY <3>1, Limits, LateBounds DEF Old
      <4>2. z.boot <= u - k
        <5>1. u - k \in Nat
          BY <1>1, <4>1
        <5>2. (u - k) % Modulus <= u - k
          BY <5>1, ModRange, Limits
        <5> QED
          BY <4>1, <5>2
      <4> QED
        BY <1>1, <1>2, <2>2, <4>1, <4>2, LateBounds
    <3>3. ~(b - z.boot <= MaxForwardJump
                          + ClockSlack * (IF now > z.rx THEN now - z.rx ELSE 0))
      BY <1>1, <1>5, <2>2, <3>2
    <3> QED
      BY <1>3, <2>2, <3>3 DEF InOrder, PlausibleProgress, Allowed
  <2> QED
    BY <2>1, <2>2
<1>8. z = None \/ ~(b < z.boot)
  <2>1. SUFFICES ASSUME z # None PROVE ~(b < z.boot)
    OBVIOUS
  <2>2. PICK k \in 0 .. MaxGap + Late : Old(z, k, s)
    BY <1>4, <2>1
  <2>3. k < u /\ z.boot = (u - k) % Modulus /\ k \in Nat
    BY <2>2, Limits, LateBounds DEF Old
  <2>4. z.boot <= u - k
    <3>1. u - k \in Nat
      BY <1>1, <2>3
    <3>2. (u - k) % Modulus <= u - k
      BY <3>1, ModRange, Limits
    <3> QED
      BY <2>3, <3>2
  <2> QED
    BY <1>1, <1>2, <1>6, <2>1, <2>3, <2>4, LateBounds
<1>9. ~ Wrapped(tracker, s, b) /\ ~ Suspicious(tracker, s, b)
  BY <1>8 DEF Wrapped, Suspicious
<1> QED
  BY <1>2, <1>7, <1>9 DEF Disposition

\* While a reboot is pending, no candidate expires.
LEMMA NoneExpires ==
  ASSUME WellTimed, LinkInv
  PROVE  \A r \in Streams :
           Unexpired(tracker, now).candidates[r] = tracker.candidates[r]
<1> SUFFICES ASSUME NEW r \in Streams
             PROVE  Unexpired(tracker, now).candidates[r] = tracker.candidates[r]
  OBVIOUS
<1>1. Unexpired(tracker, now).candidates[r] =
        IF tracker.candidates[r] # None
           /\ tracker.candidates[r].rx >= now - ConfirmationWindow
        THEN tracker.candidates[r] ELSE None
  BY Parts DEF Unexpired, Tracker
<1>2. tracker.candidates[r] # None =>
        tracker.candidates[r].rx >= now - ConfirmationWindow
  <2>1. CASE Healthy
    BY <2>1 DEF LinkInv, HealthyInv
  <2>2. CASE ~ Healthy
    <3>1. tracker.candidates[r] # None => tracker.candidates[r].rx = now - quiet[r]
      BY <2>2 DEF LinkInv, PendingInv
    <3>2. quiet[r] \in 0 .. MaxGap /\ now \in Nat
      BY Parts
    <3> QED
      BY <3>1, <3>2, Limits, LateBounds DEF WellTimed
  <2> QED
    BY <2>1, <2>2
<1> QED
  BY <1>1, <1>2

\* The first packets after a reboot are suspicious: the one of the stream that
\* reports second confirms the reset.
LEMMA PendingPresent ==
  ASSUME WellTimed, LinkInv, ~ Healthy, NEW p \in net, Present(p),
         NEW d, d = Disposition(tracker, p.stream, TimeBootMs(p), now)
  PROVE  /\ d \in {"reset", "reset_candidate"}
         /\ vehicle.up <= MaxGap + Late /\ TimeBootMs(p) = p.up
         /\ d = "reset_candidate" =>
              \A r \in Streams \ {p.stream} : tracker.candidates[r] = None
<1> DEFINE s == p.stream
           b == TimeBootMs(p)
           u == vehicle.up
           z == tracker.last[s]
<1>1. /\ s \in Streams /\ now \in Nat /\ u \in Nat /\ p.up \in Nat
      /\ now - p.at \in 0 .. Late /\ p.at \in Nat
      /\ p.up = u - (now - p.at) /\ p.up >= 1 /\ b = p.up % Modulus
      /\ \A r \in Streams : /\ quiet[r] \in 0 .. MaxGap
                            /\ tracker.candidates[r] # None =>
                                 tracker.candidates[r].boot \in 0 .. Modulus - 1
  BY Parts DEF Present, TimeBootMs, BootTimes
<1>2. /\ z # None
      /\ z.boot \in MinUptime - MaxGap - Late .. Modulus - WrapWindow - 1
      /\ \A r \in Streams :
           /\ tracker.candidates[r] = None => u <= quiet[r] + Late
           /\ tracker.candidates[r] # None =>
                tracker.candidates[r].boot \in u - quiet[r] - Late .. u - quiet[r]
      /\ \E r \in Streams : tracker.candidates[r] = None
  BY <1>1 DEF LinkInv, PendingInv
<1>3. u <= MaxGap + Late
  BY <1>1, <1>2, Limits, LateBounds
<1>4. b = p.up
  <2>1. p.up < Modulus
    BY <1>1, <1>3, Limits, LateBounds DEF WellTimed
  <2> QED
    BY <1>1, <2>1, ModRange, Limits
<1>5. b < z.boot /\ z.boot - b > ReorderTolerance /\ b <= CandidateMaxBoot
      /\ z.boot < Modulus - WrapWindow
  BY <1>1, <1>2, <1>3, <1>4, Limits, LateBounds DEF WellTimed
<1>6. /\ ~ InOrder(tracker, s, b, now) /\ ~ Wrapped(tracker, s, b)
      /\ Suspicious(tracker, s, b)
  <2>1. ~ (b >= z.boot) /\ ~ (z.boot >= Modulus - WrapWindow)
    BY <1>1, <1>2, <1>4, <1>5, Limits, LateBounds
  <2> QED
    BY <1>2, <1>5, <2>1 DEF InOrder, Wrapped, Suspicious
<1>7. d = IF Confirmed(tracker, s, b, now) THEN "reset" ELSE "reset_candidate"
  BY <1>6 DEF Disposition
<1>8. ASSUME NEW r \in Streams \ {s}, tracker.candidates[r] # None
      PROVE  Confirmed(tracker, s, b, now)
  <2> DEFINE c == tracker.candidates[r].boot
  <2>1. c \in Nat /\ c >= u - quiet[r] - Late /\ c <= u - quiet[r]
    BY <1>1, <1>2, <1>8, LateBounds, Limits
  <2>2. Distance(c, b) <= CandidateSkew
    BY <1>1, <1>4, <1>8, <2>1, Limits, LateBounds DEF WellTimed, Distance
  <2>3. Unexpired(tracker, now).candidates[r] = tracker.candidates[r]
    BY NoneExpires
  <2> QED
    BY <1>8, <2>2, <2>3 DEF Confirmed
<1> QED
  BY <1>3, <1>4, <1>7, <1>8

\* What is late from before a pending reboot is taken or dropped.
LEMMA PendingBygone ==
  ASSUME WellTimed, LinkInv, ~ Healthy, NEW p \in net, Bygone(p),
         NEW d, d = Disposition(tracker, p.stream, TimeBootMs(p), now)
  PROVE  d \in {"accept", "drop_reordered"} /\ vehicle.up <= Late
<1> DEFINE s == p.stream
           b == TimeBootMs(p)
           z == tracker.last[s]
<1>1. /\ s \in Streams /\ now \in Nat /\ vehicle.up \in Nat
      /\ now - p.at \in 0 .. Late /\ p.at <= now - vehicle.up /\ p.at \in Nat
      /\ b \in MinUptime - Late .. Modulus - WrapWindow - 1
  BY Parts DEF Bygone, Rebooted
<1>2. /\ z # None
      /\ z.boot \in MinUptime - MaxGap - Late .. Modulus - WrapWindow - 1
  BY <1>1 DEF LinkInv, PendingInv
<1>3. vehicle.up <= Late
  BY <1>1, LateBounds
<1>4. ~(z.boot - b > ReorderTolerance) /\ ~(z.boot >= Modulus - WrapWindow)
  <2>1. p.boot # vehicle.boot
    BY Parts DEF Bygone
  <2>2. PICK m \in Nat : b \in m - Late .. m /\ z.boot <= m
    BY <1>1, <2>1 DEF LinkInv, EndInv
  <2>3. Late <= ReorderTolerance
    BY DEF WellTimed
  <2> QED
    BY <1>1, <1>2, <2>2, <2>3, Limits, LateBounds
<1>5. ~ Wrapped(tracker, s, b) /\ ~ Suspicious(tracker, s, b)
  BY <1>4 DEF Wrapped, Suspicious
<1> QED
  BY <1>3, <1>5 DEF Disposition

\* What the receiver thread does with packet p, of disposition d: to stream r and to
\* the rest.
StreamEffect(p, d, r) ==
  /\ quiet'[r] = IF r = p.stream /\ p.boot = vehicle.boot THEN 0 ELSE quiet[r]
  /\ tracker'.last[r] =
       IF Accepted(d) /\ r = p.stream THEN [boot |-> TimeBootMs(p), rx |-> now]
       ELSE IF d = "reset" THEN None ELSE tracker.last[r]
  /\ tracker'.candidates[r] =
       IF d = "reset_candidate" /\ r = p.stream THEN [boot |-> TimeBootMs(p), rx |-> now]
       ELSE IF d = "reset" \/ (Accepted(d) /\ r = p.stream) THEN None
       ELSE tracker.candidates[r]
  /\ cache'[r] = IF r = p.stream
                 THEN IF Accepted(d) THEN [packet |-> p, rx |-> now]
                      ELSE IF d = "reset_candidate" THEN None ELSE cache[r]
                 ELSE IF d = "reset" THEN None ELSE cache[r]
CounterEffect(p, d) ==
  /\ tracker'.anchor =
       IF d = "reset" THEN [boot |-> TimeBootMs(p), rx |-> now] ELSE tracker.anchor
  /\ tracker'.resets = IF d = "reset" THEN tracker.resets + 1 ELSE tracker.resets
  /\ d # "wrap" =>
       tracker'.wraps = tracker.wraps /\ tracker'.lastWrap = tracker.lastWrap
  /\ d = "wrap" =>
       LET again == /\ tracker.lastWrap # None
                    /\ now - tracker.lastWrap <= ConfirmationWindow
       IN /\ tracker'.wraps = IF again THEN tracker.wraps ELSE tracker.wraps + 1
          /\ tracker'.lastWrap = IF again THEN tracker.lastWrap ELSE now
OtherEffect(p, d) ==
  /\ now' = now /\ vehicle' = vehicle /\ net' = net \ {p} /\ node' = node
  /\ odom' = odom /\ first' = first
  /\ fresh' = (fresh \/ Accepted(d))
  /\ quiet'[Timer] = quiet[Timer]

\* Receive, field by field.
LEMMA ReceiveEffect ==
  ASSUME WellTimed, LinkInv, NEW p \in net, Receive(p),
         NEW d, d = Disposition(tracker, p.stream, TimeBootMs(p), now)
  PROVE  /\ \A r \in Streams : StreamEffect(p, d, r)
         /\ CounterEffect(p, d) /\ OtherEffect(p, d)
<1>1. /\ tracker \in Tracker /\ p.stream \in Streams /\ TimeBootMs(p) \in BootTimes
      /\ now \in Nat
  BY Parts
<1> DEFINE o == Observe(tracker, p.stream, TimeBootMs(p), now)
<1>2. /\ tracker' = o /\ cache' = Stored(d, p) /\ fresh' = (fresh \/ Accepted(d))
      /\ now' = now /\ vehicle' = vehicle /\ net' = net \ {p} /\ node' = node
      /\ odom' = odom /\ first' = first
      /\ quiet' = [quiet EXCEPT ![p.stream] = IF p.boot = vehicle.boot THEN 0 ELSE @]
  BY DEF Receive
<1>3. quiet'[Timer] = quiet[Timer]
      /\ \A r \in Streams :
           quiet'[r] = IF r = p.stream /\ p.boot = vehicle.boot THEN 0 ELSE quiet[r]
  <2>1. quiet \in [Streams \cup {Timer} -> Nat] /\ Timer \notin Streams
    BY Limits DEF LinkInv, TelemetryTypeOK, Timer, Att, Pos
  <2> QED
    BY <1>1, <1>2, <2>1
<1>4. \A r \in Streams :
        cache'[r] =
          IF r = p.stream
          THEN IF Accepted(d) THEN [packet |-> p, rx |-> now]
               ELSE IF d = "reset_candidate" THEN None ELSE cache[r]
          ELSE IF d = "reset" THEN None ELSE cache[r]
  BY <1>2 DEF Stored
<1>5. o = Observe(tracker, p.stream, TimeBootMs(p), now)
  OBVIOUS
<1> HIDE DEF o
<1>6. /\ \A r \in Streams :
           /\ o.last[r] =
                IF Accepted(d) /\ r = p.stream THEN [boot |-> TimeBootMs(p), rx |-> now]
                ELSE IF d = "reset" THEN None ELSE tracker.last[r]
           /\ o.candidates[r] =
                IF d = "reset_candidate" /\ r = p.stream
                THEN [boot |-> TimeBootMs(p), rx |-> now]
                ELSE IF d = "reset" \/ (Accepted(d) /\ r = p.stream) THEN None
                ELSE Unexpired(tracker, now).candidates[r]
      /\ o.anchor =
           IF d = "reset" THEN [boot |-> TimeBootMs(p), rx |-> now] ELSE tracker.anchor
      /\ o.resets = IF d = "reset" THEN tracker.resets + 1 ELSE tracker.resets
      /\ d # "wrap" => o.wraps = tracker.wraps /\ o.lastWrap = tracker.lastWrap
      /\ d = "wrap" =>
           LET again == /\ tracker.lastWrap # None
                        /\ now - tracker.lastWrap <= ConfirmationWindow
           IN /\ o.wraps = IF again THEN tracker.wraps ELSE tracker.wraps + 1
              /\ o.lastWrap = IF again THEN tracker.lastWrap ELSE now
  BY <1>1, <1>5, Observed
<1>7. \A r \in Streams :
        o.candidates[r] =
          IF d = "reset_candidate" /\ r = p.stream
          THEN [boot |-> TimeBootMs(p), rx |-> now]
          ELSE IF d = "reset" \/ (Accepted(d) /\ r = p.stream) THEN None
          ELSE tracker.candidates[r]
  BY <1>6, NoneExpires
<1>8. \A r \in Streams : StreamEffect(p, d, r)
  BY <1>2, <1>3, <1>4, <1>6, <1>7 DEF StreamEffect
<1>9. CounterEffect(p, d)
  BY <1>2, <1>6 DEF CounterEffect
<1>10. OtherEffect(p, d)
  BY <1>2, <1>3, Zenon DEF OtherEffect
<1> QED
  BY <1>8, <1>9, <1>10

\* The four cases of a packet: of this boot or not, known to the tracker or not.
LEMMA ReceiveCases ==
  ASSUME WellTimed, LinkInv, NEW p \in net,
         NEW d, d = Disposition(tracker, p.stream, TimeBootMs(p), now)
  PROVE
    \/ /\ Healthy /\ Present(p) /\ d \in {"accept", "wrap", "drop_reordered"}
       /\ d = "wrap" => /\ vehicle.up >= Modulus /\ vehicle.up % Modulus < now
                        /\ vehicle.up % Modulus < MaxGap + Late
       /\ d = "drop_reordered" =>
              /\ tracker.last[p.stream] # None
              /\ \E k \in 0 .. MaxGap + Late :
                   Old(tracker.last[p.stream], k, p.stream) /\ k < now - p.at
    \/ Healthy /\ Bygone(p) /\ d = "drop_reordered" /\ vehicle.up <= Late
    \/ /\ ~ Healthy /\ Present(p) /\ d \in {"reset", "reset_candidate"}
       /\ vehicle.up <= MaxGap + Late /\ TimeBootMs(p) = p.up
       /\ d = "reset_candidate" =>
            \A r \in Streams \ {p.stream} : tracker.candidates[r] = None
    \/ /\ ~ Healthy /\ Bygone(p) /\ d \in {"accept", "drop_reordered"}
       /\ vehicle.up <= Late
<1>1. Present(p) \/ Bygone(p)
  BY DEF LinkInv, NetInv
<1>2. CASE Healthy /\ Present(p)
  BY <1>2, HealthyPresent
<1>3. CASE Healthy /\ Bygone(p)
  BY <1>3, HealthyBygone
<1>4. CASE ~ Healthy /\ Present(p)
  BY <1>4, PendingPresent
<1>5. CASE ~ Healthy /\ Bygone(p)
  BY <1>5, PendingBygone
<1> QED
  BY <1>1, <1>2, <1>3, <1>4, <1>5

\* A sample just taken from a packet of this boot is as old as the packet.
LEMMA TakenIsOld ==
  ASSUME WellTimed, LinkInv, NEW p \in net, Present(p), Receive(p),
         NEW z, z = [boot |-> TimeBootMs(p), rx |-> now]
  PROVE  z # None /\ \E k \in 0 .. MaxGap + Late : Old(z, k, p.stream)'
<1>1. PICK k : k = now - p.at
  OBVIOUS
<1>2. /\ p.stream \in Streams /\ now \in Nat /\ vehicle.up \in Nat /\ p.up \in Nat
      /\ k \in 0 .. Late /\ k < now /\ TimeBootMs(p) \in BootTimes
      /\ p.up = vehicle.up - k /\ p.up >= 1
      /\ p.boot = vehicle.boot
  BY <1>1, Parts DEF Present
<1>3. quiet'[p.stream] = 0 /\ now' = now /\ vehicle' = vehicle
  BY <1>2, ReceiveEffect DEF StreamEffect, OtherEffect
<1>4. z.boot = (vehicle.up - k) % Modulus /\ z.rx = now
  BY <1>2 DEF TimeBootMs
<1>5. k \in 0 .. MaxGap + Late
  BY <1>2, Limits, LateBounds
<1>6. Old(z, k, p.stream)'
  BY <1>2, <1>3, <1>4, <1>5, LateBounds DEF Old
<1>7. z # None
  BY <1>2, NoneAssumption DEF Sample
<1> QED
  BY <1>5, <1>6, <1>7

\* What Receive does to the samples of a healthy tracker.
LEMMA ReceiveHealthy ==
  ASSUME WellTimed, LinkInv, NEW p \in net, Receive(p) PROVE HealthyInv'
<1> SUFFICES ASSUME Healthy', NEW r \in Streams
             PROVE  /\ tracker.candidates[r]' = None
                    /\ tracker.last[r]' # None =>
                         \E d \in 0 .. MaxGap + Late : Old(tracker.last[r], d, r)'
                    /\ tracker.last[r]' = None /\ tracker.anchor' # None => Awaited(r)'
  BY DEF HealthyInv
<1>1. PICK d : d = Disposition(tracker, p.stream, TimeBootMs(p), now)
  OBVIOUS
<1>2. StreamEffect(p, d, r) /\ CounterEffect(p, d) /\ now' = now /\ vehicle' = vehicle
  BY <1>1, ReceiveEffect DEF OtherEffect
<1>3. Healthy => /\ tracker.candidates[r] = None
                 /\ tracker.last[r] # None =>
                      \E k \in 0 .. MaxGap + Late : Old(tracker.last[r], k, r)
                 /\ tracker.last[r] = None /\ tracker.anchor # None => Awaited(r)
  BY DEF LinkInv, HealthyInv
<1>4. tracker.resets \in Nat /\ vehicle.boot \in Nat
  BY Parts
<1>5. ASSUME Healthy, d # "reset", tracker'.last[r] = tracker.last[r],
             quiet'[r] = quiet[r], tracker'.candidates[r] = tracker.candidates[r]
      PROVE  /\ tracker.candidates[r]' = None
             /\ tracker.last[r]' # None =>
                  \E k \in 0 .. MaxGap + Late : Old(tracker.last[r], k, r)'
             /\ tracker.last[r]' = None /\ tracker.anchor' # None => Awaited(r)'
  <2>1. tracker'.anchor = tracker.anchor
    BY <1>2, <1>5 DEF StreamEffect, CounterEffect
  <2>2. \A k : Old(tracker.last[r], k, r)' <=> Old(tracker.last[r], k, r)
    BY <1>2, <1>5 DEF Old, StreamEffect, CounterEffect
  <2>3. Awaited(r)' <=> Awaited(r)
    BY <1>2, <1>5, <2>1 DEF Awaited, Rebooted, StreamEffect, CounterEffect
  <2> QED
    BY <1>3, <1>5, <2>1, <2>2, <2>3
<1>6. CASE Healthy /\ Present(p)
  <2>1. d \in {"accept", "wrap", "drop_reordered"}
        /\ (d = "drop_reordered" =>
              /\ tracker.last[p.stream] # None
              /\ \E k \in 0 .. MaxGap + Late :
                   Old(tracker.last[p.stream], k, p.stream) /\ k < now - p.at)
    BY <1>1, <1>6, HealthyPresent
  <2>2. CASE r # p.stream
    BY <1>2, <1>5, <1>6, <2>1, <2>2 DEF StreamEffect, CounterEffect
  <2>3. CASE r = p.stream /\ d = "drop_reordered"
    <3>1. PICK k \in 0 .. MaxGap + Late : Old(tracker.last[r], k, r) /\ k < now - p.at
      BY <2>1, <2>3
    <3>2. quiet'[r] = 0 /\ tracker'.last[r] = tracker.last[r]
          /\ tracker'.candidates[r] = None /\ tracker.last[r] # None
      BY <1>2, <1>3, <1>6, <2>1, <2>3 DEF Present, Accepted, StreamEffect, CounterEffect
    <3>3. Old(tracker.last[r], k, r)'
      <4>1. k < Late /\ now \in Nat /\ k \in Nat
            /\ tracker.last[r].rx \in Nat
        BY <3>1, <3>2, Parts, Limits, LateBounds
      <4>2. tracker.last[r].rx > now - 0 - Late
        BY <3>1, <4>1, LateBounds DEF Old
      <4> QED
        BY <1>2, <3>1, <3>2, <4>1, <4>2, LateBounds DEF Old, StreamEffect, CounterEffect
    <3> QED
      BY <3>2, <3>3
  <2>4. CASE r = p.stream /\ d # "drop_reordered"
    <3>1. tracker'.last[r] = [boot |-> TimeBootMs(p), rx |-> now]
          /\ tracker'.candidates[r] = None
      BY <1>2, <2>1, <2>4 DEF Accepted, StreamEffect, CounterEffect
    <3>2. PICK z : z = [boot |-> TimeBootMs(p), rx |-> now]
      OBVIOUS
    <3>3. z # None /\ \E k \in 0 .. MaxGap + Late : Old(z, k, r)'
      BY <1>6, <2>4, <3>2, TakenIsOld
    <3>4. tracker'.last[r] = z
      BY <3>1, <3>2
    <3>5. \A k : Old(z, k, r)' <=> Old(tracker.last[r], k, r)'
      BY <3>4 DEF Old
    <3> QED
      BY <3>1, <3>3, <3>4, <3>5
  <2> QED
    BY <2>2, <2>3, <2>4
<1>7. CASE Healthy /\ Bygone(p)
  <2>1. d = "drop_reordered"
    BY <1>1, <1>7, HealthyBygone
  <2>2. p.boot # vehicle.boot
    BY <1>4, <1>7 DEF Bygone
  <2> QED
    BY <1>2, <1>5, <1>7, <2>1, <2>2 DEF Accepted, StreamEffect, CounterEffect
<1>8. CASE ~ Healthy /\ Present(p)
  <2>1. /\ d \in {"reset", "reset_candidate"}
        /\ vehicle.up <= MaxGap + Late /\ TimeBootMs(p) = p.up
    BY <1>1, <1>8, PendingPresent
  <2>2. d = "reset"
    BY <1>2, <1>8, <2>1 DEF Healthy, StreamEffect, CounterEffect
  <2>3. CASE r = p.stream
    <3>1. tracker'.last[r] = [boot |-> TimeBootMs(p), rx |-> now]
          /\ tracker'.candidates[r] = None
      BY <1>2, <2>2, <2>3 DEF Accepted, StreamEffect, CounterEffect
    <3>2. PICK z : z = [boot |-> TimeBootMs(p), rx |-> now]
      OBVIOUS
    <3>3. z # None /\ \E k \in 0 .. MaxGap + Late : Old(z, k, r)'
      BY <1>8, <2>3, <3>2, TakenIsOld
    <3>4. tracker'.last[r] = z
      BY <3>1, <3>2
    <3>5. \A k : Old(z, k, r)' <=> Old(tracker.last[r], k, r)'
      BY <3>4 DEF Old
    <3> QED
      BY <3>1, <3>3, <3>4, <3>5
  <2>4. CASE r # p.stream
    <3>1. tracker'.last[r] = None /\ tracker'.candidates[r] = None
          /\ tracker'.anchor = [boot |-> p.up, rx |-> now]
      BY <1>2, <2>1, <2>2, <2>4 DEF StreamEffect, CounterEffect
    <3>2. /\ now \in Nat /\ vehicle.up \in Nat /\ p.up \in Nat
          /\ now - p.at \in 0 .. Late /\ p.at \in Nat /\ quiet[r] \in 0 .. MaxGap
          /\ p.up = vehicle.up - (now - p.at) /\ quiet'[r] = quiet[r]
      BY <1>2, <1>8, <2>4, Parts DEF Present, StreamEffect, CounterEffect
    <3>3. Awaited(r)'
      BY <1>2, <2>1, <3>1, <3>2, Limits, LateBounds
      DEF Awaited, Rebooted, StreamEffect, CounterEffect
    <3> QED
      BY <3>1, <3>3
  <2> QED
    BY <2>3, <2>4
<1>9. CASE ~ Healthy /\ Bygone(p)
  <2>1. d \in {"accept", "drop_reordered"}
    BY <1>1, <1>9, PendingBygone
  <2> QED
    BY <1>2, <1>9, <2>1 DEF Healthy, StreamEffect, CounterEffect
<1>10. Present(p) \/ Bygone(p)
  BY DEF LinkInv, NetInv
<1> QED
  BY <1>6, <1>7, <1>8, <1>9, <1>10

\* What Receive does between a reboot and its detection.
LEMMA ReceivePending ==
  ASSUME WellTimed, LinkInv, NEW p \in net, Receive(p) PROVE PendingInv'
<1> SUFFICES ASSUME (~ Healthy)' PROVE PendingInv'
  BY DEF PendingInv
<1>1. PICK d : d = Disposition(tracker, p.stream, TimeBootMs(p), now)
  OBVIOUS
<1>2. /\ \A r \in Streams : StreamEffect(p, d, r)
      /\ CounterEffect(p, d) /\ now' = now /\ vehicle' = vehicle
  BY <1>1, ReceiveEffect DEF OtherEffect
<1>3. tracker.resets \in Nat /\ vehicle.boot \in Nat /\ p.stream \in Streams
      /\ now \in Nat /\ vehicle.up \in Nat /\ (\A r \in Streams : quiet[r] \in 0 .. MaxGap)
  BY Parts
<1>4. ~ Healthy
  <2>1. CASE Healthy
    <3>1. d # "reset"
      BY <1>1, <2>1, ReceiveCases
    <3> QED
      BY <1>2, <2>1, <3>1 DEF Healthy, CounterEffect
  <2> QED
    BY <2>1
<1>5. /\ tracker.resets = vehicle.boot - 1
      /\ \A s \in Streams :
           /\ tracker.last[s] # None
           /\ tracker.last[s].boot \in
                MinUptime - MaxGap - Late .. Modulus - WrapWindow - 1
           /\ tracker.last[s].rx > Rebooted - MaxGap - Late
           /\ tracker.candidates[s] = None => vehicle.up <= quiet[s] + Late
           /\ tracker.candidates[s] # None =>
                /\ tracker.candidates[s].rx = now - quiet[s]
                /\ tracker.candidates[s].boot \in
                     vehicle.up - quiet[s] - Late .. vehicle.up - quiet[s]
      /\ \E s \in Streams : tracker.candidates[s] = None
  BY <1>4 DEF LinkInv, PendingInv
<1>6. CASE Present(p)
  <2>1. /\ d \in {"reset", "reset_candidate"} /\ TimeBootMs(p) = p.up
        /\ d = "reset_candidate" =>
             \A r \in Streams \ {p.stream} : tracker.candidates[r] = None
    BY <1>1, <1>4, <1>6, PendingPresent
  <2>2. d = "reset_candidate"
    BY <1>2, <1>5, <1>3, <2>1 DEF Healthy, CounterEffect
  <2>3. /\ p.up \in Nat /\ p.up <= vehicle.up /\ p.up >= vehicle.up - Late
        /\ p.boot = vehicle.boot
    BY <1>3, <1>6, Parts, LateBounds DEF Present
  <2>4. tracker'.resets = tracker.resets
    BY <1>2, <2>2 DEF CounterEffect
  <2>5. ASSUME NEW s \in Streams
        PROVE  /\ tracker'.last[s] = tracker.last[s]
               /\ tracker'.candidates[s] =
                    IF s = p.stream THEN [boot |-> p.up, rx |-> now]
                    ELSE tracker.candidates[s]
               /\ quiet'[s] = IF s = p.stream THEN 0 ELSE quiet[s]
    BY <1>2, <2>1, <2>2, <2>3 DEF StreamEffect, Accepted
  <2>6. ASSUME NEW s \in Streams
        PROVE  /\ tracker'.candidates[s] = None => vehicle.up <= quiet'[s] + Late
               /\ tracker'.candidates[s] # None =>
                    /\ tracker'.candidates[s].rx = now - quiet'[s]
                    /\ tracker'.candidates[s].boot \in
                         vehicle.up - quiet'[s] - Late .. vehicle.up - quiet'[s]
    <3>1. CASE s = p.stream
      <4>1. [boot |-> p.up, rx |-> now] # None
        <5>1. [boot |-> p.up, rx |-> now] \in Sample
          BY <1>3, <2>1, Parts DEF Sample
        <5> QED
          BY <5>1, NoneAssumption
      <4> QED
        BY <1>3, <2>3, <2>5, <3>1, <4>1, LateBounds
    <3>2. CASE s # p.stream
      BY <1>5, <2>5, <3>2
    <3> QED
      BY <3>1, <3>2
  <2>7. \E s \in Streams : tracker'.candidates[s] = None
    <3>1. PICK s \in Streams : s # p.stream
      BY Limits
    <3> QED
      BY <2>1, <2>2, <2>5, <3>1
  <2> QED
    BY <1>2, <1>5, <2>4, <2>5, <2>6, <2>7 DEF PendingInv, Rebooted
<1>7. CASE Bygone(p)
  <2>1. d \in {"accept", "drop_reordered"} /\ vehicle.up <= Late
    BY <1>1, <1>4, <1>7, PendingBygone
  <2>2. p.boot # vehicle.boot
    BY <1>3, <1>7 DEF Bygone
  <2>3. tracker'.resets = tracker.resets
    BY <1>2, <2>1 DEF CounterEffect
  <2>4. ASSUME NEW s \in Streams
        PROVE  /\ tracker'.last[s] = IF d = "accept" /\ s = p.stream
                                     THEN [boot |-> TimeBootMs(p), rx |-> now]
                                     ELSE tracker.last[s]
               /\ tracker'.candidates[s] = IF d = "accept" /\ s = p.stream THEN None
                                           ELSE tracker.candidates[s]
               /\ quiet'[s] = quiet[s]
    BY <1>2, <2>1, <2>2 DEF StreamEffect, Accepted
  <2>5. ASSUME NEW s \in Streams
        PROVE  /\ tracker'.last[s] # None
               /\ tracker'.last[s].boot \in
                    MinUptime - MaxGap - Late .. Modulus - WrapWindow - 1
               /\ tracker'.last[s].rx > Rebooted - MaxGap - Late
               /\ tracker'.candidates[s] = None => vehicle.up <= quiet'[s] + Late
               /\ tracker'.candidates[s] # None =>
                    /\ tracker'.candidates[s].rx = now - quiet'[s]
                    /\ tracker'.candidates[s].boot \in
                         vehicle.up - quiet'[s] - Late .. vehicle.up - quiet'[s]
    <3>1. CASE d = "accept" /\ s = p.stream
      <4>1. [boot |-> TimeBootMs(p), rx |-> now] # None
        <5>1. [boot |-> TimeBootMs(p), rx |-> now] \in Sample
          BY <1>3, Parts DEF Sample
        <5> QED
          BY <5>1, NoneAssumption
      <4>2. TimeBootMs(p) \in MinUptime - MaxGap - Late .. Modulus - WrapWindow - 1
        BY <1>7, Limits, LateBounds DEF Bygone
      <4>3. now > Rebooted - MaxGap - Late
        BY <1>3, Limits, LateBounds DEF Rebooted
      <4>4. vehicle.up <= quiet'[s] + Late
        BY <1>3, <2>1, <2>4, LateBounds, Limits
      <4> QED
        BY <2>4, <3>1, <4>1, <4>2, <4>3, <4>4
    <3>2. CASE ~ (d = "accept" /\ s = p.stream)
      BY <1>5, <2>4, <3>2
    <3> QED
      BY <3>1, <3>2
  <2>6. \E s \in Streams : tracker'.candidates[s] = None
    BY <1>5, <2>4
  <2> QED
    BY <1>2, <1>5, <2>3, <2>5, <2>6 DEF PendingInv, Rebooted
<1> QED
  BY <1>6, <1>7 DEF LinkInv, NetInv

\* What Receive leaves of the last boot.
LEMMA ReceiveEnd ==
  ASSUME WellTimed, LinkInv, NEW p \in net, Receive(p) PROVE EndInv'
<1>1. PICK d : d = Disposition(tracker, p.stream, TimeBootMs(p), now)
  OBVIOUS
<1>2. /\ \A r \in Streams : StreamEffect(p, d, r)
      /\ CounterEffect(p, d) /\ vehicle' = vehicle /\ net' \subseteq net
  BY <1>1, ReceiveEffect DEF OtherEffect
<1>3. PICK m \in Nat :
        /\ \A q \in net : q.boot # vehicle.boot => TimeBootMs(q) \in m - Late .. m
        /\ ~ Healthy => \A s \in Streams : tracker.last[s].boot <= m
  BY DEF LinkInv, EndInv
<1>4. \A q \in net' : q.boot # vehicle'.boot => TimeBootMs(q) \in m - Late .. m
  BY <1>2, <1>3
<1>5. ASSUME (~ Healthy)', NEW s \in Streams PROVE tracker'.last[s].boot <= m
  <2>1. d # "reset" /\ ~ Healthy
    <3>1. d # "reset" => (Healthy' <=> Healthy)
      BY <1>2 DEF Healthy, CounterEffect
    <3>2. ~ Healthy => tracker.resets = vehicle.boot - 1
      BY DEF LinkInv, PendingInv
    <3>3. ~ Healthy /\ d = "reset" => Healthy'
      BY <1>2, <3>2, Parts DEF Healthy, CounterEffect
    <3>4. Healthy => d # "reset"
      BY <1>1, ReceiveCases
    <3> QED
      BY <1>5, <3>1, <3>3, <3>4
  <2>2. \/ d = "reset_candidate"
        \/ Bygone(p) /\ d \in {"accept", "drop_reordered"}
    BY <1>1, <2>1, ReceiveCases
  <2>3. Bygone(p) => TimeBootMs(p) <= m
    BY <1>3, Parts DEF Bygone, BootTimes
  <2>4. tracker'.last[s] = IF Accepted(d) /\ s = p.stream
                           THEN [boot |-> TimeBootMs(p), rx |-> now] ELSE tracker.last[s]
    BY <1>2, <2>1 DEF StreamEffect
  <2> QED
    BY <1>3, <2>1, <2>2, <2>3, <2>4 DEF Accepted
<1> QED
  BY <1>4, <1>5 DEF EndInv

\* What Receive does to the counts of wraps and resets.
LEMMA ReceiveCounters ==
  ASSUME WellTimed, LinkInv, NEW p \in net, Receive(p) PROVE WrapInv' /\ AnchorInv'
<1>1. PICK d : d = Disposition(tracker, p.stream, TimeBootMs(p), now)
  OBVIOUS
<1>2. CounterEffect(p, d) /\ now' = now /\ vehicle' = vehicle
  BY <1>1, ReceiveEffect DEF OtherEffect
<1>3. /\ tracker.resets \in Nat /\ now \in Nat /\ tracker.wraps \in Nat
      /\ vehicle.wraps \in Nat /\ vehicle.up \in Nat
      /\ tracker.lastWrap # None => tracker.lastWrap \in Nat
      /\ vehicle.up % Modulus \in 0 .. Modulus - 1
  BY Parts, Limits, ModRange DEF LinkInv, TelemetryTypeOK, Tracker
<1>4. WrapInv
  BY DEF LinkInv
<1>5. WrapInv'
  <2>1. CASE d # "wrap"
    BY <1>2, <1>4, <2>1 DEF WrapInv, CounterEffect
  <2>2. CASE d = "wrap"
    <3>1. /\ vehicle.up >= Modulus /\ vehicle.up % Modulus < now
          /\ vehicle.up % Modulus < MaxGap + Late
      BY <1>1, <2>2, ReceiveCases
    <3>2. tracker.wraps = vehicle.wraps =>
            /\ tracker.lastWrap # None
            /\ tracker.lastWrap >= now - (vehicle.up % Modulus)
      BY <1>4, <3>1 DEF WrapInv
    <3>3. CASE tracker.lastWrap # None /\ now - tracker.lastWrap <= ConfirmationWindow
      BY <1>2, <1>4, <2>2, <3>3 DEF WrapInv, CounterEffect
    <3>4. CASE ~ (tracker.lastWrap # None /\ now - tracker.lastWrap <= ConfirmationWindow)
      <4>1. tracker.wraps # vehicle.wraps
        BY <1>3, <3>1, <3>2, <3>4, Limits, LateBounds DEF WellTimed
      <4>2. tracker.wraps + 1 <= vehicle.wraps
        BY <1>3, <1>4, <4>1 DEF WrapInv
      <4>3. tracker'.wraps = tracker.wraps + 1 /\ tracker'.lastWrap = now
        BY <1>2, <2>2, <3>4 DEF CounterEffect
      <4>4. now # None
        BY <1>3, NoneAssumption
      <4> QED
        BY <1>2, <1>3, <4>2, <4>3, <4>4 DEF WrapInv
    <3> QED
      BY <3>3, <3>4
  <2> QED
    BY <2>1, <2>2
<1>6. AnchorInv'
  <2>1. [boot |-> TimeBootMs(p), rx |-> now] # None
    <3>1. [boot |-> TimeBootMs(p), rx |-> now] \in Sample
      BY <1>3, Parts DEF Sample
    <3> QED
      BY <3>1, NoneAssumption
  <2>2. AnchorInv
    BY DEF LinkInv
  <2> QED
    BY <1>2, <1>3, <2>1, <2>2 DEF AnchorInv, CounterEffect
<1> QED
  BY <1>5, <1>6

\* What Receive does to the cache.
LEMMA ReceiveCache ==
  ASSUME WellTimed, LinkInv, NEW p \in net, Receive(p) PROVE CacheInv'
<1> SUFFICES ASSUME NEW s \in Streams, cache'[s] # None
             PROVE  /\ cache'[s].packet.stream = s
                    /\ cache'[s].packet.boot = tracker'.resets
                    /\ cache'[s].rx \in
                         cache'[s].packet.at .. cache'[s].packet.at + Delay[s]
                    /\ cache'[s].rx <= now'
                    /\ tracker'.last[s] # None
                    /\ tracker'.last[s].rx = cache'[s].rx
                    /\ (~ Healthy)' => cache'[s].packet.at <= Rebooted'
  BY DEF CacheInv
<1>1. PICK d : d = Disposition(tracker, p.stream, TimeBootMs(p), now)
  OBVIOUS
<1>2. /\ StreamEffect(p, d, s)
      /\ CounterEffect(p, d) /\ now' = now /\ vehicle' = vehicle
  BY <1>1, ReceiveEffect DEF OtherEffect
<1>3. tracker.resets \in Nat /\ vehicle.boot \in Nat /\ p.stream \in Streams
      /\ now \in Nat /\ vehicle.up \in Nat /\ TimeBootMs(p) \in BootTimes
      /\ p.at \in 1 .. now /\ now - p.at <= Delay[p.stream] /\ Delay[p.stream] \in Nat
  BY Parts, LateBounds
<1>4. ~ Healthy => tracker.resets = vehicle.boot - 1
  BY DEF LinkInv, PendingInv
<1>5. Present(p) \/ Bygone(p)
  BY DEF LinkInv, NetInv
<1>6. CASE s = p.stream /\ Accepted(d)
  <2>1. /\ cache'[s] = [packet |-> p, rx |-> now]
        /\ tracker'.last[s] = [boot |-> TimeBootMs(p), rx |-> now]
    BY <1>2, <1>6 DEF StreamEffect
  <2>2. [boot |-> TimeBootMs(p), rx |-> now] # None
    <3>1. [boot |-> TimeBootMs(p), rx |-> now] \in Sample
      BY <1>3 DEF Sample
    <3> QED
      BY <3>1, NoneAssumption
  <2>3. \/ Present(p) /\ tracker'.resets = vehicle.boot
        \/ Bygone(p) /\ tracker'.resets = vehicle.boot - 1
    <3>1. CASE Healthy /\ Present(p)
      BY <1>1, <1>2, <1>3, <3>1, HealthyPresent DEF CounterEffect, Healthy
    <3>2. CASE Healthy /\ Bygone(p)
      BY <1>1, <1>6, <3>2, HealthyBygone DEF Accepted
    <3>3. CASE ~ Healthy /\ Present(p)
      <4>1. d = "reset"
        BY <1>1, <1>6, <3>3, PendingPresent DEF Accepted
      <4> QED
        BY <1>2, <1>3, <1>4, <3>3, <4>1 DEF CounterEffect
    <3>4. CASE ~ Healthy /\ Bygone(p)
      BY <1>1, <1>2, <1>3, <1>4, <3>4, PendingBygone DEF CounterEffect
    <3> QED
      BY <1>5, <3>1, <3>2, <3>3, <3>4
  <2>4. p.boot = tracker'.resets
    BY <2>3 DEF Present, Bygone
  <2>5. (~ Healthy)' => p.at <= Rebooted'
    BY <1>2, <2>3 DEF Healthy, Bygone, Rebooted
  <2> QED
    BY <1>2, <1>3, <1>6, <2>1, <2>2, <2>4, <2>5
<1>7. CASE ~ (s = p.stream /\ Accepted(d))
  <2>1. d # "reset" /\ cache'[s] = cache[s] /\ cache[s] # None
    BY <1>2, <1>7 DEF StreamEffect, Accepted
  <2>2. tracker'.last[s] = tracker.last[s] /\ tracker'.resets = tracker.resets
    BY <1>2, <1>7, <2>1 DEF StreamEffect, CounterEffect
  <2>3. Healthy' <=> Healthy
    BY <1>2, <2>2 DEF Healthy
  <2> QED
    BY <1>2, <2>1, <2>2, <2>3 DEF LinkInv, CacheInv, Rebooted
<1> QED
  BY <1>6, <1>7

\* Receive keeps the invariant of the link.
LEMMA ReceiveLink ==
  ASSUME WellTimed, LinkInv, NEW p \in net, Receive(p) PROVE LinkInv'
<1>1. PICK d : d = Disposition(tracker, p.stream, TimeBootMs(p), now)
  OBVIOUS
<1>2. /\ \A r \in Streams : StreamEffect(p, d, r)
      /\ OtherEffect(p, d)
  BY <1>1, ReceiveEffect
<1>3. TelemetryTypeOK'
  BY ReceiveTypes DEF LinkInv
<1>4. QuietInv'
  <2>1. \A q \in Streams \cup {Timer} : quiet'[q] = quiet[q] \/ quiet'[q] = 0
    BY <1>2 DEF StreamEffect, OtherEffect
  <2> QED
    BY <2>1, Parts, Limits DEF QuietInv
<1>5. NetInv'
  <2>1. net' \subseteq net /\ now' = now /\ vehicle' = vehicle
    BY <1>2 DEF OtherEffect
  <2> QED
    BY <2>1 DEF LinkInv, NetInv, Present, Bygone, Rebooted
<1> QED
  BY <1>3, <1>4, <1>5, ReceiveHealthy, ReceivePending, ReceiveEnd, ReceiveCounters,
     ReceiveCache
  DEF LinkInv

\* One tick of every clock.
LEMMA TickLink ==
  ASSUME WellTimed, LinkInv, Tick PROVE LinkInv'
<1>1. /\ now \in Nat /\ vehicle.up \in Nat /\ vehicle.boot \in Nat
      /\ vehicle.wraps \in Nat /\ tracker.wraps \in Nat
      /\ \A q \in Streams \cup {Timer} : quiet[q] \in 0 .. MaxGap
      /\ DOMAIN quiet = Streams \cup {Timer}
      /\ vehicle \in [boot : Nat, up : Nat, wraps : Nat, origin : Nat]
  BY Parts DEF LinkInv, TelemetryTypeOK
<1>2. /\ now' = now + 1 /\ tracker' = tracker /\ cache' = cache
      /\ vehicle'.up = vehicle.up + 1 /\ vehicle'.boot = vehicle.boot
      /\ vehicle'.wraps = IF (vehicle.up + 1) % Modulus = 0 THEN vehicle.wraps + 1
                          ELSE vehicle.wraps
      /\ \A q \in Streams \cup {Timer} : quiet'[q] = quiet[q] + 1 /\ quiet[q] < MaxGap
  BY <1>1 DEF Tick
<1>3. (Rebooted' = Rebooted) /\ (Healthy' <=> Healthy)
  BY <1>1, <1>2 DEF Rebooted, Healthy
<1>4. TelemetryTypeOK'
  BY TelemetryTypeStep DEF TelemetryNext, LinkInv
<1>5. QuietInv'
  BY <1>1, <1>2, Limits DEF QuietInv
<1>6. NetInv'
  <2> SUFFICES ASSUME NEW p \in net'
               PROVE  /\ p.at \in 1 .. now' /\ now' - p.at <= Delay[p.stream]
                      /\ Present(p)' \/ Bygone(p)'
    BY DEF NetInv
  <2>1. CASE p \in net /\ now' - p.at <= Delay[p.stream]
    <3>1. /\ p.at \in 1 .. now /\ p.up \in Nat
          /\ Present(p) \/ Bygone(p)
      BY <2>1, Parts DEF LinkInv, NetInv
    <3>2. Present(p) => Present(p)'
      BY <1>1, <1>2, <3>1 DEF Present
    <3>3. Bygone(p) => Bygone(p)'
      BY <1>2, <1>3 DEF Bygone
    <3> QED
      BY <1>1, <1>2, <2>1, <3>1, <3>2, <3>3
  <2>2. CASE \E s \in Streams : p = [stream |-> s, boot |-> vehicle.boot,
                  up |-> vehicle'.up, origin |-> vehicle.origin, at |-> now']
    <3>1. PICK s \in Streams : p = [stream |-> s, boot |-> vehicle.boot,
                  up |-> vehicle'.up, origin |-> vehicle.origin, at |-> now']
      BY <2>2
    <3>2. /\ p.stream = s /\ p.boot = vehicle.boot /\ p.up = vehicle'.up
          /\ p.at = now'
      BY <3>1
    <3>3. Present(p)'
      BY <1>1, <1>2, <3>2 DEF Present
    <3> QED
      BY <1>1, <1>2, <3>2, <3>3, LateBounds
  <2> QED
    BY <2>1, <2>2 DEF Tick
<1>7. HealthyInv'
  <2> SUFFICES ASSUME Healthy', NEW s \in Streams
               PROVE  /\ tracker.candidates[s]' = None
                      /\ tracker.last[s]' # None =>
                           \E d \in 0 .. MaxGap + Late : Old(tracker.last[s], d, s)'
                      /\ tracker.last[s]' = None /\ tracker.anchor' # None => Awaited(s)'
    BY DEF HealthyInv
  <2>1. /\ tracker.candidates[s] = None
        /\ tracker.last[s] # None =>
             \E d \in 0 .. MaxGap + Late : Old(tracker.last[s], d, s)
        /\ tracker.last[s] = None /\ tracker.anchor # None => Awaited(s)
    BY <1>3 DEF LinkInv, HealthyInv
  <2>2. ASSUME tracker.last[s] # None
        PROVE  \E d \in 0 .. MaxGap + Late : Old(tracker.last[s], d, s)'
    <3>1. PICK d \in 0 .. MaxGap + Late : Old(tracker.last[s], d, s)
      BY <2>1, <2>2
    <3>2. /\ d \in Nat /\ d + 1 \in 0 .. MaxGap + Late
          /\ (vehicle.up + 1) - (d + 1) = vehicle.up - d
      BY <1>1, <1>2, <3>1, Limits, LateBounds DEF Old
    <3>3. tracker.last[s].rx \in Nat
      BY <2>2, Parts
    <3>4. Old(tracker.last[s], d + 1, s)'
      BY <1>1, <1>2, <3>1, <3>2, <3>3, LateBounds DEF Old
    <3> QED
      BY <3>2, <3>4
  <2>3. tracker.last[s] = None /\ tracker.anchor # None => Awaited(s)'
    <3>1. tracker.anchor # None => tracker.anchor.rx \in Nat
      BY Parts
    <3> QED
      BY <1>1, <1>2, <1>3, <2>1, <3>1 DEF Awaited
  <2> QED
    BY <1>2, <2>1, <2>2, <2>3
<1>8. PendingInv'
  <2> SUFFICES ASSUME (~ Healthy)' PROVE PendingInv'
    BY DEF PendingInv
  <2>1. /\ tracker.resets = vehicle.boot - 1
        /\ \A s \in Streams :
             /\ tracker.last[s] # None
             /\ tracker.last[s].boot \in
                  MinUptime - MaxGap - Late .. Modulus - WrapWindow - 1
             /\ tracker.last[s].rx > Rebooted - MaxGap - Late
             /\ tracker.candidates[s] = None => vehicle.up <= quiet[s] + Late
             /\ tracker.candidates[s] # None =>
                  /\ tracker.candidates[s].rx = now - quiet[s]
                  /\ tracker.candidates[s].boot \in
                       vehicle.up - quiet[s] - Late .. vehicle.up - quiet[s]
        /\ \E s \in Streams : tracker.candidates[s] = None
    BY <1>3 DEF LinkInv, PendingInv
  <2>2. ASSUME NEW s \in Streams
        PROVE  /\ tracker.candidates[s] = None => vehicle'.up <= quiet'[s] + Late
               /\ tracker.candidates[s] # None =>
                    /\ tracker.candidates[s].rx = now' - quiet'[s]
                    /\ tracker.candidates[s].boot \in
                         vehicle'.up - quiet'[s] - Late .. vehicle'.up - quiet'[s]
    BY <1>1, <1>2, <2>1, LateBounds
  <2> QED
    BY <1>2, <1>3, <2>1, <2>2 DEF PendingInv
<1>9. WrapInv'
  <2>1. WrapInv
    BY DEF LinkInv
  <2>2. CASE (vehicle.up + 1) % Modulus = 0
    BY <1>1, <1>2, <2>1, <2>2 DEF WrapInv
  <2>3. CASE (vehicle.up + 1) % Modulus # 0
    <3>1. /\ (vehicle.up + 1) % Modulus = (vehicle.up % Modulus) + 1
          /\ vehicle.up % Modulus \in Nat
          /\ vehicle.up + 1 >= Modulus => vehicle.up >= Modulus
      <4>1. 1 \in 0 .. Modulus - 1
        BY Limits
      <4>2. (vehicle.up + 1) % Modulus =
              IF (vehicle.up % Modulus) + 1 < Modulus THEN (vehicle.up % Modulus) + 1
              ELSE (vehicle.up % Modulus) + 1 - Modulus
        BY <1>1, <4>1, ModStep, Limits
      <4>3. vehicle.up % Modulus \in 0 .. Modulus - 1
        BY <1>1, ModRange, Limits
      <4>4. vehicle.up < Modulus => vehicle.up % Modulus = vehicle.up
        BY <1>1, ModRange, Limits
      <4> QED
        BY <1>1, <2>3, <4>2, <4>3, <4>4, Limits
    <3>2. tracker.lastWrap # None => tracker.lastWrap \in Nat
      BY DEF LinkInv, TelemetryTypeOK, Tracker
    <3> QED
      BY <1>1, <1>2, <2>1, <2>3, <3>1, <3>2 DEF WrapInv
  <2> QED
    BY <2>2, <2>3
<1>10. EndInv'
  <2>1. PICK m \in Nat :
          /\ \A p \in net : p.boot # vehicle.boot => TimeBootMs(p) \in m - Late .. m
          /\ ~ Healthy => \A s \in Streams : tracker.last[s].boot <= m
    BY DEF LinkInv, EndInv
  <2>2. \A p \in net' : p \in net \/ p.boot = vehicle.boot
    BY DEF Tick
  <2> QED
    BY <1>2, <1>3, <2>1, <2>2 DEF EndInv
<1>11. AnchorInv' /\ CacheInv'
  <2>1. AnchorInv'
    BY <1>2 DEF LinkInv, AnchorInv
  <2>2. CacheInv'
    <3> SUFFICES ASSUME NEW s \in Streams, cache'[s] # None
                 PROVE  /\ cache'[s].packet.stream = s
                        /\ cache'[s].packet.boot = tracker'.resets
                        /\ cache'[s].rx \in
                             cache'[s].packet.at .. cache'[s].packet.at + Delay[s]
                        /\ cache'[s].rx <= now'
                        /\ tracker'.last[s] # None
                        /\ tracker'.last[s].rx = cache'[s].rx
                        /\ (~ Healthy)' => cache'[s].packet.at <= Rebooted'
      BY DEF CacheInv
    <3>1. cache[s].rx \in Nat
      BY <1>2 DEF LinkInv, TelemetryTypeOK, Cached
    <3> QED
      BY <1>1, <1>2, <1>3, <3>1 DEF LinkInv, CacheInv
  <2> QED
    BY <2>1, <2>2
<1> QED
  BY <1>4, <1>5, <1>6, <1>7, <1>8, <1>9, <1>11, <1>10 DEF LinkInv

\* An autopilot that reboots has been up for long enough that its last reboot, if
\* any, is known.
LEMMA RebootWhenHealthy ==
  ASSUME WellTimed, LinkInv, Reboot PROVE Healthy
<1>1. /\ vehicle.up \in Nat /\ \A s \in Streams : quiet[s] \in 0 .. MaxGap
      /\ vehicle.up % Modulus \in MinUptime .. Modulus - WrapWindow - 1
  BY Parts DEF Reboot
<1>2. vehicle.up >= MinUptime
  <2>1. vehicle.up % Modulus <= vehicle.up
    BY <1>1, ModRange, Limits
  <2>2. vehicle.up % Modulus >= MinUptime
    BY <1>1, Limits
  <2> QED
    BY <1>1, <2>1, <2>2, Limits
<1>3. ~ Healthy => \E s \in Streams : vehicle.up <= quiet[s] + Late
  BY DEF LinkInv, PendingInv
<1> QED
  BY <1>1, <1>2, <1>3, Limits, LateBounds DEF WellTimed

\* A reboot: the samples of the tracker are of before, and nothing else is.
LEMMA RebootLink ==
  ASSUME WellTimed, LinkInv, Reboot PROVE LinkInv'
<1>1. /\ now \in Nat /\ vehicle.up \in Nat /\ vehicle.boot \in Nat
      /\ vehicle.wraps \in Nat /\ tracker.resets \in Nat
      /\ \A q \in Streams \cup {Timer} : quiet[q] \in 0 .. MaxGap
      /\ quiet \in [Streams \cup {Timer} -> Nat]
      /\ vehicle \in [boot : Nat, up : Nat, wraps : Nat, origin : Nat]
  BY Parts DEF LinkInv, TelemetryTypeOK
<1>2. /\ now' = now /\ net' = net /\ tracker' = tracker /\ cache' = cache
      /\ vehicle'.up = 0 /\ vehicle'.boot = vehicle.boot + 1
      /\ vehicle'.wraps = vehicle.wraps
      /\ \A s \in Streams : quiet'[s] = 0
      /\ quiet'[Timer] = quiet[Timer]
      /\ \A s \in Streams : tracker.last[s] # None
      /\ vehicle.up % Modulus \in MinUptime .. Modulus - WrapWindow - 1
  BY <1>1, Limits DEF Reboot, Timer, Att, Pos
<1>3. vehicle.up % Modulus <= vehicle.up /\ vehicle.up >= MinUptime
  <2>1. vehicle.up % Modulus <= vehicle.up
    BY <1>1, ModRange, Limits
  <2>2. vehicle.up % Modulus >= MinUptime
    BY <1>2, Limits
  <2> QED
    BY <1>1, <2>1, <2>2, Limits
<1>4. Healthy
  BY RebootWhenHealthy
<1>5. Rebooted' = now /\ ~ (Healthy')
  BY <1>1, <1>2, <1>4 DEF Rebooted, Healthy
<1>6. TelemetryTypeOK'
  BY TelemetryTypeStep DEF TelemetryNext, LinkInv
<1>7. QuietInv'
  BY <1>1, <1>2, Limits DEF QuietInv
\* The clock d ticks before the reboot.
<1>8. ASSUME NEW d \in Nat, d <= MaxGap + Late
      PROVE  (vehicle.up - d) % Modulus = (vehicle.up % Modulus) - d
  <2>1. d <= vehicle.up /\ d <= vehicle.up % Modulus /\ d < Modulus
    BY <1>1, <1>2, <1>3, <1>8, Limits, LateBounds DEF WellTimed
  <2>2. vehicle.up - d \in Nat /\ vehicle.up - d <= vehicle.up
        /\ vehicle.up - (vehicle.up - d) < Modulus
    BY <1>1, <1>8, <2>1
  <2>3. \/ vehicle.up % Modulus =
             ((vehicle.up - d) % Modulus) + (vehicle.up - (vehicle.up - d))
        \/ vehicle.up % Modulus =
             ((vehicle.up - d) % Modulus) + (vehicle.up - (vehicle.up - d)) - Modulus
    BY <1>1, <2>2, ModLater, Limits
  <2>4. (vehicle.up - d) % Modulus \in 0 .. Modulus - 1
    BY <2>2, ModRange, Limits
  <2> QED
    BY <1>1, <1>2, <1>8, <2>1, <2>3, <2>4, Limits
\* What was on its way and what was heard of the boot that ends.
<1>9. ASSUME NEW p \in net
      PROVE  /\ Present(p)
             /\ TimeBootMs(p) \in (vehicle.up % Modulus) - Late .. vehicle.up % Modulus
  <2>1. /\ p.at \in 1 .. now /\ now - p.at \in 0 .. Late /\ p.up \in Nat
        /\ Present(p) \/ Bygone(p)
    BY Parts DEF LinkInv, NetInv
  <2>2. Present(p)
    <3>1. ~ (p.at <= now - vehicle.up)
      BY <1>1, <1>3, <2>1, Limits, LateBounds DEF WellTimed
    <3> QED
      BY <2>1, <3>1 DEF Bygone, Rebooted
  <2>3. PICK d : d = now - p.at
    OBVIOUS
  <2>4. d \in Nat /\ d <= Late /\ d <= MaxGap + Late /\ p.up = vehicle.up - d
    BY <1>1, <2>1, <2>2, <2>3, Limits, LateBounds DEF Present
  <2>5. TimeBootMs(p) = (vehicle.up % Modulus) - d
    BY <1>8, <2>4 DEF TimeBootMs
  <2> QED
    BY <1>2, <2>2, <2>4, <2>5, Limits, LateBounds
<1>10. ASSUME NEW s \in Streams
       PROVE  \E d \in 0 .. MaxGap + Late :
                /\ tracker.last[s].boot = (vehicle.up % Modulus) - d
                /\ tracker.last[s].rx > now - quiet[s] - Late
  <2>1. PICK d \in 0 .. MaxGap + Late : Old(tracker.last[s], d, s)
    BY <1>2, <1>4 DEF LinkInv, HealthyInv
  <2>2. d \in Nat /\ d <= MaxGap + Late
    BY Limits, LateBounds
  <2>3. tracker.last[s].boot = (vehicle.up % Modulus) - d
    BY <1>8, <2>1, <2>2 DEF Old
  <2> QED
    BY <2>1, <2>3 DEF Old
<1>11. NetInv'
  <2> SUFFICES ASSUME NEW p \in net PROVE Bygone(p)'
    BY <1>2 DEF LinkInv, NetInv
  <2>1. p.at \in 1 .. now /\ Present(p)
    BY <1>9, Parts
  <2>2. TimeBootMs(p) \in MinUptime - Late .. Modulus - WrapWindow - 1
    BY <1>1, <1>2, <1>9, Limits, LateBounds
  <2> QED
    BY <1>1, <1>2, <1>5, <2>1, <2>2 DEF Present, Bygone
<1>12. EndInv'
  <2>1. PICK m \in Nat : m = vehicle.up % Modulus
    BY <1>1, ModRange, Limits
  <2>2. \A p \in net' : TimeBootMs(p) \in m - Late .. m
    BY <1>2, <1>9, <2>1
  <2>3. \A s \in Streams : tracker'.last[s].boot <= m
    BY <1>2, <1>10, <2>1, Limits, LateBounds
  <2> QED
    BY <2>2, <2>3 DEF EndInv
<1>13. PendingInv'
  <2>1. ASSUME NEW s \in Streams
        PROVE  /\ tracker.last[s].boot \in
                    MinUptime - MaxGap - Late .. Modulus - WrapWindow - 1
               /\ tracker.last[s].rx > now - MaxGap - Late
               /\ tracker.candidates[s] = None
    <3>1. PICK d \in 0 .. MaxGap + Late :
            /\ tracker.last[s].boot = (vehicle.up % Modulus) - d
            /\ tracker.last[s].rx > now - quiet[s] - Late
      BY <1>10
    <3>2. d \in Nat /\ d <= MaxGap + Late /\ tracker.last[s].rx \in Nat
      BY <1>2, Parts, Limits, LateBounds
    <3>3. tracker.candidates[s] = None
      BY <1>4 DEF LinkInv, HealthyInv
    <3> QED
      BY <1>1, <1>2, <3>1, <3>2, <3>3, Limits, LateBounds
  <2>2. 0 <= 0 + Late
    BY LateBounds
  <2>3. \E s \in Streams : tracker.candidates[s] = None
    BY <2>1, Limits
  <2> QED
    BY <1>1, <1>2, <1>4, <1>5, <2>1, <2>2, <2>3 DEF PendingInv, Healthy
<1>14. HealthyInv'
  BY <1>5 DEF HealthyInv
<1>15. WrapInv'
  BY <1>2, Limits DEF LinkInv, WrapInv
<1>16. AnchorInv'
  BY <1>2 DEF LinkInv, AnchorInv
<1>17. CacheInv'
  <2> SUFFICES ASSUME NEW s \in Streams, cache[s] # None
               PROVE  cache[s].packet.at <= now
    BY <1>2, <1>5 DEF LinkInv, CacheInv
  <2>1. cache[s].packet.at \in Nat /\ cache[s].rx \in Nat
    BY DEF LinkInv, TelemetryTypeOK, Cached, Packet
  <2> QED
    BY <1>1, <2>1, LateBounds DEF LinkInv, CacheInv
<1> QED
  BY <1>6, <1>7, <1>11, <1>12, <1>13, <1>14, <1>15, <1>16, <1>17 DEF LinkInv

\* What does not touch the link or the tracker.
LEMMA NodeLink ==
  ASSUME LinkInv, TelemetryTypeOK',
         UNCHANGED <<now, net, tracker, cache>>,
         vehicle'.up = vehicle.up, vehicle'.boot = vehicle.boot,
         vehicle'.wraps = vehicle.wraps,
         \A s \in Streams : quiet'[s] = quiet[s], quiet'[Timer] \in {0, quiet[Timer]}
  PROVE  LinkInv'
<1>1. Rebooted' = Rebooted /\ (Healthy' <=> Healthy)
  BY DEF Rebooted, Healthy
<1>2. QuietInv'
  BY Limits DEF LinkInv, QuietInv
<1>3. NetInv'
  BY <1>1 DEF LinkInv, NetInv, Present, Bygone
<1>4. HealthyInv'
  <2>1. ASSUME NEW s \in Streams, NEW d
        PROVE  Old(tracker.last[s], d, s)' <=> Old(tracker.last[s], d, s)
    BY DEF Old
  <2>2. ASSUME NEW s \in Streams PROVE Awaited(s)' <=> Awaited(s)
    BY <1>1 DEF Awaited
  <2> QED
    BY <1>1, <2>1, <2>2 DEF LinkInv, HealthyInv
<1>5. PendingInv'
  BY <1>1 DEF LinkInv, PendingInv
<1>6. WrapInv' /\ AnchorInv' /\ EndInv'
  BY <1>1 DEF LinkInv, WrapInv, AnchorInv, EndInv
<1>7. CacheInv'
  BY <1>1 DEF LinkInv, CacheInv
<1> QED
  BY <1>2, <1>3, <1>4, <1>5, <1>6, <1>7 DEF LinkInv

\* Nothing is on its way and nothing was heard.
LEMMA LinkInit == WellTimed /\ TelemetryInit => LinkInv
<1> SUFFICES ASSUME WellTimed, TelemetryInit PROVE LinkInv
  OBVIOUS
<1>1. /\ vehicle.boot = 0 /\ vehicle.wraps = 0 /\ vehicle.up \in Nat /\ now = 0
      /\ tracker.resets = 0 /\ tracker.wraps = 0 /\ tracker.anchor = None
      /\ \A s \in Streams : tracker.last[s] = None /\ tracker.candidates[s] = None
      /\ \A s \in Streams : cache[s] = None
      /\ \A q \in Streams \cup {Timer} : quiet[q] = 0
      /\ net = {}
  BY TelemetryAssumption DEF TelemetryInit, NewTracker
<1>2. vehicle.up % Modulus \in Nat
  BY <1>1, ModRange, Limits
<1>3. TelemetryTypeOK
  BY TelemetryTypeInit
<1>4. QuietInv /\ NetInv /\ AnchorInv /\ CacheInv
  BY <1>1, Limits DEF QuietInv, NetInv, AnchorInv, CacheInv
<1>5. EndInv
  BY <1>1 DEF EndInv, Healthy
<1>6. HealthyInv /\ PendingInv
  BY <1>1 DEF HealthyInv, PendingInv, Healthy
<1>7. WrapInv
  BY <1>1, <1>2 DEF WrapInv
<1> QED
  BY <1>3, <1>4, <1>6, <1>7, <1>5 DEF LinkInv

\* LinkInv is inductive: one step per action.
LEMMA LinkStep ==
  ASSUME WellTimed PROVE LinkInv /\ [TelemetryNext]_telemetryvars => LinkInv'
<1> SUFFICES ASSUME LinkInv, [TelemetryNext]_telemetryvars PROVE LinkInv'
  OBVIOUS
<1>0. TelemetryTypeOK' /\ quiet \in [Streams \cup {Timer} -> Nat]
      /\ Timer \notin Streams
  BY TelemetryTypeStep, Limits DEF LinkInv, TelemetryTypeOK, Timer, Att, Pos
<1>1. CASE Tick
  BY <1>1, TickLink
<1>2. CASE Reboot
  BY <1>2, RebootLink
<1>3. CASE MoveOrigin
  <2>1. /\ vehicle'.up = vehicle.up /\ vehicle'.boot = vehicle.boot
        /\ vehicle'.wraps = vehicle.wraps
    BY <1>3 DEF MoveOrigin, LinkInv, TelemetryTypeOK
  <2> QED
    BY <1>0, <1>3, <2>1, NodeLink DEF MoveOrigin
<1>4. CASE \E p \in net : Receive(p)
  BY <1>4, ReceiveLink
<1>5. CASE NodeTick
  BY <1>0, <1>5, NodeLink DEF NodeTick, autopilot
<1>6. CASE StartControl
  BY <1>0, <1>6, NodeLink DEF StartControl, autopilot
<1>7. CASE StopControl
  BY <1>0, <1>7, NodeLink DEF StopControl, autopilot
<1>8. CASE UNCHANGED telemetryvars
  BY <1>0, <1>8, NodeLink DEF telemetryvars
<1> QED
  BY <1>1, <1>2, <1>3, <1>4, <1>5, <1>6, <1>7, <1>8 DEF TelemetryNext

\* The tracker never counts a reset or a wrap that did not happen, on a link that
\* keeps the times the tracker is set up for.
THEOREM ResetsAreReboots ==
  ASSUME WellTimed PROVE TelemetrySpec => []NoSpuriousReset
<1>1. LinkInv => NoSpuriousReset
  BY Parts DEF LinkInv, PendingInv, WrapInv, Healthy, NoSpuriousReset
<1> QED
  BY <1>1, LinkInit, LinkStep, PTL DEF TelemetrySpec

\* The tracker knows of every reboot once both streams had the time to report it.
THEOREM RebootsAreAnnounced ==
  ASSUME WellTimed PROVE TelemetrySpec => []RebootAnnounced
<1>1. LinkInv => RebootAnnounced
  <2> SUFFICES ASSUME LinkInv, vehicle.up >= AnnounceBy PROVE Healthy
    BY DEF RebootAnnounced, Healthy
  <2>1. ~ Healthy => \E s \in Streams : vehicle.up <= quiet[s] + Late
    BY DEF LinkInv, PendingInv
  <2> QED
    BY <2>1, Parts, Limits, LateBounds DEF WellTimed, AnnounceBy
<1> QED
  BY <1>1, LinkInit, LinkStep, PTL DEF TelemetrySpec

-----------------------------------------------------------------------------
(* What is called valid *)

-----------------------------------------------------------------------------
(* Telemetry: the samples in the cache are of the clock they claim *)

\* Packets of one boot were sent on one clock.
Carried == net \cup {cache[s].packet : s \in {r \in Streams : cache[r] # None}}
ClockInv ==
  \A p \in Carried :
    /\ p.boot = vehicle.boot => p.up - p.at = vehicle.up - now
    /\ \A q \in Carried : p.boot = q.boot => p.up - p.at = q.up - q.at

\* The types of what is carried.
LEMMA CarriedTypes ==
  ASSUME LinkInv
  PROVE  \A p \in Carried : /\ p.boot \in Nat /\ p.up \in Nat /\ p.at \in Nat
                            /\ p.boot <= vehicle.boot
<1>1. \A p \in net : /\ p.boot \in Nat /\ p.up \in Nat /\ p.at \in Nat
                     /\ p.boot <= vehicle.boot
  BY Parts DEF LinkInv, NetInv, Present, Bygone
<1>2. ASSUME NEW s \in Streams, cache[s] # None
      PROVE  /\ cache[s].packet.boot \in Nat /\ cache[s].packet.up \in Nat
             /\ cache[s].packet.at \in Nat /\ cache[s].packet.boot <= vehicle.boot
  <2>1. cache[s] \in Cached
    BY <1>2 DEF LinkInv, TelemetryTypeOK
  <2>2. cache[s].packet.boot = tracker.resets
    BY <1>2 DEF LinkInv, CacheInv
  <2>3. tracker.resets <= vehicle.boot
    BY Parts DEF LinkInv, PendingInv, Healthy
  <2> QED
    BY <2>1, <2>2, <2>3 DEF Cached, Packet
<1> QED
  BY <1>1, <1>2 DEF Carried

\* Initially nothing is carried.
LEMMA ClockInit == TelemetryInit => ClockInv
BY DEF TelemetryInit, ClockInv, Carried

\* ClockInv is inductive next to LinkInv.
LEMMA ClockStep ==
  ASSUME WellTimed PROVE LinkInv /\ ClockInv /\ [TelemetryNext]_telemetryvars => ClockInv'
<1> SUFFICES ASSUME LinkInv, ClockInv, [TelemetryNext]_telemetryvars PROVE ClockInv'
  OBVIOUS
<1>0. now \in Nat /\ vehicle.up \in Nat /\ vehicle.boot \in Nat
      /\ vehicle \in [boot : Nat, up : Nat, wraps : Nat, origin : Nat]
  BY Parts DEF LinkInv, TelemetryTypeOK
<1>1. CASE Tick
  <2>1. now' = now + 1 /\ vehicle'.up = vehicle.up + 1 /\ vehicle'.boot = vehicle.boot
    BY <1>0, <1>1 DEF Tick
  <2>2. ASSUME NEW p \in Carried', p \notin Carried
        PROVE  p.boot = vehicle.boot /\ p.up = vehicle'.up /\ p.at = now'
    BY <1>1, <2>2 DEF Tick, Carried
  <2>3. ASSUME NEW p \in Carried'
        PROVE  /\ p.boot = vehicle.boot => p.up - p.at = vehicle.up - now
               /\ p \in Carried \/ p.boot = vehicle.boot
    <3>1. CASE p \in Carried
      BY <3>1 DEF ClockInv
    <3>2. CASE p \notin Carried
      BY <1>0, <2>1, <2>2, <3>2
    <3> QED
      BY <3>1, <3>2
  <2>4. vehicle'.up - now' = vehicle.up - now
    BY <1>0, <2>1
  <2>5. ASSUME NEW p \in Carried', NEW q \in Carried', p.boot = q.boot
        PROVE  p.up - p.at = q.up - q.at
    <3>1. CASE p.boot = vehicle.boot
      BY <2>3, <2>5, <3>1
    <3>2. CASE p.boot # vehicle.boot
      BY <2>3, <2>5, <3>2 DEF ClockInv
    <3> QED
      BY <3>1, <3>2
  <2> QED
    BY <2>1, <2>3, <2>4, <2>5 DEF ClockInv
<1>2. CASE Reboot
  <2>1. Carried' = Carried /\ vehicle'.boot = vehicle.boot + 1
    BY <1>0, <1>2 DEF Reboot, Carried
  <2>2. \A p \in Carried : p.boot # vehicle'.boot
    BY <1>0, <2>1, CarriedTypes
  <2> QED
    BY <2>1, <2>2 DEF ClockInv
<1>3. CASE /\ UNCHANGED <<now, net, cache>>
           /\ vehicle'.up = vehicle.up /\ vehicle'.boot = vehicle.boot
  BY <1>3 DEF ClockInv, Carried
<1>4. CASE \E p \in net : Receive(p)
  <2>1. PICK p \in net : Receive(p)
    BY <1>4
  <2>2. PICK d : d = Disposition(tracker, p.stream, TimeBootMs(p), now)
    OBVIOUS
  <2>3. /\ \A r \in Streams : StreamEffect(p, d, r)
        /\ OtherEffect(p, d)
    BY <2>1, <2>2, ReceiveEffect
  <2>4. \A r \in Streams : cache'[r] \in {[packet |-> p, rx |-> now], None, cache[r]}
    BY <2>3 DEF StreamEffect
  <2>5. Carried' \subseteq Carried
    <3>1. ASSUME NEW r \in Streams, cache'[r] # None PROVE cache'[r].packet \in Carried
      BY <2>4, <3>1 DEF Carried
    <3>2. net' \subseteq Carried
      BY <2>3 DEF OtherEffect, Carried
    <3> QED
      BY <3>1, <3>2 DEF Carried
  <2> QED
    BY <2>3, <2>5 DEF ClockInv, OtherEffect
<1>5. CASE MoveOrigin
  BY <1>0, <1>3, <1>5 DEF MoveOrigin
<1>6. CASE NodeTick \/ StartControl \/ StopControl
  BY <1>3, <1>6 DEF NodeTick, StartControl, StopControl, autopilot
<1>7. CASE UNCHANGED telemetryvars
  BY <1>3, <1>7 DEF telemetryvars
<1> QED
  BY <1>1, <1>2, <1>4, <1>5, <1>6, <1>7 DEF TelemetryNext

\* The signed difference of two readings of a clock, taken modulo m.
LEMMA SignedDifference ==
  ASSUME NEW x \in Nat, NEW y \in Nat,
         2 * (x - y) < Modulus, 2 * (y - x) < Modulus,
         NEW raw, raw = ((x % Modulus) - (y % Modulus)) % Modulus
  PROVE  (IF 2 * raw >= Modulus THEN raw - Modulus ELSE raw) = x - y
<1>0. PICK m \in Nat \ {0} : m = Modulus
  BY Limits
<1>1. x % m \in 0 .. m - 1 /\ y % m \in 0 .. m - 1
  BY ModRange
<1> DEFINE a == x % m
           b == y % m
           D == x - y
<1>2. a - b \in {D, D - m, D + m}
  <2>1. CASE x >= y
    <3>1. x - y < m
      BY <1>0, <2>1
    <3>2. \/ x % m = (y % m) + (x - y)
          \/ x % m = (y % m) + (x - y) - m
      BY <2>1, <3>1, ModLater
    <3> QED
      BY <1>1, <3>2
  <2>2. CASE x < y
    <3>1. y - x < m /\ x <= y
      BY <1>0, <2>2
    <3>2. \/ y % m = (x % m) + (y - x)
          \/ y % m = (x % m) + (y - x) - m
      BY <3>1, ModLater
    <3> QED
      BY <1>1, <3>2
  <2> QED
    BY <2>1, <2>2
<1>3. a \in 0 .. m - 1 /\ b \in 0 .. m - 1 /\ raw = (a - b) % m
  BY <1>0, <1>1
<1> HIDE DEF a, b
<1>4. a - b \in Int /\ D \in Int /\ a - b > -m /\ a - b < m
  BY <1>3
<1>5. raw = IF a - b >= 0 THEN a - b ELSE a - b + m
  <2>1. CASE a - b >= 0
    <3>1. a - b \in Nat /\ a - b < m
      BY <1>4, <2>1
    <3>2. (a - b) % m = a - b
      BY <3>1, ModRange
    <3> QED
      BY <1>3, <2>1, <3>2
  <2>2. CASE a - b < 0
    <3> DEFINE n == a - b
    <3>1. n \in Int /\ n < 0 /\ n > -m /\ raw = n % m
      BY <1>3, <1>4, <2>2
    <3> HIDE DEF n
    <3>2. n % m = n + m
      BY <3>1
    <3> QED
      BY <2>2, <3>1, <3>2 DEF n
  <2> QED
    BY <1>4, <2>1, <2>2
<1> QED
  BY <1>0, <1>2, <1>3, <1>4, <1>5

\* Telemetry that obs_node calls valid is recent, and the two halves of a snapshot
\* belong together, when the boot clock outlasts what may be the age of a sample.
THEOREM ValidTelemetryIsCurrent ==
  ASSUME WellTimed, 2 * (MaxAge + Late) < Modulus
  PROVE  TelemetrySpec => []ValidIsCurrent
<1>1. LinkInv /\ ClockInv => ValidIsCurrent
  <2> SUFFICES ASSUME LinkInv, ClockInv PROVE ValidIsCurrent
    OBVIOUS
  <2>0. Att \in Streams /\ Pos \in Streams
    BY Limits
  <2>1. Snapshot => cache[Att].packet.boot = cache[Pos].packet.boot
    BY <2>0 DEF LinkInv, CacheInv, Snapshot
  <2> SUFFICES ASSUME Valid, node = "obs_node"
               PROVE  /\ \A s \in Streams :
                           now - cache[s].packet.at <= MaxAge + Delay[s]
                      /\ Distance(cache[Att].packet.at, cache[Pos].packet.at) <= SkewMax
    BY <2>1 DEF ValidIsCurrent
  <2>2. Snapshot /\ (\A s \in Streams : now - cache[s].rx < MaxAge)
        /\ SignedSkew \in -SkewMax .. SkewMax
    BY DEF Valid, Age
  <2>3. ASSUME NEW s \in Streams
        PROVE  /\ cache[s].packet.at \in Nat /\ cache[s].rx \in Nat
               /\ cache[s].packet.up \in Nat /\ cache[s].packet \in Carried
               /\ cache[s].packet.at <= cache[s].rx /\ cache[s].rx <= now
               /\ cache[s].rx <= cache[s].packet.at + Delay[s]
    <3>1. cache[s] \in Cached /\ cache[s] # None
      BY <2>2 DEF LinkInv, TelemetryTypeOK, Snapshot
    <3>2. /\ cache[s].packet.at \in Nat /\ cache[s].rx \in Nat
          /\ cache[s].packet.up \in Nat /\ cache[s].packet \in Carried
      BY <3>1 DEF Cached, Packet, Carried
    <3>3. cache[s].rx \in cache[s].packet.at .. cache[s].packet.at + Delay[s]
          /\ cache[s].rx <= now
      BY <3>1 DEF LinkInv, CacheInv
    <3> QED
      BY <3>2, <3>3, LateBounds
  <2>4. ASSUME NEW s \in Streams
        PROVE  /\ now - cache[s].packet.at <= MaxAge + Delay[s]
               /\ now - cache[s].packet.at < MaxAge + Late
               /\ cache[s].packet.at <= now
    BY <2>2, <2>3, Parts, Limits, LateBounds
  <2> DEFINE A == cache[Att].packet
             P == cache[Pos].packet
  <2>5. A.up - A.at = P.up - P.at
    BY <2>0, <2>1, <2>2, <2>3 DEF ClockInv
  <2>6. /\ A.at \in Nat /\ A.up \in Nat /\ P.at \in Nat /\ P.up \in Nat
        /\ A.at <= now /\ P.at <= now /\ now \in Nat
        /\ now - A.at < MaxAge + Late /\ now - P.at < MaxAge + Late
    BY <2>0, <2>3, <2>4, Parts
  <2>7. SignedSkew = A.up - P.up
    <3>1. PICK x \in Nat, y \in Nat : x = A.up /\ y = P.up
      BY <2>6
    <3>2. PICK raw : raw = ((x % Modulus) - (y % Modulus)) % Modulus
      OBVIOUS
    <3>3. SignedSkew = IF 2 * raw >= Modulus THEN raw - Modulus ELSE raw
      BY <3>1, <3>2 DEF SignedSkew, TimeBootMs
    <3> HIDE DEF A, P
    <3>4. 2 * (x - y) < Modulus /\ 2 * (y - x) < Modulus
      BY <2>5, <2>6, <3>1, Limits, LateBounds
    <3>5. (IF 2 * raw >= Modulus THEN raw - Modulus ELSE raw) = x - y
      BY <3>2, <3>4, SignedDifference, Limits
    <3> QED
      BY <3>1, <3>3, <3>5
  <2>8. Distance(A.at, P.at) <= SkewMax
    <3> HIDE DEF A, P
    <3> QED
      BY <2>2, <2>5, <2>6, <2>7, Limits DEF Distance
  <2> QED
    BY <2>4, <2>8
<1> QED
  BY <1>1, LinkInit, LinkStep, ClockInit, ClockStep, PTL DEF TelemetrySpec

-----------------------------------------------------------------------------
(* The odometry sessions of base_node *)

\* The times of a snapshot: no later than now, and while a reboot is pending no
\* later than what it left on the way; no earlier than the streams allow.
LEMMA SnapshotTimes ==
  ASSUME WellTimed, LinkInv, Snapshot
  PROVE  /\ SampleTime \in Nat /\ SampleTime <= now
         /\ \A s \in Streams : cache[s].rx \in Nat /\ cache[s].rx <= now
         /\ Healthy => SampleTime > now - MaxGap - Late
         /\ ~ Healthy => /\ SampleTime > Rebooted - MaxGap - Late
                         /\ SampleTime <= Rebooted + Late
<1>1. Att \in Streams /\ Pos \in Streams /\ now \in Nat /\ vehicle.up \in Nat
  BY Limits, Parts
<1>2. ASSUME NEW s \in Streams
      PROVE  /\ cache[s].rx \in Nat /\ cache[s].rx <= now
             /\ Healthy => cache[s].rx > now - MaxGap - Late
             /\ ~ Healthy => /\ cache[s].rx > Rebooted - MaxGap - Late
                             /\ cache[s].rx <= Rebooted + Late
  <2>1. cache[s] # None /\ cache[s] \in Cached
    BY DEF Snapshot, LinkInv, TelemetryTypeOK
  <2>2. /\ cache[s].rx \in Nat /\ cache[s].packet.at \in Nat
        /\ cache[s].rx \in cache[s].packet.at .. cache[s].packet.at + Delay[s]
        /\ cache[s].rx <= now
        /\ tracker.last[s] # None /\ tracker.last[s].rx = cache[s].rx
        /\ ~ Healthy => cache[s].packet.at <= Rebooted
    BY <2>1 DEF LinkInv, CacheInv, Cached, Packet
  <2>3. quiet[s] \in 0 .. MaxGap
    BY Parts
  <2>4. Healthy => cache[s].rx > now - MaxGap - Late
    <3>1. SUFFICES ASSUME Healthy PROVE cache[s].rx > now - MaxGap - Late
      OBVIOUS
    <3>2. \E d \in 0 .. MaxGap + Late : Old(tracker.last[s], d, s)
      BY <2>2, <3>1 DEF LinkInv, HealthyInv
    <3>3. tracker.last[s].rx > now - quiet[s] - Late
      BY <3>2 DEF Old
    <3> QED
      BY <1>1, <2>2, <2>3, <3>3, Limits, LateBounds
  <2>5. ~ Healthy => cache[s].rx > Rebooted - MaxGap - Late
    BY <2>2 DEF LinkInv, PendingInv
  <2>6. ~ Healthy => cache[s].rx <= Rebooted + Late
    BY <1>1, <2>2, LateBounds DEF Rebooted
  <2> QED
    BY <2>2, <2>4, <2>5, <2>6
<1> QED
  BY <1>1, <1>2 DEF SampleTime

-----------------------------------------------------------------------------
(* Telemetry: one session, one origin *)

\* Where the last odometry stands in time, between two new samples of a session.
Floor == now - quiet[Timer] - MaxGap - Late
OdomInv ==
  odom.raw = tracker.resets =>
    /\ odom.time <= now
    /\ Snapshot => odom.time <= SampleTime
    /\ Snapshot /\ fresh = FALSE => odom.time = SampleTime
    /\ Healthy \/ vehicle.up = 0 => Snapshot /\ odom.time > Floor
    /\ ~ Healthy /\ vehicle.up > 0 => odom.time > Rebooted - 2 * MaxGap - Late + 1

\* The first envelope of the session is of the origin that the last one is of.
EnvelopeInv ==
  /\ odom.raw = None =>
       first = [session |-> None, origin |-> None] /\ odom.origin = None
  /\ odom.raw # None =>
       /\ odom.raw <= tracker.resets
       /\ first = [session |-> Session(odom), origin |-> odom.origin]

BaseInv == node = "base_node" => OdomInv /\ EnvelopeInv

\* Initially base_node has published nothing.
LEMMA BaseInit == TelemetryInit => BaseInv
BY NoneAssumption DEF TelemetryInit, NewTracker, BaseInv, OdomInv, EnvelopeInv

\* The types of the jump detector.
LEMMA OdomParts ==
  ASSUME LinkInv
  PROVE  /\ odom.raw \in Nat \cup {None} /\ odom.nav \in Nat /\ odom.time \in Nat
         /\ tracker.resets \in Nat /\ tracker.resets # None
         /\ fresh \in BOOLEAN
BY Parts, NoneAssumption DEF LinkInv, TelemetryTypeOK

\* New samples of one session follow each other within the limit of the jump
\* detector.
LEMMA Contiguous ==
  ASSUME WellTimed, JumpMaxDt + 2 >= 2 * (MaxGap + Late), LinkInv, OdomInv,
         odom.raw = tracker.resets, Snapshot
  PROVE  SampleTime - odom.time \in 0 .. JumpMaxDt
<1>1. /\ now \in Nat /\ vehicle.up \in Nat /\ quiet[Timer] \in 0 .. MaxGap
      /\ odom.time \in Nat
      /\ odom.time <= SampleTime
      /\ Healthy \/ vehicle.up = 0 => odom.time > Floor
      /\ ~ Healthy /\ vehicle.up > 0 => odom.time > Rebooted - 2 * MaxGap - Late + 1
  BY Parts, OdomParts DEF OdomInv
<1>2. /\ SampleTime \in Nat /\ SampleTime <= now
      /\ ~ Healthy => SampleTime <= Rebooted + Late
  BY SnapshotTimes
<1>3. Rebooted \in Int
  BY <1>1 DEF Rebooted
<1>4. CASE Healthy \/ vehicle.up = 0
  BY <1>1, <1>2, <1>4, Limits, LateBounds DEF Floor
<1>5. CASE ~ Healthy /\ vehicle.up > 0
  BY <1>1, <1>2, <1>3, <1>5, Limits, LateBounds
<1> QED
  BY <1>1, <1>4, <1>5

\* Time and what happens to the autopilot.
LEMMA TickOdom ==
  ASSUME WellTimed, LinkInv, OdomInv, Tick PROVE OdomInv'
<1> SUFFICES ASSUME odom'.raw = tracker'.resets PROVE OdomInv'
  BY DEF OdomInv
<1>1. /\ now' = now + 1 /\ tracker' = tracker /\ cache' = cache /\ odom' = odom
      /\ fresh' = fresh
      /\ vehicle'.up = vehicle.up + 1 /\ vehicle'.boot = vehicle.boot
      /\ quiet'[Timer] = quiet[Timer] + 1 /\ quiet[Timer] < MaxGap
      /\ now \in Nat /\ vehicle.up \in Nat /\ quiet[Timer] \in 0 .. MaxGap
      /\ odom.time \in Nat
  BY Parts, OdomParts DEF Tick, publisher, LinkInv, TelemetryTypeOK
<1>2. Rebooted' = Rebooted /\ (Healthy' <=> Healthy) /\ (Snapshot' <=> Snapshot)
      /\ SampleTime' = SampleTime /\ Floor' = Floor
  BY <1>1, Limits, LateBounds DEF Rebooted, Healthy, Snapshot, SampleTime, Floor
<1>3. /\ odom.time <= now
      /\ Snapshot => odom.time <= SampleTime
      /\ Snapshot /\ fresh = FALSE => odom.time = SampleTime
      /\ Healthy \/ vehicle.up = 0 => Snapshot /\ odom.time > Floor
      /\ ~ Healthy /\ vehicle.up > 0 => odom.time > Rebooted - 2 * MaxGap - Late + 1
  BY <1>1 DEF OdomInv
<1>4. ~ Healthy => odom.time > Rebooted - 2 * MaxGap - Late + 1
  <2>1. CASE vehicle.up = 0
    BY <1>1, <1>3, <2>1, Limits, LateBounds DEF Floor, Rebooted
  <2>2. CASE vehicle.up > 0
    BY <1>3, <2>2
  <2> QED
    BY <1>1, <2>1, <2>2
<1>5. ~ (vehicle'.up = 0) /\ odom'.time <= now'
  BY <1>1, <1>3
<1> QED
  BY <1>1, <1>2, <1>3, <1>4, <1>5 DEF OdomInv

\* A packet is taken, makes its stream a candidate, or changes nothing of this.
LEMMA ReceiveOdom ==
  ASSUME WellTimed, LinkInv, OdomInv, EnvelopeInv, NEW p \in net, Receive(p)
  PROVE  OdomInv'
<1> SUFFICES ASSUME odom'.raw = tracker'.resets PROVE OdomInv'
  BY DEF OdomInv
<1>1. PICK d : d = Disposition(tracker, p.stream, TimeBootMs(p), now)
  OBVIOUS
<1>2. /\ \A r \in Streams : StreamEffect(p, d, r)
      /\ CounterEffect(p, d) /\ OtherEffect(p, d)
  BY <1>1, ReceiveEffect
<1>3. /\ now' = now /\ vehicle' = vehicle /\ odom' = odom
      /\ quiet'[Timer] = quiet[Timer] /\ fresh' = (fresh \/ Accepted(d))
  BY <1>2, Zenon DEF OtherEffect
<1>4. /\ Att \in Streams /\ Pos \in Streams /\ Streams = {Att, Pos}
      /\ p.stream \in Streams /\ now \in Nat /\ odom.time \in Nat
      /\ odom.raw \in Nat \cup {None} /\ tracker.resets \in Nat
      /\ None \notin Nat /\ vehicle.up \in Nat
  BY Limits, Parts, OdomParts, NoneAssumption
<1>5. d # "reset" /\ tracker'.resets = tracker.resets
  <2>1. d = "reset" => tracker'.resets = tracker.resets + 1
    BY <1>2 DEF CounterEffect
  <2>2. odom.raw # None => odom.raw <= tracker.resets
    BY DEF EnvelopeInv
  <2>3. d # "reset"
    BY <1>3, <1>4, <2>1, <2>2
  <2> QED
    BY <1>2, <2>3 DEF CounterEffect
<1>6. (Healthy' <=> Healthy) /\ Rebooted' = Rebooted /\ Floor' = Floor
  BY <1>3, <1>5 DEF Healthy, Rebooted, Floor
<1>7. /\ odom.time <= now
      /\ Snapshot => odom.time <= SampleTime
      /\ Snapshot /\ fresh = FALSE => odom.time = SampleTime
      /\ Healthy \/ vehicle.up = 0 => Snapshot /\ odom.time > Floor
      /\ ~ Healthy /\ vehicle.up > 0 => odom.time > Rebooted - 2 * MaxGap - Late + 1
  BY <1>3, <1>5 DEF OdomInv
<1>8. ASSUME NEW r \in Streams
      PROVE  cache'[r] = IF r = p.stream
                         THEN IF Accepted(d) THEN [packet |-> p, rx |-> now]
                              ELSE IF d = "reset_candidate" THEN None ELSE cache[r]
                         ELSE cache[r]
  BY <1>2, <1>5 DEF StreamEffect
<1>9. CASE Accepted(d)
  <2> DEFINE mine == [packet |-> p, rx |-> now]
  <2>1. mine \in Cached /\ mine # None
    <3>1. mine \in Cached
      BY <1>4, Parts DEF Cached
    <3> QED
      BY <3>1, NothingAssumption
  <2>2. Snapshot => Snapshot'
    BY <1>8, <1>9, <2>1 DEF Snapshot
  <2>3. ASSUME Snapshot' PROVE SampleTime' = now
    <3>1. \A r \in Streams : cache'[r].rx \in Nat /\ cache'[r].rx <= now
      <4> SUFFICES ASSUME NEW r \in Streams
                   PROVE  cache'[r].rx \in Nat /\ cache'[r].rx <= now
        OBVIOUS
      <4>1. CASE r = p.stream
        BY <1>4, <1>8, <1>9, <4>1
      <4>2. CASE r # p.stream
        <5>1. cache'[r] = cache[r] /\ cache[r] # None
          BY <1>8, <2>3, <4>2 DEF Snapshot
        <5>2. cache[r] \in Cached /\ cache[r].rx <= now
          BY <5>1 DEF LinkInv, TelemetryTypeOK, CacheInv
        <5> QED
          BY <5>1, <5>2 DEF Cached
      <4> QED
        BY <4>1, <4>2
    <3>2. cache'[p.stream].rx = now
      BY <1>4, <1>8, <1>9
    <3> QED
      BY <1>4, <3>1, <3>2 DEF SampleTime
  <2>4. fresh' # FALSE
    BY <1>3, <1>9, Zenon
  <2> QED
    BY <1>3, <1>6, <1>7, <2>2, <2>3, <2>4 DEF OdomInv
<1>10. CASE d = "reset_candidate"
  <2>1. cache'[p.stream] = None
    BY <1>4, <1>8, <1>10 DEF Accepted
  <2>2. ~ (Snapshot')
    BY <1>4, <2>1 DEF Snapshot
  <2>3. ~ Healthy /\ vehicle.up > 0
    <3>1. ~ Healthy /\ Present(p)
      BY <1>1, <1>10, ReceiveCases
    <3> QED
      BY <1>4, <3>1, Parts DEF Present
  <2> QED
    BY <1>3, <1>4, <1>6, <1>7, <2>2, <2>3 DEF OdomInv
<1>11. CASE ~ Accepted(d) /\ d # "reset_candidate"
  <2>1. \A r \in Streams : cache'[r] = cache[r]
    BY <1>8, <1>11
  <2>2. (Snapshot' <=> Snapshot) /\ SampleTime' = SampleTime
    BY <1>4, <2>1 DEF Snapshot, SampleTime
  <2>3. fresh' = FALSE => fresh = FALSE
    BY <1>3, <1>11, OdomParts, Zenon
  <2> QED
    BY <1>3, <1>6, <1>7, <2>2, <2>3 DEF OdomInv
<1> QED
  BY <1>9, <1>10, <1>11

\* A new sample of base_node continues the session of the last one or begins
\* another.
LEMMA PublishBase ==
  ASSUME WellTimed, JumpMaxDt + 2 >= 2 * (MaxGap + Late), LinkInv, BaseInv, NodeTick,
         node = "base_node"
  PROVE  OdomInv' /\ EnvelopeInv'
<1>1. OdomInv /\ EnvelopeInv
  BY DEF BaseInv
<1>2. /\ PublishSample
      /\ UNCHANGED <<now, vehicle, tracker, cache>>
      /\ quiet'[Timer] = 0
  BY DEF NodeTick, PublishOrFault, autopilot, LinkInv, TelemetryTypeOK, Timer
<1>3. /\ now \in Nat /\ vehicle.up \in Nat /\ quiet[Timer] \in 0 .. MaxGap
      /\ odom.raw \in Nat \cup {None} /\ odom.nav \in Nat /\ odom.time \in Nat
      /\ tracker.resets \in Nat /\ tracker.resets # None /\ fresh \in BOOLEAN
  BY Parts, OdomParts
<1>4. /\ (Healthy' <=> Healthy) /\ (Snapshot' <=> Snapshot)
      /\ Rebooted' = Rebooted /\ SampleTime' = SampleTime
      /\ Floor' = now - MaxGap - Late
  BY <1>2, <1>3, Limits, LateBounds
  DEF Healthy, Snapshot, Rebooted, SampleTime, Floor
<1>5. CASE Snapshot /\ fresh
  <2>1. fresh' = FALSE /\ odom' = Detected /\ Published
    BY <1>2, <1>5 DEF PublishSample
  <2>2. /\ Detected.raw = tracker.resets /\ Detected.time = SampleTime
        /\ Detected.origin = Origin(Pos)
        /\ Detected.nav = (IF odom.raw # tracker.resets THEN 0
                           ELSE IF Jump THEN odom.nav + 1 ELSE odom.nav)
        /\ Session(Detected) = <<tracker.resets, Detected.nav>>
        /\ Session(Detected) \in Nat \X Nat
    BY <1>5, DetectedType DEF LinkInv
  <2>3. /\ SampleTime \in Nat /\ SampleTime <= now
        /\ Healthy => SampleTime > now - MaxGap - Late
        /\ ~ Healthy => SampleTime > Rebooted - MaxGap - Late
    BY <1>5, SnapshotTimes
  <2>4. OdomInv'
    <3>1. Rebooted \in Int /\ (vehicle.up = 0 => Rebooted = now)
      BY <1>3 DEF Rebooted
    <3>2. Healthy \/ vehicle.up = 0 => SampleTime > now - MaxGap - Late
      BY <2>3, <3>1
    <3>3. ~ Healthy => SampleTime > Rebooted - 2 * MaxGap - Late + 1
      BY <2>3, <3>1, Limits, LateBounds DEF WellTimed
    <3> QED
      BY <1>2, <1>4, <1>5, <2>1, <2>2, <2>3, <3>2, <3>3 DEF OdomInv
  <2>5. first' = [session |-> Session(Detected), origin |-> Origin(Pos)]
    <3>1. CASE first.session # Session(Detected)
      BY <2>1, <3>1 DEF Published
    <3>2. CASE first.session = Session(Detected)
      <4>1. odom.raw # None
        BY <1>1, <2>2, <3>2, NothingAssumption DEF EnvelopeInv
      <4>2. first = [session |-> Session(odom), origin |-> odom.origin]
        BY <1>1, <4>1 DEF EnvelopeInv
      <4>3. odom.raw = tracker.resets /\ odom.nav = Detected.nav
        BY <2>2, <3>2, <4>2 DEF Session
      <4>4. ~ Jump
        BY <1>3, <2>2, <4>3
      <4>5. SampleTime - odom.time \in 0 .. JumpMaxDt
        BY <1>1, <1>5, <4>3, Contiguous
      <4>6. Origin(Pos) = odom.origin
        BY <4>3, <4>4, <4>5 DEF Jump
      <4> QED
        BY <2>1, <3>2, <4>2, <4>6 DEF Published
    <3> QED
      BY <3>1, <3>2
  <2>6. EnvelopeInv'
    <3>1. Session(odom)' = Session(Detected)
      BY <2>1 DEF Session
    <3> QED
      BY <1>2, <1>3, <2>1, <2>2, <2>5, <3>1 DEF EnvelopeInv
  <2> QED
    BY <2>4, <2>6
<1>6. CASE ~ (Snapshot /\ fresh)
  <2>1. UNCHANGED <<fresh, odom, first>>
    BY <1>2, <1>6 DEF PublishSample
  <2>2. EnvelopeInv'
    BY <1>1, <1>2, <2>1 DEF EnvelopeInv, Session
  <2>3. OdomInv'
    <3> SUFFICES ASSUME odom.raw = tracker.resets
                 PROVE  OdomInv'
      BY <1>2, <2>1 DEF OdomInv
    <3>1. /\ odom.time <= now
          /\ Snapshot => odom.time <= SampleTime
          /\ Snapshot /\ fresh = FALSE => odom.time = SampleTime
          /\ Healthy \/ vehicle.up = 0 => Snapshot /\ odom.time > Floor
          /\ ~ Healthy /\ vehicle.up > 0 => odom.time > Rebooted - 2 * MaxGap - Late + 1
      BY <1>1 DEF OdomInv
    <3>2. Snapshot => fresh = FALSE
      BY <1>3, <1>6
    <3>3. Healthy \/ vehicle.up = 0 => odom.time > now - MaxGap - Late
      <4>1. SUFFICES ASSUME Healthy \/ vehicle.up = 0
                     PROVE  odom.time > now - MaxGap - Late
        OBVIOUS
      <4>2. Snapshot /\ odom.time = SampleTime
        BY <3>1, <3>2, <4>1
      <4>3. Healthy => SampleTime > now - MaxGap - Late
        BY <4>2, SnapshotTimes
      <4>4. ~ Healthy => SampleTime > Rebooted - MaxGap - Late
        BY <4>2, SnapshotTimes
      <4>5. ~ Healthy => Rebooted = now
        BY <1>3, <4>1 DEF Rebooted
      <4> QED
        BY <4>2, <4>3, <4>4, <4>5
    <3> QED
      BY <1>2, <1>4, <2>1, <3>1, <3>3 DEF OdomInv
  <2> QED
    BY <2>2, <2>3
<1> QED
  BY <1>5, <1>6

\* BaseInv is inductive next to LinkInv.
LEMMA BaseStep ==
  ASSUME WellTimed, JumpMaxDt + 2 >= 2 * (MaxGap + Late)
  PROVE  LinkInv /\ BaseInv /\ [TelemetryNext]_telemetryvars => BaseInv'
<1> SUFFICES ASSUME LinkInv, BaseInv, [TelemetryNext]_telemetryvars, node' = "base_node"
             PROVE  OdomInv' /\ EnvelopeInv'
  BY DEF BaseInv
<1>0. node = "base_node"
  BY DEF TelemetryNext, Tick, Reboot, MoveOrigin, Receive, NodeTick, StartControl,
         StopControl, telemetryvars, publisher
<1>1. OdomInv /\ EnvelopeInv
  BY <1>0 DEF BaseInv
<1>2. CASE Tick
  <2>1. EnvelopeInv'
    BY <1>1, <1>2 DEF Tick, publisher, EnvelopeInv, Session
  <2> QED
    BY <1>1, <1>2, <2>1, TickOdom
<1>3. CASE Reboot
  <2>1. EnvelopeInv'
    BY <1>1, <1>3 DEF Reboot, publisher, EnvelopeInv, Session
  <2>2. /\ now' = now /\ tracker' = tracker /\ cache' = cache /\ odom' = odom
        /\ fresh' = fresh /\ vehicle'.up = 0 /\ vehicle'.boot = vehicle.boot + 1
        /\ quiet'[Timer] = quiet[Timer] /\ vehicle.boot \in Nat
    BY <1>3, Limits, Parts
    DEF Reboot, publisher, LinkInv, TelemetryTypeOK, Timer, Att, Pos
  <2>3. Healthy /\ ~ (Healthy')
    BY <1>3, <2>2, RebootWhenHealthy DEF Healthy
  <2>4. (Snapshot' <=> Snapshot) /\ SampleTime' = SampleTime /\ Floor' = Floor
    BY <2>2 DEF Snapshot, SampleTime, Floor
  <2>5. OdomInv'
    BY <1>1, <2>2, <2>3, <2>4 DEF OdomInv
  <2> QED
    BY <2>1, <2>5
<1>4. CASE /\ UNCHANGED <<now, quiet, tracker, cache, fresh, odom, first>>
           /\ vehicle'.up = vehicle.up /\ vehicle'.boot = vehicle.boot
  <2>1. EnvelopeInv'
    BY <1>1, <1>4 DEF EnvelopeInv, Session
  <2>2. /\ (Snapshot' <=> Snapshot) /\ SampleTime' = SampleTime /\ Floor' = Floor
        /\ (Healthy' <=> Healthy) /\ Rebooted' = Rebooted
    BY <1>4 DEF Snapshot, SampleTime, Floor, Healthy, Rebooted
  <2>3. OdomInv'
    BY <1>1, <1>4, <2>2 DEF OdomInv
  <2> QED
    BY <2>1, <2>3
<1>5. CASE MoveOrigin
  <2>1. vehicle'.up = vehicle.up /\ vehicle'.boot = vehicle.boot
    BY <1>5 DEF MoveOrigin, LinkInv, TelemetryTypeOK
  <2> QED
    BY <1>4, <1>5, <2>1 DEF MoveOrigin, publisher
<1>6. CASE \E p \in net : Receive(p)
  <2>1. PICK p \in net : Receive(p)
    BY <1>6
  <2>2. OdomInv'
    BY <1>1, <2>1, ReceiveOdom
  <2>3. PICK d : d = Disposition(tracker, p.stream, TimeBootMs(p), now)
    OBVIOUS
  <2>4. CounterEffect(p, d) /\ odom' = odom /\ first' = first
    BY <2>1, <2>3, ReceiveEffect DEF OtherEffect
  <2>5. tracker'.resets \in {tracker.resets, tracker.resets + 1}
    BY <2>4 DEF CounterEffect
  <2>6. EnvelopeInv'
    BY <1>1, <2>4, <2>5, OdomParts DEF EnvelopeInv, Session
  <2> QED
    BY <2>2, <2>6
<1>7. CASE NodeTick
  BY <1>0, <1>7, PublishBase
<1>8. CASE StartControl \/ StopControl
  BY <1>4, <1>8 DEF StartControl, StopControl, autopilot
<1>9. CASE UNCHANGED telemetryvars
  BY <1>4, <1>9 DEF telemetryvars
<1> QED
  BY <1>2, <1>3, <1>5, <1>6, <1>7, <1>8, <1>9 DEF TelemetryNext

\* Odometry that base_node publishes under one session identifier has one origin,
\* when the limit of its jump detector covers the silences of the link.
THEOREM SessionHasOneOrigin ==
  ASSUME WellTimed, JumpMaxDt + 2 >= 2 * (MaxGap + Late)
  PROVE  TelemetrySpec => []BaseSessionIsOneOrigin
<1>1. BaseInv => BaseSessionIsOneOrigin
  BY DEF BaseInv, EnvelopeInv, BaseSessionIsOneOrigin
<1> QED
  BY <1>1, LinkInit, LinkStep, BaseInit, BaseStep, PTL DEF TelemetrySpec
=============================================================================
