----------------------------- MODULE Passthrough -----------------------------
(***************************************************************************)
(* The autopilot parameters that RealRobotInterface borrows                *)
(* (brov_base/mavlink_interface.py).  While a process drives the thrusters *)
(* directly, RC7/RC8_OPTION are cleared and SERVO1..8_FUNCTION are set to  *)
(* pass-through; closing the interface gives the previous values back.     *)
(* Parameters live in the autopilot and survive the process; the backup    *)
(* (_original_servo_functions, _original_camera_rc_options) does not.      *)
(*                                                                         *)
(* A verified set tries three times to write and read back one parameter.  *)
(* It is one step: when it fails, the value may or may not have reached    *)
(* the autopilot.  A read-back that answers later than get_parameter waits *)
(* is taken as lost.  Every step may instead raise a transport error.      *)
(***************************************************************************)
EXTENDS Naturals

CONSTANTS
  Servos,       \* SERVO1_FUNCTION .. SERVO8_FUNCTION
  Cameras,      \* RC7_OPTION, RC8_OPTION
  NoBackup,     \* nothing is backed up
  MaxEnables,   \* bound: calls of enable_passthrough by one process
  MaxRuns       \* bound: processes that open the link, one after another

Params == Servos \cup Cameras
Value == {"native", "set"}
Setting == [Params -> Value]

ASSUME ParamsAssumption == Servos \cap Cameras = {}
ASSUME BackupAssumption == NoBackup \notin Setting
ASSUME RunsAssumption == MaxEnables \in Nat \ {0} /\ MaxRuns \in Nat \ {0}

VARIABLES
  fc,           \* the autopilot's parameters
  backup,       \* what disable_passthrough gives back
  job,          \* the operation that is running
  todo,         \* parameters it has not reached yet
  failed,       \* some parameter could not be given back
  held,         \* history: the last enable_passthrough returned normally and
                \* nothing has begun to undo it
  found,        \* history: the parameters this process met
  exit,         \* how the last process ended
  enables, runs \* counters

call == <<job, todo, failed>>
counters == <<enables, runs>>
ptvars == <<fc, backup, call, held, found, exit, counters>>

Native == [p \in Params |-> "native"]
Borrowed == [p \in Params |-> "set"]

TypeOK ==
  /\ fc \in Setting /\ found \in Setting
  /\ backup \in Setting \cup {NoBackup}
  /\ job \in {"none", "enable", "rollback", "close"}
  /\ todo \subseteq Params
  /\ failed \in BOOLEAN /\ held \in BOOLEAN
  /\ exit \in {"running", "clean", "error", "crash"}
  /\ enables \in 0..MaxEnables /\ runs \in 1..MaxRuns

Init ==
  /\ fc = Native /\ found = Native
  /\ backup = NoBackup
  /\ job = "none" /\ todo = {} /\ failed = FALSE
  /\ held = FALSE
  /\ exit = "running"
  /\ enables = 0 /\ runs = 1

Run(operation) ==
  job' = operation /\ todo' = Params /\ failed' = FALSE

Rest == job' = "none" /\ todo' = {} /\ failed' = FALSE

Within == UNCHANGED <<found, exit, counters>>

-----------------------------------------------------------------------------
(* enable_passthrough                                                      *)

EnableCall ==
  /\ exit = "running" /\ job = "none"
  /\ enables < MaxEnables
  /\ enables' = enables + 1

\* An original value cannot be read: nothing is touched.
EnableUnread ==
  /\ EnableCall
  /\ UNCHANGED <<fc, backup, call, held, found, exit, runs>>

\* The originals, as read.
Originals == fc

EnableBegin ==
  /\ EnableCall
  /\ backup' = Originals
  /\ Run("enable")
  /\ held' = FALSE
  /\ UNCHANGED <<fc, found, exit, runs>>

\* Camera inputs are isolated before the first servo passes RC through.
NextToSet == IF todo \cap Cameras # {} THEN todo \cap Cameras ELSE todo

SetVerified ==
  /\ job = "enable"
  /\ \E p \in NextToSet :
       fc' = [fc EXCEPT ![p] = "set"] /\ todo' = todo \ {p}
  /\ UNCHANGED <<backup, job, failed, held>> /\ Within

\* Mutant: a parameter that cannot be verified is skipped.
SetSkipped ==
  /\ job = "enable"
  /\ \E p \in NextToSet :
       /\ fc' \in {fc, [fc EXCEPT ![p] = "set"]}
       /\ todo' = todo \ {p}
  /\ UNCHANGED <<backup, job, failed, held>> /\ Within

\* Not verified, or the transport raised: everything is rolled back.
SetUnverified ==
  /\ job = "enable"
  /\ \E p \in NextToSet : fc' \in {fc, [fc EXCEPT ![p] = "set"]}
  /\ Run("rollback")
  /\ UNCHANGED <<backup, held>> /\ Within

EnableEnd ==
  /\ job = "enable" /\ todo = {}
  /\ Rest
  /\ held' = TRUE
  /\ UNCHANGED <<fc, backup>> /\ Within

-----------------------------------------------------------------------------
(* disable_passthrough: the rollback above, and close()                    *)

Restoring == job \in {"rollback", "close"}

NextToRestore == IF todo \cap Servos # {} THEN todo \cap Servos ELSE todo

RestoreVerified ==
  /\ Restoring
  /\ \E p \in NextToRestore :
       fc' = [fc EXCEPT ![p] = backup[p]] /\ todo' = todo \ {p}
  /\ UNCHANGED <<backup, job, failed, held>> /\ Within

\* Mutant: a failed read-back is not remembered.
RestoreForgiving ==
  /\ Restoring
  /\ \E p \in NextToRestore :
       /\ fc' \in {fc, [fc EXCEPT ![p] = backup[p]]}
       /\ todo' = todo \ {p}
  /\ UNCHANGED <<backup, job, failed, held>> /\ Within

\* Remembered as failed; the other parameters are still given back.
RestoreUnverified ==
  /\ Restoring
  /\ \E p \in NextToRestore :
       /\ fc' \in {fc, [fc EXCEPT ![p] = backup[p]]}
       /\ todo' = todo \ {p}
  /\ failed' = TRUE
  /\ UNCHANGED <<backup, job, held>> /\ Within

\* The backup is dropped once every parameter is verified; close() ends the
\* process either way.
RestoreEnd ==
  /\ Restoring /\ todo = {}
  /\ Rest
  /\ backup' = IF failed THEN backup ELSE NoBackup
  /\ exit' = IF job # "close" THEN exit ELSE IF failed THEN "error" ELSE "clean"
  /\ UNCHANGED <<fc, held, found, counters>>

\* The transport raises in the middle: the rest is left as it is.
RestoreRaises ==
  /\ Restoring
  /\ \E p \in todo : fc' \in {fc, [fc EXCEPT ![p] = backup[p]]}
  /\ Rest
  /\ exit' = IF job = "close" THEN "error" ELSE exit
  /\ UNCHANGED <<backup, held, found, counters>>

\* close(), also out of an operation that a keyboard interrupt cuts short.
CloseBegin ==
  /\ exit = "running" /\ job # "close"
  /\ held' = FALSE
  /\ UNCHANGED <<fc, backup, found, counters>>
  /\ IF backup = NoBackup THEN Rest /\ exit' = "clean"
                          ELSE Run("close") /\ UNCHANGED exit

\* The neutral command that precedes the restoration raises.
CloseSkipped ==
  /\ exit = "running" /\ job # "close"
  /\ Rest
  /\ held' = FALSE
  /\ exit' = "error"
  /\ UNCHANGED <<fc, backup, found, counters>>

Crash ==
  /\ exit = "running"
  /\ Rest
  /\ held' = FALSE
  /\ exit' = "crash"
  /\ UNCHANGED <<fc, backup, found, counters>>

\* Another process: it backs up whatever it finds.
Start ==
  /\ exit # "running" /\ runs < MaxRuns
  /\ runs' = runs + 1 /\ enables' = 0
  /\ exit' = "running"
  /\ found' = fc /\ backup' = NoBackup
  /\ UNCHANGED <<fc, call, held>>

EnableStep == SetVerified \/ SetUnverified \/ EnableEnd
RestoreStep ==
  RestoreVerified \/ RestoreUnverified \/ RestoreEnd \/ RestoreRaises

Next ==
  \/ EnableUnread \/ EnableBegin \/ EnableStep
  \/ CloseBegin \/ CloseSkipped \/ RestoreStep
  \/ Crash \/ Start

Spec == Init /\ [][Next]_ptvars

-----------------------------------------------------------------------------
(* Properties.                                                             *)

\* A process that was told pass-through is on finds every camera input
\* isolated and every servo passed through until it gives them back, whatever
\* earlier processes left behind and whatever sets failed on the way.
PassthroughHeld == held => fc = Borrowed

\* Whatever fails, in whatever order, a parameter a running process changed
\* still has its previous value in the backup.
Recoverable ==
  exit = "running" =>
    \A p \in Params :
      fc[p] = found[p] \/ (backup # NoBackup /\ backup[p] = found[p])

\* A process that closes without error leaves the parameters it met.
CleanExitRestores == exit = "clean" => fc = found
=============================================================================
