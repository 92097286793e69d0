----------------------------- MODULE MCTelemetry -----------------------------
(* Model values of Telemetry for TLC. *)
EXTENDS Telemetry
MCStreams == {"attitude", "local_position"}
MCDelay == [s \in MCStreams |-> 1]

\* The instance is one that the theorems of InterfaceProofs speak of.
ASSUME MCTimed ==
  /\ WellTimed /\ 2 * (MaxAge + Late) < Modulus
  /\ JumpMaxDt + 2 >= 2 * (MaxGap + Late)
=============================================================================
