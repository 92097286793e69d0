------------------------------- MODULE Gateway -------------------------------
(***************************************************************************)
(* What a PWM gateway (brov_base/obs_node.py, brov_base/base_node.py)      *)
(* promises to the rest of the vehicle, with no threads, approvals or      *)
(* contracts: thrusters are driven only while the gate is open, closing it *)
(* and ESTOP make them neutral in the same step, the gate opens on neutral *)
(* thrusters, and after ESTOP it never opens again.  ObsNode and BaseNode  *)
(* implement this module.                                                  *)
(***************************************************************************)
VARIABLES open, thrust, estopped

gateway == <<open, thrust, estopped>>

GatewayInit == open = FALSE /\ thrust = "neutral" /\ estopped = FALSE

Open ==
  /\ ~estopped /\ thrust = "neutral"
  /\ open' = TRUE
  /\ UNCHANGED <<thrust, estopped>>

Command ==
  /\ open /\ ~estopped
  /\ thrust' \in {"drive", "neutral"}
  /\ UNCHANGED <<open, estopped>>

Settle == thrust' = "neutral" /\ UNCHANGED <<open, estopped>>

Close == open' = FALSE /\ thrust' = "neutral" /\ UNCHANGED estopped

Estop == estopped' = TRUE /\ open' = FALSE /\ thrust' = "neutral"

GatewayNext == Open \/ Command \/ Settle \/ Close \/ Estop

GatewaySpec == GatewayInit /\ [][GatewayNext]_gateway
=============================================================================
