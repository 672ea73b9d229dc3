------------------------------ MODULE MCBridge ------------------------------
(***************************************************************************)
(* The bridge for TLC: a session of two devices, one plain model.          *)
(***************************************************************************)
EXTENDS BridgeProps

CONSTANTS surface, extra

MCModels == {"plain"}
MCHardware == {}
MCPortsOf == [m \in MCModels |-> 1]
MCDawPort == [m \in MCModels |-> 1]
MCSession == <<<<surface, "plain">>, <<extra, "plain">>>>

=============================================================================
