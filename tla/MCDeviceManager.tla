-------------------------- MODULE MCDeviceManager --------------------------
(***************************************************************************)
(* Instances of the device manager for TLC: a plain device with one port,  *)
(* as the VRMC surface, and an emulated one with two, of which the second  *)
(* carries its events, as the Launchkey.                                   *)
(***************************************************************************)
EXTENDS DeviceManagerProps

MCModels == {"plain", "hardware"}
MCHardware == {"hardware"}
MCPortsOf == [m \in MCModels |-> IF m = "plain" THEN 1 ELSE 2]
MCDawPort == [m \in MCModels |-> IF m = "plain" THEN 1 ELSE 2]

=============================================================================
