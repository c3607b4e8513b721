------------------------------ MODULE MCDeviceLib ------------------------------
(***************************************************************************)
(* Models of DeviceLib for TLC: a few plug-ins of a device beside the demo *)
(* device, and a few captures.                                             *)
(***************************************************************************)
EXTENDS DeviceLib

=============================================================================
