------------------------- MODULE MCDevicePublishing -------------------------
(***************************************************************************)
(* Small instances of DevicePublishing for TLC.                            *)
(***************************************************************************)
EXTENDS DevicePublishing

=============================================================================
