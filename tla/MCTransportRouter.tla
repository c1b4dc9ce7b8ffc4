------------------------- MODULE MCTransportRouter -------------------------
(***************************************************************************)
(* Small instances of TransportRouter for TLC.                             *)
(***************************************************************************)
EXTENDS TransportRouter

=============================================================================
