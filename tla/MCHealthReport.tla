--------------------------- MODULE MCHealthReport ---------------------------
(***************************************************************************)
(* Small instances of HealthReport for TLC: two devices in batches of one, *)
(* so that a snapshot takes two POSTs and may fail between them.           *)
(***************************************************************************)
EXTENDS HealthReport

=============================================================================
