------------------------- MODULE MCTelemetryOutbox -------------------------
(***************************************************************************)
(* Small instances of TelemetryOutbox for TLC.                             *)
(***************************************************************************)
EXTENDS TelemetryOutbox, TLC

\* Messages and workers are interchangeable; used by runs without liveness only.
Symmetry == Permutations(Msg) \cup Permutations(Worker)

=============================================================================
