------------------------- MODULE MCCommandDelivery -------------------------
(***************************************************************************)
(* Small instances of CommandDelivery for TLC.                             *)
(***************************************************************************)
EXTENDS CommandDelivery, TLC

\* Ids and handlers are interchangeable; used by runs without liveness only.
Symmetry == Permutations(Id) \cup Permutations(Handler)

=============================================================================
