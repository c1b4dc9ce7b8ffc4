--------------------------- MODULE MCSessionPolicy ---------------------------
(***************************************************************************)
(* Small instances of SessionPolicy for TLC.                               *)
(***************************************************************************)
EXTENDS SessionPolicy

(***************************************************************************)
(* The run starts with a device without strings, which no operator has     *)
(* read and to which the most can happen, or with one that has strings, to *)
(* which less happens.                                                     *)
(***************************************************************************)
CONSTANT MaxEventsWithTexts

WorldsNext ==
    /\ Next
    /\ IF texts THEN events' <= MaxEventsWithTexts ELSE refreshes' = 0

\* Fairness asks for nothing a world leaves out: each fair action that is enabled
\* has an instance that stays in it.
WorldsSpec == Init /\ [][WorldsNext]_vars /\ Fairness

=============================================================================
