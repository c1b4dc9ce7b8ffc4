--------------------------- MODULE MCPollScheduler ---------------------------
(***************************************************************************)
(* A small instance of PollScheduler for TLC: the devices are their places.*)
(***************************************************************************)
EXTENDS PollScheduler

MCPosition == [d \in Device |-> d]

\* All devices; all but one; one alone.
MCFleets == {{1, 2, 3}, {1, 3}, {2}}
=============================================================================
