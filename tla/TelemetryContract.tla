------------------------- MODULE TelemetryContract -------------------------
(***************************************************************************)
(* What the telemetry plane promises for every message, without outbox     *)
(* rows, threads, retries or restarts: a message is accepted only when it  *)
(* is in safe hands, and it leaves the store only for the broker or for    *)
(* the dead letters.                                                       *)
(***************************************************************************)
CONSTANT Msg

VARIABLES stored,    \* messages the gateway still has to deliver
          delivered, \* messages the broker has
          buried,    \* dead letters
          accepted,  \* messages their producer may forget
          dropped    \* messages given up with their file or their retention

vars == <<stored, delivered, buried, accepted, dropped>>

Init == stored = {} /\ delivered = {} /\ buried = {} /\ accepted = {} /\ dropped = {}

\* The broker takes some messages; it may get a message more than once.
Deliver(ms) ==
    /\ delivered' = delivered \cup ms
    /\ UNCHANGED <<stored, buried, accepted, dropped>>

Store(m) ==
    /\ m \notin stored \cup buried \cup dropped \cup accepted
    /\ stored' = stored \cup {m}
    /\ UNCHANGED <<delivered, buried, accepted, dropped>>

Accept(ms) ==
    /\ ms \subseteq delivered \cup stored \cup buried \cup dropped
    /\ accepted' = accepted \cup ms
    /\ UNCHANGED <<stored, delivered, buried, dropped>>

Settle(ms) ==
    /\ ms \subseteq stored \cap delivered
    /\ stored' = stored \ ms
    /\ UNCHANGED <<delivered, buried, accepted, dropped>>

\* The broker may even have taken it, without the gateway knowing.
Bury(m) ==
    /\ m \in stored
    /\ stored' = stored \ {m}
    /\ buried' = buried \cup {m}
    /\ delivered' \in {delivered, delivered \cup {m}}
    /\ UNCHANGED <<accepted, dropped>>

Forget(ms) ==
    /\ ms \subseteq buried
    /\ buried' = buried \ ms
    /\ dropped' = dropped \cup ms
    /\ UNCHANGED <<stored, delivered, accepted>>

\* The file is lost, with all it holds.
Lose ==
    /\ stored' = {} /\ buried' = {}
    /\ dropped' = dropped \cup stored \cup buried
    /\ UNCHANGED <<delivered, accepted>>

Next ==
    \/ \E ms \in SUBSET Msg : Deliver(ms) \/ Accept(ms) \/ Settle(ms) \/ Forget(ms)
    \/ \E m \in Msg : Store(m) \/ Bury(m)
    \/ Lose

Spec == Init /\ [][Next]_vars

=============================================================================
