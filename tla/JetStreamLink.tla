--------------------------- MODULE JetStreamLink ---------------------------
(***************************************************************************)
(* The connection of the JetStream publisher: the tasks and callbacks of   *)
(* its event loop, which keep the `_ready` event that every publication    *)
(* looks at.  The server and the client library are the environment.       *)
(***************************************************************************)
VARIABLES
    server,     \* "up", "rejecting" (connected, publications fail) or "down"
    nc,         \* _nc: "none", "up", "lost" (the library reconnects), "closed"
    natsReady,  \* _ready
    retrying,   \* the task _background_reconnect runs
    stopped     \* _closed

linkVars == <<server, nc, natsReady, retrying, stopped>>

Servers == {"up", "rejecting", "down"}

LinkTypeOK ==
    /\ server \in Servers /\ nc \in {"none", "up", "lost", "closed"}
    /\ natsReady \in BOOLEAN /\ retrying \in BOOLEAN /\ stopped \in BOOLEAN

\* create: the first connection succeeds, or fails (or takes too long) and the
\* publisher starts without it.
LinkInit ==
    /\ server \in Servers
    /\ \/ server # "down" /\ nc = "up" /\ natsReady = TRUE /\ retrying = FALSE
       \/ nc = "none" /\ natsReady = FALSE /\ retrying = TRUE
    /\ stopped = FALSE

\* _background_reconnect gets the first connection.
BackgroundReconnect ==
    /\ retrying /\ ~stopped /\ server # "down"
    /\ nc' = "up" /\ natsReady' = TRUE /\ retrying' = FALSE
    /\ UNCHANGED <<server, stopped>>

\* disconnected_cb: the library has seen the connection break.
OnDisconnected ==
    /\ nc = "up" /\ server = "down" /\ nc' = "lost"
    /\ natsReady' = FALSE
    /\ UNCHANGED <<server, retrying, stopped>>

\* A mistake: the event is set once, by the first connection.
SilentReconnect ==
    /\ nc = "lost" /\ server # "down" /\ nc' = "up"
    /\ UNCHANGED <<server, natsReady, retrying, stopped>>

\* reconnected_cb.
OnReconnected ==
    /\ nc = "lost" /\ server # "down" /\ nc' = "up"
    /\ natsReady' = TRUE
    /\ UNCHANGED <<server, retrying, stopped>>

\* closed_cb: the library gives the connection up (an error of the protocol or
\* of the authorisation); nothing opens another one.
OnClosed ==
    /\ nc \in {"up", "lost"} /\ nc' = "closed"
    /\ natsReady' = FALSE
    /\ UNCHANGED <<server, retrying, stopped>>

\* close: the task is cancelled, the connection drained, the loop stopped.
CloseLink ==
    /\ ~stopped /\ stopped' = TRUE
    /\ retrying' = FALSE /\ nc' = "none" /\ natsReady' = FALSE
    /\ UNCHANGED server

ServerChanges(s) ==
    /\ server # s /\ server' = s
    /\ UNCHANGED <<nc, natsReady, retrying, stopped>>

Link == BackgroundReconnect \/ OnDisconnected \/ OnReconnected \/ OnClosed
=============================================================================
