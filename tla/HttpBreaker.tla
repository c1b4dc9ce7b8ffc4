---------------------------- MODULE HttpBreaker ----------------------------
(***************************************************************************)
(* The circuit breaker of the HTTP publisher.  While it is open a request  *)
(* fails at once; when its wait is over one request is let through as a    *)
(* probe, whose outcome closes it or doubles the wait.                     *)
(***************************************************************************)
EXTENDS Naturals, FiniteSetsExt

CONSTANTS
    BaseWait,   \* _BREAKER_BASE_SEC, in ticks
    MaxWait     \* _BREAKER_MAX_SEC, in ticks

ASSUME BreakerAssumption ==
    BaseWait \in Nat \ {0} /\ MaxWait \in Nat /\ BaseWait <= MaxWait

VARIABLES
    httpReady,  \* _ready
    retryIn,    \* time left until _ready_retry_at
    wait,       \* _breaker_wait
    probing,    \* _probe_in_flight
    httpClosed  \* _closed

breakerVars == <<httpReady, retryIn, wait, probing, httpClosed>>

BreakerTypeOK ==
    /\ httpReady \in BOOLEAN /\ probing \in BOOLEAN /\ httpClosed \in BOOLEAN
    /\ retryIn \in 0..MaxWait /\ wait \in BaseWait..MaxWait
    /\ httpReady => retryIn = 0 /\ wait = BaseWait

BreakerInit ==
    /\ httpReady = TRUE /\ retryIn = 0 /\ wait = BaseWait
    /\ probing = FALSE /\ httpClosed = FALSE

\* _breaker_izin_ver lets a request through.
Permits == httpReady \/ (retryIn = 0 /\ ~probing)

Permit ==
    /\ ~httpClosed /\ Permits
    /\ probing' = (probing \/ ~httpReady)
    /\ UNCHANGED <<httpReady, retryIn, wait, httpClosed>>

\* The publisher is closed, or the breaker is open.
Deny ==
    /\ httpClosed \/ ~Permits
    /\ UNCHANGED breakerVars

\* _set_ready(True).
SetReady ==
    /\ httpReady' = TRUE /\ probing' = FALSE
    /\ wait' = BaseWait /\ retryIn' = 0
    /\ UNCHANGED httpClosed

\* _set_ready(False).
SetUnready ==
    /\ httpReady' = FALSE /\ probing' = FALSE
    /\ retryIn' = wait /\ wait' = Min({MaxWait, 2 * wait})
    /\ UNCHANGED httpClosed

CloseHttp ==
    /\ ~httpClosed /\ httpClosed' = TRUE
    /\ UNCHANGED <<httpReady, retryIn, wait, probing>>
=============================================================================
