-------------------------- MODULE TransportRouter --------------------------
(***************************************************************************)
(* The way of a telemetry publication: TelemetryTransportRouter over the   *)
(* JetStream publisher (JetStreamLink) and the HTTP publisher              *)
(* (HttpBreaker).                                                          *)
(*                                                                         *)
(* Actors: the threads that publish (poll workers and the outbox retrier), *)
(* the event loop of the NATS client, the thread that shuts down, and, as  *)
(* the environment, the NATS server, the backend and the clock.  A thread  *)
(* reads the active transport without the lock, is in flight without it,   *)
(* and takes it for each of the short sections of the router.              *)
(*                                                                         *)
(* A call carries one message or a batch: what counts is whether all of it *)
(* was taken.  A call in flight that met a fault is `hurt`: only such a    *)
(* call can fail without an answer, after any part of it was taken.  The   *)
(* counters shown by /health are left out.                                 *)
(***************************************************************************)
EXTENDS JetStreamLink, HttpBreaker

CONSTANTS
    Thread,         \* threads that publish
    Modes,          \* fallback settings to start with: TRUE remote, FALSE local
    FailThreshold,  \* fail_threshold
    MinDwell,       \* min_dwell_sec, in ticks
    ProbeInterval,  \* probe_interval_sec, in ticks
    MaxFaults       \* bound on faults of the server and the backend (model only)

ASSUME RouterAssumption ==
    /\ Modes \subseteq BOOLEAN
    /\ FailThreshold \in Nat \ {0} /\ {MinDwell, ProbeInterval, MaxFaults} \subseteq Nat

VARIABLES
    \* the router
    fallback,       \* fallback_enabled
    active,         \* _active
    failures,       \* _nats_consecutive_failures, up to FailThreshold
    dwell,          \* time since _active_since_mono, up to MinDwell
    untilProbe,     \* time left until _next_probe_at_mono
    \* the calls
    step,           \* next step of the thread; "done" when it returned in peace
    bad,            \* its call holds a message the backend refuses as such
    hurt,           \* its request met a fault
    \* the world
    backend,        \* "up" or "down"
    \* history
    missing,        \* some message of the call was taken by no transport
    sinceFallback,  \* time since the last switch to HTTP, up to its least period
    faults

routeVars == <<active, failures, dwell, untilProbe, sinceFallback>>
callVars  == <<step, bad, hurt, missing>>
vars == <<linkVars, breakerVars, fallback, routeVars, callVars, backend, faults>>

\* The least time from one fall to HTTP to the next.
Period == ProbeInterval + MinDwell

RouterTypeOK ==
    /\ fallback \in BOOLEAN /\ active \in {"nats", "http"}
    /\ failures \in 0..FailThreshold /\ dwell \in 0..MinDwell
    /\ untilProbe \in 0..ProbeInterval /\ sinceFallback \in 0..Period
    /\ ~fallback => active = "nats"

CallTypeOK ==
    /\ step \in [Thread -> {"idle", "choose", "sent", "acked", "failed", "http",
                            "posted", "done"}]
    /\ bad \in [Thread -> BOOLEAN] /\ missing \in [Thread -> BOOLEAN]
    /\ hurt \in [Thread -> BOOLEAN]
    /\ \A t \in Thread : hurt[t] => step[t] \in {"sent", "posted"}

TypeOK ==
    /\ LinkTypeOK /\ BreakerTypeOK /\ RouterTypeOK /\ CallTypeOK
    /\ backend \in {"up", "down"} /\ faults \in 0..MaxFaults

Init ==
    /\ LinkInit /\ BreakerInit
    /\ fallback \in Modes /\ active = "nats" /\ failures = 0
    /\ dwell = 0 /\ untilProbe = 0 /\ sinceFallback = Period
    /\ step = [t \in Thread |-> "idle"]
    /\ bad = [t \in Thread |-> FALSE] /\ missing = [t \in Thread |-> FALSE]
    /\ hurt = [t \in Thread |-> FALSE]
    /\ backend \in {"up", "down"} /\ faults = 0

-----------------------------------------------------------------------------
Goto(t, s) == step' = [step EXCEPT ![t] = s]

\* The call returns, or it ends with an exception.
Returns(t) == Goto(t, "done") /\ bad' = [bad EXCEPT ![t] = FALSE]

Raises(t) ==
    /\ Goto(t, "idle") /\ bad' = [bad EXCEPT ![t] = FALSE]
    /\ missing' = [missing EXCEPT ![t] = FALSE]

AllTaken(t) == missing' = [missing EXCEPT ![t] = FALSE]
Heals(t) == hurt' = [hurt EXCEPT ![t] = FALSE]

SwitchTo(transport) ==
    /\ active' = transport /\ dwell' = 0
    /\ IF transport = "http"
       THEN untilProbe' = ProbeInterval /\ sinceFallback' = 0
       ELSE UNCHANGED <<untilProbe, sinceFallback>>

\* _probe_nats_if_due: with HTTP active, look whether NATS is back.
ProbeDue == active = "http" /\ untilProbe = 0

ProbeNats ==
    IF ~ProbeDue THEN UNCHANGED routeVars
    ELSE IF dwell = MinDwell /\ natsReady
    THEN /\ failures' = 0 /\ active' = "nats" /\ dwell' = 0
         /\ untilProbe' = ProbeInterval /\ UNCHANGED sinceFallback
    ELSE untilProbe' = ProbeInterval /\ UNCHANGED <<failures, active, dwell, sinceFallback>>

\* publish or publish_batch is called; first of all NATS is probed.
StartCall(t, b) ==
    /\ step[t] \in {"idle", "done"} /\ Goto(t, "choose")
    /\ bad' = [bad EXCEPT ![t] = b] /\ missing' = [missing EXCEPT ![t] = TRUE]
    /\ ProbeNats
    /\ UNCHANGED <<linkVars, breakerVars, fallback, hurt, backend, faults>>

\* The active transport is read, without the lock, and leads to HTTP ...
ChooseHttp(t) ==
    /\ step[t] = "choose" /\ active = "http" /\ Goto(t, "http")
    /\ UNCHANGED <<linkVars, breakerVars, fallback, routeVars, bad, hurt, missing,
                   backend, faults>>

\* ... or to NATS: without a connection JetStreamPublisher sends nothing.
ChooseNats(t) ==
    /\ step[t] = "choose" /\ active = "nats"
    /\ IF natsReady
       THEN Goto(t, "sent") /\ hurt' = [hurt EXCEPT ![t] = server # "up"]
       ELSE Goto(t, "failed") /\ UNCHANGED hurt
    /\ UNCHANGED <<linkVars, breakerVars, fallback, routeVars, bad, missing,
                   backend, faults>>

-----------------------------------------------------------------------------
\* JetStreamPublisher: every message is acknowledged.
NatsAcks(t) ==
    /\ step[t] = "sent" /\ server = "up" /\ nc = "up" /\ Goto(t, "acked")
    /\ AllTaken(t) /\ Heals(t)
    /\ UNCHANGED <<linkVars, breakerVars, fallback, routeVars, bad, backend,
                   faults>>

\* A mistake: a batch of which some messages were acknowledged counts as sent.
NatsPartly(t) ==
    /\ step[t] = "sent" /\ hurt[t] /\ Heals(t)
    /\ Goto(t, "acked") /\ UNCHANGED missing
    /\ UNCHANGED <<linkVars, breakerVars, fallback, routeVars, bad, backend,
                   faults>>

\* Some acknowledgement does not come in time, or an error comes instead; the
\* server may have taken some of the messages or all of them.
NatsFails(t) ==
    /\ step[t] = "sent" /\ hurt[t] /\ Heals(t)
    /\ Goto(t, "failed") /\ (UNCHANGED missing \/ AllTaken(t))
    /\ UNCHANGED <<linkVars, breakerVars, fallback, routeVars, bad, backend,
                   faults>>

\* _note_nats_success.
NoteSuccess(t) ==
    /\ step[t] = "acked" /\ Returns(t)
    /\ failures' = 0
    /\ UNCHANGED <<linkVars, breakerVars, fallback, active, dwell, untilProbe,
                   sinceFallback, hurt, missing, backend, faults>>

\* A mistake: the failure that reaches the threshold switches at any time.
CountAtOnce ==
    /\ failures' = Min({failures + 1, FailThreshold})
    /\ IF fallback /\ active = "nats" /\ failures' = FailThreshold
       THEN SwitchTo("http")
       ELSE UNCHANGED <<active, dwell, untilProbe, sinceFallback>>

\* The locked part of _note_nats_failure.
CountFailure ==
    /\ failures' = Min({failures + 1, FailThreshold})
    /\ IF fallback /\ active = "nats" /\ failures' = FailThreshold /\ dwell = MinDwell
       THEN SwitchTo("http")
       ELSE UNCHANGED <<active, dwell, untilProbe, sinceFallback>>

\* The failure is counted; then the call goes over to HTTP, or raises.
NoteFailure(t) ==
    /\ step[t] = "failed" /\ CountFailure
    /\ IF fallback THEN Goto(t, "http") /\ UNCHANGED <<bad, missing>> ELSE Raises(t)
    /\ UNCHANGED <<linkVars, breakerVars, fallback, hurt, backend, faults>>

-----------------------------------------------------------------------------
\* HttpTelemetryPublisher.publish(_batch).
HttpDenied(t) ==
    /\ step[t] = "http" /\ Deny /\ Raises(t)
    /\ UNCHANGED <<linkVars, fallback, routeVars, hurt, backend, faults>>

HttpPost(t) ==
    /\ step[t] = "http" /\ Permit /\ Goto(t, "posted")
    /\ hurt' = [hurt EXCEPT ![t] = backend = "down"]
    /\ UNCHANGED <<linkVars, fallback, routeVars, bad, missing, backend, faults>>

Answered(t) ==
    /\ step[t] = "posted" /\ Heals(t)
    /\ UNCHANGED <<linkVars, fallback, routeVars, backend, faults>>

\* 2xx: the backend has taken all of the list.
HttpOk(t) ==
    /\ Answered(t) /\ backend = "up" /\ ~bad[t]
    /\ SetReady /\ Returns(t) /\ AllTaken(t)

\* A mistake: a refusal leaves the breaker, and the mark of a probe, as they are.
RefusedOnly(t) ==
    /\ Answered(t) /\ backend = "up" /\ bad[t]
    /\ Raises(t) /\ UNCHANGED breakerVars

\* A permanent status: the backend can be reached, the message is refused.
HttpRefused(t) ==
    /\ Answered(t) /\ backend = "up" /\ bad[t]
    /\ SetReady /\ Raises(t)

\* No answer (the list may have been taken all the same) or a transient status:
\* the breaker opens, or its wait doubles.
HttpFails(t) ==
    /\ Answered(t) /\ hurt[t]
    /\ SetUnready /\ Raises(t)

-----------------------------------------------------------------------------
InFlight(s) == [t \in Thread |-> hurt[t] \/ step[t] = s]

\* The server stops taking publications, goes or comes back; what is in flight
\* may be hurt.  After the stop it is of no account.
ServerFault(s) ==
    /\ ~stopped
    /\ s # "up" => faults < MaxFaults
    /\ faults' = IF s = "up" THEN faults ELSE faults + 1
    /\ ServerChanges(s)
    /\ hurt' = IF s = "up" THEN hurt ELSE InFlight("sent")
    /\ UNCHANGED <<breakerVars, fallback, routeVars, step, bad, missing,
                   backend>>

BackendFault(b) ==
    /\ backend # b /\ backend' = b
    /\ b # "up" => faults < MaxFaults
    /\ faults' = IF b = "up" THEN faults ELSE faults + 1
    /\ hurt' = IF b = "up" THEN hurt ELSE InFlight("posted")
    /\ UNCHANGED <<linkVars, breakerVars, fallback, routeVars, step, bad, missing>>

LinkStep ==
    /\ Link
    /\ hurt' = IF nc' = "up" THEN hurt ELSE InFlight("sent")
    /\ UNCHANGED <<breakerVars, fallback, routeVars, step, bad, missing, backend,
                   faults>>

\* TelemetryTransportRouter.close: NATS first; a publication in flight is left
\* without its loop.
CloseNats ==
    /\ CloseLink /\ hurt' = InFlight("sent")
    /\ UNCHANGED <<breakerVars, fallback, routeVars, step, bad, missing,
                   backend, faults>>

CloseFallback ==
    /\ stopped /\ fallback /\ CloseHttp
    /\ UNCHANGED <<linkVars, fallback, routeVars, callVars, backend, faults>>

\* Time passes.
Less(n) == IF n > 0 THEN n - 1 ELSE 0

Tick ==
    /\ dwell' = Min({dwell + 1, MinDwell})
    /\ sinceFallback' = Min({sinceFallback + 1, Period})
    /\ untilProbe' = Less(untilProbe) /\ retryIn' = Less(retryIn)
    /\ <<dwell, untilProbe, retryIn, sinceFallback>>' # <<dwell, untilProbe, retryIn, sinceFallback>>
    /\ UNCHANGED <<linkVars, httpReady, wait, probing, httpClosed, fallback, active,
                   failures, callVars, backend, faults>>

Call(t) ==
    \/ ChooseHttp(t) \/ ChooseNats(t) \/ NatsAcks(t) \/ NatsFails(t)
    \/ NoteSuccess(t) \/ NoteFailure(t)
    \/ HttpDenied(t) \/ HttpPost(t) \/ HttpOk(t) \/ HttpRefused(t) \/ HttpFails(t)

Next ==
    \/ \E t \in Thread : Call(t) \/ \E b \in BOOLEAN : StartCall(t, b)
    \/ LinkStep \/ Tick
    \/ \E s \in Servers : ServerFault(s)
    \/ \E b \in {"up", "down"} : BackendFault(b)
    \/ CloseNats \/ CloseFallback

Spec == Init /\ [][Next]_vars

\* Polling and the retrier go on publishing, every call has timeouts, the event
\* loop runs and time passes.  Nothing is asked of the server and the backend.
Fairness ==
    /\ \A t \in Thread : WF_vars(Call(t)) /\ WF_vars(\E b \in BOOLEAN : StartCall(t, b))
    /\ WF_vars(LinkStep /\ nc' # "closed") /\ WF_vars(Tick)

FairSpec == Spec /\ Fairness

-----------------------------------------------------------------------------
\* A call that returns has handed over every message: by NATS, or by HTTP when
\* NATS took none or some of them; the outbox is spared on this word
\* (docstring of the module transport_router).
ReportedWasTaken ==
    \A t \in Thread : step[t] = "done" => ~missing[t]

\* However NATS flaps, and however late the failures of old calls come, the
\* traffic falls to HTTP at most once in ProbeInterval + MinDwell
\* (_note_nats_failure, _switch_locked).
FlapIsDamped ==
    [][active = "nats" /\ active' = "http" => sinceFallback = Period]_vars

\* Once NATS takes publications for good, the traffic comes back to it and
\* stays: HTTP is never a place to be stuck in (_probe_nats_if_due).
ReturnsToNats ==
    <>[](server = "up" /\ nc # "closed" /\ ~stopped) => <>[](active = "nats")

\* Once the backend answers for good, the breaker closes as long as calls come
\* to it: no outcome leaves the mark of a probe behind (_set_ready).
BreakerCloses ==
    <>[](backend = "up" /\ ~httpClosed) /\ []<>(\E t \in Thread : step[t] = "http")
        => <>[]httpReady
=============================================================================
