----------------------- MODULE TransportRouter_proofs -----------------------
(***************************************************************************)
(* Proofs about the transport router, for every set of threads, every      *)
(* threshold and every interval: its state is well-typed, a call that      *)
(* returns has handed over its messages, and NATS is left for HTTP at most *)
(* once in a period.  The breaker is never left open with nothing to close *)
(* it, the readiness that is probed is the connection's own, and without a *)
(* fallback nothing goes over HTTP.                                        *)
(***************************************************************************)
EXTENDS TransportRouter, TLAPS

-----------------------------------------------------------------------------
(* Type correctness *)

\* The smaller of two numbers.
LEMMA MinOfTwo ==
    ASSUME NEW a \in Nat, NEW b \in Nat
    PROVE  Min({a, b}) = IF a <= b THEN a ELSE b
<1>1. \E x \in {a, b} : \A y \in {a, b} : x <= y
  OBVIOUS
<1>2. /\ Min({a, b}) \in {a, b}
      /\ \A y \in {a, b} : Min({a, b}) <= y
  BY <1>1 DEF Min
<1> QED
  BY <1>2

\* The parts of the step relation that change the connection keep its types.
LEMMA LinkTyped == LinkTypeOK /\ [Next]_vars => LinkTypeOK'
<1> SUFFICES ASSUME LinkTypeOK, [Next]_vars
             PROVE  LinkTypeOK'
  OBVIOUS
<1> USE DEF LinkTypeOK
<1>1. CASE LinkStep
  BY <1>1 DEF LinkStep, Link, BackgroundReconnect, OnDisconnected, OnReconnected, OnClosed
<1>2. CASE \E s \in Servers : ServerFault(s)
  BY <1>2 DEF ServerFault, ServerChanges
<1>3. CASE CloseNats
  BY <1>3 DEF CloseNats, CloseLink
<1>4. CASE UNCHANGED linkVars
  BY <1>4 DEF linkVars
<1>5. CASE \E t \in Thread : Call(t) \/ \E b \in BOOLEAN : StartCall(t, b)
  <2>1. UNCHANGED linkVars
    BY <1>5 DEF Call, StartCall, ChooseHttp, ChooseNats, NatsAcks, NatsFails, NoteSuccess,
           NoteFailure, HttpDenied, HttpPost, HttpOk, HttpRefused, HttpFails, Answered
  <2> QED
    BY <2>1, <1>4
<1>6. CASE Tick \/ CloseFallback \/ (\E b \in {"up", "down"} : BackendFault(b)) \/ UNCHANGED vars
  <2>1. UNCHANGED linkVars
    BY <1>6 DEF Tick, CloseFallback, BackendFault, vars
  <2> QED
    BY <2>1, <1>4
<1> QED
  BY <1>1, <1>2, <1>3, <1>5, <1>6 DEF Next

\* A success closes the breaker and takes its wait back.
LEMMA SetReadyTyped ==
    ASSUME BreakerTypeOK, SetReady
    PROVE  BreakerTypeOK'
<1>1. BaseWait \in BaseWait..MaxWait /\ 0 \in 0..MaxWait
  BY BreakerAssumption
<1>2. wait' \in BaseWait..MaxWait /\ retryIn' \in 0..MaxWait
  BY <1>1 DEF SetReady
<1>3. httpReady' \in BOOLEAN /\ probing' \in BOOLEAN /\ httpClosed' \in BOOLEAN
  BY Zenon DEF SetReady, BreakerTypeOK
<1>4. retryIn' = 0 /\ wait' = BaseWait
  BY DEF SetReady
<1> QED
  BY <1>2, <1>3, <1>4 DEF BreakerTypeOK

\* A failure opens the breaker for its wait, and the next wait is within bounds.
LEMMA SetUnreadyTyped ==
    ASSUME BreakerTypeOK, SetUnready
    PROVE  BreakerTypeOK'
<1>1. wait \in Nat /\ 2 * wait \in Nat /\ MaxWait \in Nat /\ BaseWait \in Nat
  BY BreakerAssumption DEF BreakerTypeOK
<1>2. Min({MaxWait, 2 * wait}) = IF MaxWait <= 2 * wait THEN MaxWait ELSE 2 * wait
  BY <1>1, MinOfTwo
<1>3. wait' \in BaseWait..MaxWait
  BY <1>1, <1>2, BreakerAssumption DEF SetUnready, BreakerTypeOK
<1>4. retryIn' \in 0..MaxWait
  BY <1>1 DEF SetUnready, BreakerTypeOK
<1> QED
  BY <1>3, <1>4 DEF SetUnready, BreakerTypeOK

\* The breaker keeps its types: closed, it has no wait left over.
LEMMA BreakerTyped == BreakerTypeOK /\ [Next]_vars => BreakerTypeOK'
<1> SUFFICES ASSUME BreakerTypeOK, [Next]_vars
             PROVE  BreakerTypeOK'
  OBVIOUS
<1>1. CASE UNCHANGED breakerVars
  BY <1>1 DEF breakerVars, BreakerTypeOK
<1>2. ASSUME NEW t \in Thread, Call(t)
      PROVE  BreakerTypeOK'
  <2>1. CASE HttpPost(t)
    BY <2>1 DEF HttpPost, Permit, BreakerTypeOK
  <2>2. CASE HttpOk(t) \/ HttpRefused(t)
    <3>1. SetReady
      BY <2>2 DEF HttpOk, HttpRefused
    <3> QED
      BY <3>1, SetReadyTyped
  <2>3. CASE HttpFails(t)
    BY <2>3, SetUnreadyTyped DEF HttpFails
  <2>4. CASE HttpDenied(t)
    BY <2>4, <1>1 DEF HttpDenied, Deny
  <2> QED
    BY <1>1, <1>2, <2>1, <2>2, <2>3, <2>4
       DEF Call, ChooseHttp, ChooseNats, NatsAcks, NatsFails, NoteSuccess, NoteFailure
<1>3. CASE Tick
  BY <1>3, BreakerAssumption DEF Tick, Less, BreakerTypeOK
<1>4. CASE CloseFallback
  BY <1>4 DEF CloseFallback, CloseHttp, BreakerTypeOK
<1>5. CASE \/ \E t \in Thread : \E b \in BOOLEAN : StartCall(t, b)
           \/ LinkStep \/ (\E s \in Servers : ServerFault(s))
           \/ (\E b \in {"up", "down"} : BackendFault(b)) \/ CloseNats \/ UNCHANGED vars
  <2>1. UNCHANGED breakerVars
    BY <1>5 DEF StartCall, LinkStep, ServerFault, BackendFault, CloseNats, vars
  <2> QED
    BY <2>1, <1>1
<1> QED
  BY <1>2, <1>3, <1>4, <1>5 DEF Next

\* A step of the router itself: a probe, a success or a failure noted, a tick.
\* Every other step leaves the active transport and its times alone.
LEMMA RouterSteps ==
    ASSUME [Next]_vars
    PROVE  /\ UNCHANGED fallback
           /\ \/ ProbeNats
              \/ failures' = 0 /\ UNCHANGED <<active, dwell, untilProbe, sinceFallback>>
              \/ CountFailure
              \/ Tick
              \/ UNCHANGED routeVars
<1>1. CASE \E t \in Thread : Call(t)
  BY <1>1 DEF Call, ChooseHttp, ChooseNats, NatsAcks, NatsFails, NoteSuccess, NoteFailure,
         HttpDenied, HttpPost, HttpOk, HttpRefused, HttpFails, Answered
<1>2. CASE \E t \in Thread : \E b \in BOOLEAN : StartCall(t, b)
  BY <1>2 DEF StartCall
<1>3. CASE Tick
  BY <1>3 DEF Tick
<1>4. CASE \/ LinkStep \/ (\E s \in Servers : ServerFault(s))
           \/ (\E b \in {"up", "down"} : BackendFault(b)) \/ CloseNats \/ CloseFallback
           \/ UNCHANGED vars
  BY <1>4 DEF LinkStep, ServerFault, BackendFault, CloseNats, CloseFallback, vars
<1> QED
  BY <1>1, <1>2, <1>3, <1>4 DEF Next

\* What a tick does to the times of the router.
LEMMA TickOfRouter ==
    ASSUME RouterTypeOK, Tick
    PROVE  /\ dwell' = IF dwell + 1 <= MinDwell THEN dwell + 1 ELSE MinDwell
           /\ sinceFallback' = IF sinceFallback + 1 <= Period THEN sinceFallback + 1 ELSE Period
           /\ untilProbe' = IF untilProbe > 0 THEN untilProbe - 1 ELSE 0
           /\ UNCHANGED <<active, failures, fallback>>
<1>1. /\ dwell + 1 \in Nat /\ sinceFallback + 1 \in Nat
      /\ MinDwell \in Nat /\ Period \in Nat
  BY RouterAssumption DEF RouterTypeOK, Period
<1> QED
  BY <1>1, MinOfTwo DEF Tick, Less

\* The failures in a row, counted up to the threshold.
LEMMA CountTyped ==
    ASSUME RouterTypeOK, CountFailure
    PROVE  failures' \in 0..FailThreshold
<1>1. failures + 1 \in Nat /\ FailThreshold \in Nat
  BY RouterAssumption DEF RouterTypeOK
<1>2. failures' = IF failures + 1 <= FailThreshold THEN failures + 1 ELSE FailThreshold
  BY <1>1, MinOfTwo DEF CountFailure
<1> QED
  BY <1>1, <1>2 DEF RouterTypeOK

\* The router keeps its types; without a fallback it never leaves NATS.
LEMMA RouterTyped == RouterTypeOK /\ [Next]_vars => RouterTypeOK'
<1> SUFFICES ASSUME RouterTypeOK, [Next]_vars
             PROVE  RouterTypeOK'
  OBVIOUS
<1>0. /\ {FailThreshold, MinDwell, ProbeInterval, Period} \subseteq Nat
      /\ UNCHANGED fallback
  BY RouterAssumption, RouterSteps DEF Period
<1>1. CASE ProbeNats
  BY <1>0, <1>1 DEF ProbeNats, ProbeDue, routeVars, RouterTypeOK
<1>2. CASE failures' = 0 /\ UNCHANGED <<active, dwell, untilProbe, sinceFallback>>
  BY <1>0, <1>2 DEF RouterTypeOK
<1>3. CASE CountFailure
  BY <1>0, <1>3, CountTyped DEF CountFailure, SwitchTo, RouterTypeOK
<1>4. CASE Tick
  BY <1>0, <1>4, TickOfRouter DEF RouterTypeOK
<1>5. CASE UNCHANGED routeVars
  BY <1>0, <1>5 DEF routeVars, RouterTypeOK
<1> QED
  BY <1>1, <1>2, <1>3, <1>4, <1>5, RouterSteps

-----------------------------------------------------------------------------
(* The way is changed at most once in a period *)

\* Why: a fall to HTTP starts a full interval of probing, which has passed when
\* a probe finds NATS; from there the dwell is counted anew, and no failure
\* leads away before it is over.
Damped ==
    /\ active = "http" => sinceFallback + untilProbe >= ProbeInterval
    /\ active = "nats" => sinceFallback >= ProbeInterval + dwell

\* The times stay apart in every step of the router.
LEMMA DampedKept == RouterTypeOK /\ Damped /\ [Next]_vars => Damped'
<1> SUFFICES ASSUME RouterTypeOK, Damped, [Next]_vars
             PROVE  Damped'
  OBVIOUS
<1>0. {MinDwell, ProbeInterval, Period} \subseteq Nat /\ Period = ProbeInterval + MinDwell
  BY RouterAssumption DEF Period
<1>1. CASE ProbeNats
  BY <1>0, <1>1 DEF ProbeNats, ProbeDue, routeVars, RouterTypeOK, Damped
<1>2. CASE failures' = 0 /\ UNCHANGED <<active, dwell, untilProbe, sinceFallback>>
  BY <1>2 DEF Damped
<1>3. CASE CountFailure
  BY <1>0, <1>3 DEF CountFailure, SwitchTo, RouterTypeOK, Damped
<1>4. CASE Tick
  BY <1>0, <1>4, TickOfRouter DEF RouterTypeOK, Damped
<1>5. CASE UNCHANGED routeVars
  BY <1>5 DEF routeVars, Damped
<1> QED
  BY <1>1, <1>2, <1>3, <1>4, <1>5, RouterSteps

\* A fall to HTTP is a failure that is noted when the dwell is over.
LEMMA FallIsDamped ==
    ASSUME RouterTypeOK, Damped, [Next]_vars, active = "nats", active' = "http"
    PROVE  sinceFallback = Period
<1>0. {MinDwell, ProbeInterval, Period} \subseteq Nat /\ Period = ProbeInterval + MinDwell
  BY RouterAssumption DEF Period
<1>1. CountFailure
  BY RouterSteps DEF ProbeNats, ProbeDue, Tick, routeVars
<1>2. dwell = MinDwell
  BY <1>1 DEF CountFailure
<1> QED
  BY <1>0, <1>2 DEF Damped, RouterTypeOK

-----------------------------------------------------------------------------
(* A call that returns has handed over its messages *)

\* A call that was acknowledged or has returned misses nothing.
Taken == \A t \in Thread : step[t] \in {"acked", "done"} => ~missing[t]

CallInv == CallTypeOK /\ Taken

\* A step of one call, whatever it does to the others' marks, keeps the rest.
LEMMA CallKept ==
    ASSUME CallInv, NEW t \in Thread, Call(t)
    PROVE  CallInv'
<1> USE DEF CallInv, CallTypeOK, Taken
<1>1. CASE ChooseHttp(t)
  BY <1>1 DEF ChooseHttp, Goto
<1>2. CASE ChooseNats(t)
  <2>1. CASE natsReady
    BY <1>2, <2>1 DEF ChooseNats, Goto
  <2>2. CASE ~natsReady
    BY <1>2, <2>2 DEF ChooseNats, Goto
  <2> QED
    BY <2>1, <2>2
<1>3. CASE NatsAcks(t)
  BY <1>3 DEF NatsAcks, Goto, AllTaken, Heals
<1>4. CASE NatsFails(t)
  BY <1>4 DEF NatsFails, Goto, AllTaken, Heals
<1>5. CASE NoteSuccess(t)
  BY <1>5 DEF NoteSuccess, Returns, Goto
<1>6. CASE NoteFailure(t)
  BY <1>6 DEF NoteFailure, Raises, Goto
<1>7. CASE HttpDenied(t)
  BY <1>7 DEF HttpDenied, Raises, Goto
<1>8. CASE HttpPost(t)
  BY <1>8 DEF HttpPost, Goto
<1>9. CASE HttpOk(t)
  BY <1>9 DEF HttpOk, Answered, Returns, Goto, AllTaken, Heals
<1>10. CASE HttpRefused(t) \/ HttpFails(t)
  BY <1>10 DEF HttpRefused, HttpFails, Answered, Raises, Goto, Heals
<1> QED
  BY <1>1, <1>2, <1>3, <1>4, <1>5, <1>6, <1>7, <1>8, <1>9, <1>10 DEF Call

\* A fault hurts what is in flight and takes nothing back.
LEMMA HurtKept ==
    ASSUME CallInv, NEW s \in {"sent", "posted"}, hurt' \in {hurt, InFlight(s)},
           UNCHANGED <<step, bad, missing>>
    PROVE  CallInv'
<1> QED
  BY DEF CallInv, CallTypeOK, Taken, InFlight

\* Every step keeps what is known of the calls.
LEMMA NextCallInv == CallInv /\ [Next]_vars => CallInv'
<1> SUFFICES ASSUME CallInv, [Next]_vars
             PROVE  CallInv'
  OBVIOUS
<1>1. CASE \E t \in Thread : Call(t)
  BY <1>1, CallKept
<1>2. CASE \E t \in Thread : \E b \in BOOLEAN : StartCall(t, b)
  BY <1>2 DEF StartCall, Goto, CallInv, CallTypeOK, Taken
<1>3. CASE LinkStep \/ CloseNats \/ \E s \in Servers : ServerFault(s)
  <2>1. hurt' \in {hurt, InFlight("sent")} /\ UNCHANGED <<step, bad, missing>>
    BY <1>3 DEF LinkStep, CloseNats, ServerFault
  <2> QED
    BY <2>1, HurtKept
<1>4. CASE \E b \in {"up", "down"} : BackendFault(b)
  <2>1. hurt' \in {hurt, InFlight("posted")} /\ UNCHANGED <<step, bad, missing>>
    BY <1>4 DEF BackendFault
  <2> QED
    BY <2>1, HurtKept
<1>5. CASE Tick \/ CloseFallback \/ UNCHANGED vars
  <2>1. UNCHANGED callVars
    BY <1>5 DEF Tick, CloseFallback, vars
  <2> QED
    BY <2>1 DEF callVars, CallInv, CallTypeOK, Taken
<1> QED
  BY <1>1, <1>2, <1>3, <1>4, <1>5 DEF Next

-----------------------------------------------------------------------------
(* The theorems *)

\* The backend and the count of faults stay typed.
LEMMA WorldTyped ==
    ASSUME backend \in {"up", "down"}, faults \in 0..MaxFaults, [Next]_vars
    PROVE  (backend \in {"up", "down"} /\ faults \in 0..MaxFaults)'
<1>0. MaxFaults \in Nat
  BY RouterAssumption
<1>1. CASE \/ \E s \in Servers : ServerFault(s)
           \/ \E b \in {"up", "down"} : BackendFault(b)
  BY <1>0, <1>1 DEF ServerFault, BackendFault
<1>2. CASE UNCHANGED <<backend, faults>>
  BY <1>2
<1>3. CASE \E t \in Thread : Call(t) \/ \E b \in BOOLEAN : StartCall(t, b)
  BY <1>2, <1>3 DEF Call, StartCall, ChooseHttp, ChooseNats, NatsAcks, NatsFails, NoteSuccess,
         NoteFailure, HttpDenied, HttpPost, HttpOk, HttpRefused, HttpFails, Answered
<1>4. CASE LinkStep \/ Tick \/ CloseNats \/ CloseFallback \/ UNCHANGED vars
  BY <1>2, <1>4 DEF LinkStep, Tick, CloseNats, CloseFallback, vars
<1> QED
  BY <1>1, <1>3, <1>4 DEF Next

\* The inductive invariant: types, what the calls hold, and how far apart the
\* times of the router are.
IInv == TypeOK /\ Taken /\ Damped

LEMMA InitIInv == Init => IInv
<1> SUFFICES ASSUME Init
             PROVE  IInv
  OBVIOUS
<1>1. {MinDwell, ProbeInterval, Period, FailThreshold, MaxFaults} \subseteq Nat
      /\ Period = ProbeInterval + MinDwell
  BY RouterAssumption DEF Period
<1>2. LinkTypeOK
  BY DEF Init, LinkInit, LinkTypeOK
<1>3. BreakerTypeOK
  <2>1. retryIn = 0 /\ wait = BaseWait
    BY DEF Init, BreakerInit
  <2>2. retryIn \in 0..MaxWait /\ wait \in BaseWait..MaxWait
    BY <2>1, BreakerAssumption
  <2>3. httpReady \in BOOLEAN /\ probing \in BOOLEAN /\ httpClosed \in BOOLEAN
    BY Zenon DEF Init, BreakerInit
  <2> QED
    BY <2>1, <2>2, <2>3 DEF BreakerTypeOK
<1>4. RouterTypeOK /\ Damped
  BY <1>1, RouterAssumption DEF Init, RouterTypeOK, Damped
<1>5. CallTypeOK /\ Taken
  BY DEF Init, CallTypeOK, Taken
<1>6. backend \in {"up", "down"} /\ faults \in 0..MaxFaults
  BY <1>1 DEF Init
<1> QED
  BY <1>2, <1>3, <1>4, <1>5, <1>6 DEF IInv, TypeOK

LEMMA NextIInv == IInv /\ [Next]_vars => IInv'
<1> SUFFICES ASSUME IInv, [Next]_vars
             PROVE  IInv'
  OBVIOUS
<1>1. LinkTypeOK' /\ BreakerTypeOK' /\ RouterTypeOK'
  BY LinkTyped, BreakerTyped, RouterTyped DEF IInv, TypeOK
<1>2. CallTypeOK' /\ Taken'
  BY NextCallInv DEF IInv, TypeOK, CallInv
<1>3. Damped'
  BY DampedKept DEF IInv, TypeOK
<1>4. (backend \in {"up", "down"} /\ faults \in 0..MaxFaults)'
  BY WorldTyped DEF IInv, TypeOK
<1> QED
  BY <1>1, <1>2, <1>3, <1>4 DEF IInv, TypeOK

LEMMA IInvHolds == Spec => []IInv
<1> QED
  BY InitIInv, NextIInv, PTL DEF Spec

\* The state of the router, of its connection and of its breaker is well-typed.
THEOREM TypeCorrect == Spec => []TypeOK
<1>1. IInv => TypeOK
  BY DEF IInv
<1> QED
  BY <1>1, IInvHolds, PTL

\* Whatever fails, whenever the way changes: a call that returns has handed over
\* every message, to NATS or to the backend (publish, publish_batch).
THEOREM ReturnsWhenTaken == Spec => []ReportedWasTaken
<1>1. IInv => ReportedWasTaken
  BY DEF IInv, Taken, ReportedWasTaken
<1> QED
  BY <1>1, IInvHolds, PTL

\* However NATS flaps, and however many threads report late failures, the
\* traffic falls to HTTP at most once in ProbeInterval + MinDwell.
THEOREM SwitchesAreDamped == Spec => FlapIsDamped
<1>1. IInv /\ [Next]_vars => [active = "nats" /\ active' = "http" => sinceFallback = Period]_vars
  BY FallIsDamped DEF IInv, TypeOK
<1> QED
  BY <1>1, IInvHolds, PTL DEF Spec, FlapIsDamped

-----------------------------------------------------------------------------
(* There is always a way back: what the liveness of both ways rests on     *)

\* The mark of a probe is held by a request under way, whose outcome, whatever
\* it is, takes it back.
ProbeIsUnderWay == probing => \E t \in Thread : step[t] = "posted"

\* Once the breaker's wait is over, either a request is let through or one is
\* under way that will settle it: no outcome and no interleaving of requests
\* leaves the breaker open with nobody to close it (_probe_in_flight).
BreakerIsNotStuck ==
    retryIn = 0 => Permits \/ \E t \in Thread : step[t] = "posted"

\* The event that publications look at says what the connection is, and while
\* there is none the task that makes one runs, until close: `_ready` is neither
\* left set by a connection that broke nor unset by one that came back.
ReadyIsConnected ==
    /\ natsReady <=> nc = "up"
    /\ retrying <=> nc = "none" /\ ~stopped

\* Without a fallback no message goes over HTTP, and its breaker is never touched.
LocalStaysLocal ==
    ~fallback => /\ \A t \in Thread : step[t] \notin {"http", "posted"}
                 /\ httpReady /\ ~probing

\* A request leaves `posted` only with an outcome that takes the mark back.
LEMMA ProbeKept == IInv /\ ProbeIsUnderWay /\ [Next]_vars => ProbeIsUnderWay'
<1> SUFFICES ASSUME IInv, ProbeIsUnderWay, [Next]_vars, probing'
             PROVE  \E t \in Thread : step'[t] = "posted"
  BY DEF ProbeIsUnderWay
<1>0. step \in [Thread -> {"idle", "choose", "sent", "acked", "failed", "http", "posted", "done"}]
  BY DEF IInv, TypeOK, CallTypeOK
<1>1. CASE UNCHANGED <<probing, step>>
  BY <1>1 DEF ProbeIsUnderWay
<1>2. ASSUME NEW t \in Thread, UNCHANGED probing, step[t] # "posted",
             NEW s, Goto(t, s)
      PROVE  \E u \in Thread : step'[u] = "posted"
  <2>1. PICK u \in Thread : step[u] = "posted"
    BY <1>2 DEF ProbeIsUnderWay
  <2> QED
    BY <2>1, <1>0, <1>2 DEF Goto
<1>3. ASSUME NEW t \in Thread, Call(t)
      PROVE  \E u \in Thread : step'[u] = "posted"
  <2>1. CASE HttpPost(t)
    BY <2>1, <1>0 DEF HttpPost, Goto
  <2>2. CASE HttpOk(t) \/ HttpRefused(t) \/ HttpFails(t)
    BY <2>2 DEF HttpOk, HttpRefused, HttpFails, SetReady, SetUnready
  <2>3. CASE HttpDenied(t)
    BY <2>3, <1>2 DEF HttpDenied, Deny, Raises, breakerVars
  <2>4. CASE ChooseHttp(t) \/ ChooseNats(t) \/ NatsAcks(t) \/ NatsFails(t)
    BY <2>4, <1>2 DEF ChooseHttp, ChooseNats, NatsAcks, NatsFails, breakerVars
  <2>5. CASE NoteSuccess(t) \/ NoteFailure(t)
    BY <2>5, <1>2 DEF NoteSuccess, NoteFailure, Returns, Raises, breakerVars
  <2> QED
    BY <1>3, <2>1, <2>2, <2>3, <2>4, <2>5 DEF Call
<1>4. ASSUME NEW t \in Thread, NEW b \in BOOLEAN, StartCall(t, b)
      PROVE  \E u \in Thread : step'[u] = "posted"
  BY <1>4, <1>2 DEF StartCall, breakerVars
<1>5. CASE \/ LinkStep \/ Tick \/ (\E s \in Servers : ServerFault(s))
           \/ (\E b \in {"up", "down"} : BackendFault(b)) \/ CloseNats \/ CloseFallback
           \/ UNCHANGED vars
  <2>1. UNCHANGED <<probing, step>>
    BY <1>5 DEF LinkStep, Tick, ServerFault, BackendFault, CloseNats, CloseFallback, CloseHttp,
         vars, breakerVars, callVars
  <2> QED
    BY <2>1, <1>1
<1> QED
  BY <1>3, <1>4, <1>5 DEF Next

\* The callbacks of the event loop keep `_ready` true to the connection.
LEMMA ReadyKept == ReadyIsConnected /\ [Next]_vars => ReadyIsConnected'
<1> SUFFICES ASSUME ReadyIsConnected, [Next]_vars
             PROVE  ReadyIsConnected'
  OBVIOUS
<1> USE DEF ReadyIsConnected
<1>1. CASE LinkStep
  BY <1>1 DEF LinkStep, Link, BackgroundReconnect, OnDisconnected, OnReconnected, OnClosed
<1>2. CASE \E s \in Servers : ServerFault(s)
  BY <1>2 DEF ServerFault, ServerChanges
<1>3. CASE CloseNats
  BY <1>3 DEF CloseNats, CloseLink
<1>4. CASE \/ \E t \in Thread : Call(t) \/ \E b \in BOOLEAN : StartCall(t, b)
           \/ Tick \/ CloseFallback \/ (\E b \in {"up", "down"} : BackendFault(b))
           \/ UNCHANGED vars
  <2>1. UNCHANGED linkVars
    BY <1>4 DEF Call, StartCall, ChooseHttp, ChooseNats, NatsAcks, NatsFails, NoteSuccess,
           NoteFailure, HttpDenied, HttpPost, HttpOk, HttpRefused, HttpFails, Answered,
           Tick, CloseFallback, BackendFault, vars
  <2> QED
    BY <2>1 DEF linkVars
<1> QED
  BY <1>1, <1>2, <1>3, <1>4 DEF Next

\* Without a fallback a failed call raises where it would have gone to HTTP.
LEMMA LocalKept == IInv /\ LocalStaysLocal /\ [Next]_vars => LocalStaysLocal'
<1> SUFFICES ASSUME IInv, LocalStaysLocal, [Next]_vars, ~fallback'
             PROVE  /\ \A t \in Thread : step'[t] \notin {"http", "posted"}
                    /\ httpReady' /\ ~probing'
  BY DEF LocalStaysLocal
<1>0. /\ step \in [Thread -> {"idle", "choose", "sent", "acked", "failed", "http", "posted", "done"}]
      /\ ~fallback /\ active # "http"
      /\ \A t \in Thread : step[t] \notin {"http", "posted"}
      /\ httpReady /\ ~probing
  BY RouterSteps DEF IInv, TypeOK, CallTypeOK, RouterTypeOK, LocalStaysLocal
<1>1. ASSUME NEW t \in Thread, UNCHANGED breakerVars, NEW s, s \notin {"http", "posted"}, Goto(t, s)
      PROVE  /\ \A u \in Thread : step'[u] \notin {"http", "posted"}
             /\ httpReady' /\ ~probing'
  BY <1>0, <1>1 DEF Goto, breakerVars
<1>2. ASSUME NEW t \in Thread, Call(t)
      PROVE  /\ \A u \in Thread : step'[u] \notin {"http", "posted"}
             /\ httpReady' /\ ~probing'
  <2>1. CASE ChooseNats(t) \/ NatsAcks(t) \/ NatsFails(t)
    BY <2>1, <1>1 DEF ChooseNats, NatsAcks, NatsFails
  <2>2. CASE NoteSuccess(t) \/ NoteFailure(t)
    BY <2>2, <1>0, <1>1 DEF NoteSuccess, NoteFailure, Returns, Raises
  <2>3. step[t] \notin {"http", "posted"} /\ active # "http"
    BY <1>0
  <2> QED
    BY <1>2, <2>1, <2>2, <2>3 DEF Call, ChooseHttp, HttpDenied, HttpPost, HttpOk, HttpRefused,
         HttpFails, Answered
<1>3. ASSUME NEW t \in Thread, NEW b \in BOOLEAN, StartCall(t, b)
      PROVE  /\ \A u \in Thread : step'[u] \notin {"http", "posted"}
             /\ httpReady' /\ ~probing'
  BY <1>3, <1>1 DEF StartCall
<1>4. CASE \/ LinkStep \/ Tick \/ (\E s \in Servers : ServerFault(s))
           \/ (\E b \in {"up", "down"} : BackendFault(b)) \/ CloseNats \/ CloseFallback
           \/ UNCHANGED vars
  <2>1. UNCHANGED <<httpReady, probing, step>>
    BY <1>4 DEF LinkStep, Tick, ServerFault, BackendFault, CloseNats, CloseFallback, CloseHttp,
         vars, breakerVars, callVars
  <2> QED
    BY <2>1, <1>0
<1> QED
  BY <1>2, <1>3, <1>4 DEF Next

\* The safety core of BreakerCloses: whatever becomes of the requests, the breaker
\* is never left open with its wait over and nothing to close it.
THEOREM BreakerNeverSticks == Spec => []BreakerIsNotStuck
<1>1. Init => ProbeIsUnderWay
  BY DEF Init, BreakerInit, ProbeIsUnderWay
<1>2. ProbeIsUnderWay => BreakerIsNotStuck
  BY DEF ProbeIsUnderWay, BreakerIsNotStuck, Permits
<1> QED
  BY <1>1, <1>2, ProbeKept, IInvHolds, PTL DEF Spec

\* The safety core of ReturnsToNats: the readiness that the probes look at is the
\* connection's own, and an absent connection is being made.
THEOREM ReadinessIsTrue == Spec => []ReadyIsConnected
<1>1. Init => ReadyIsConnected
  BY DEF Init, LinkInit, ReadyIsConnected
<1> QED
  BY <1>1, ReadyKept, PTL DEF Spec

\* A gateway without the HTTP fallback sends nothing over it, however many NATS
\* failures it counts (fallback_enabled).
THEOREM LocalNeverUsesHttp == Spec => []LocalStaysLocal
<1>1. Init => LocalStaysLocal
  BY DEF Init, BreakerInit, LocalStaysLocal
<1> QED
  BY <1>1, LocalKept, IInvHolds, PTL DEF Spec
=============================================================================
