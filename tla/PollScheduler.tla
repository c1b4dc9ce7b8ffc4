---------------------------- MODULE PollScheduler ----------------------------
(***************************************************************************)
(* Which device is asked when: the main loop's run_poll_cycle, the pool of *)
(* poll workers and the times of the last readings in GatewayState.        *)
(*                                                                         *)
(* A cycle takes the devices whose interval has passed, longest unread     *)
(* first, and hands them to the pool; a cycle of one device, or of a       *)
(* gateway without parallel polls, asks them one by one itself.  A poll    *)
(* that takes too long is given up, but its worker is not free before the  *)
(* poll ends.  What a poll reads and publishes is DevicePublishing.        *)
(*                                                                         *)
(* Actors: the main loop, the workers, and the environment (a new          *)
(* configuration, the clock, the outbox).  Times are ranks: a device that  *)
(* was never read has 0, and at the start of a cycle the others are        *)
(* numbered from 1 in the order of their times.                            *)
(***************************************************************************)
EXTENDS Naturals, FiniteSets, Functions

CONSTANTS
    Device,         \* device codes
    Position,       \* Device -> its place in the configuration
    Fleets,         \* the sets of devices the backend may configure
    MaxParallel,    \* max_parallel_devices
    MaxEvents       \* bound on new configurations, restarts, full outboxes and
                    \* polls that start while a cycle is settled (model only)

ASSUME SchedulerAssumption ==
    /\ IsFiniteSet(Device)
    /\ Position \in [Device -> Nat]
    /\ \A d, e \in Device : Position[d] = Position[e] => d = e
    /\ Fleets \subseteq SUBSET Device
    /\ MaxParallel \in Nat /\ MaxEvents \in Nat

VARIABLES
    \* GatewayState
    config,         \* _devices
    active,         \* is_active and has_any_signals
    rank,           \* _last_read_at
    due,            \* has the interval passed since then
    \* the cycle
    pc,             \* where run_poll_cycle is
    turn,           \* the ranks by which this cycle is ordered
    future,         \* Device -> the state of this cycle's future
    \* the pool
    capacity,       \* _pool_max_workers
    given,          \* Device -> given up polls that still hold a worker
    \* the environment
    full,           \* publisher.outbox_full
    events,
    \* history
    asked,          \* devices asked in this cycle
    passed          \* Device -> devices asked in the cycles that left it out

cycleVars == <<pc, turn, future>>
poolVars  == <<capacity, given>>
timeVars  == <<rank, due>>
confVars  == <<config, active>>
ghostVars == <<asked, passed>>
vars == <<confVars, timeVars, cycleVars, poolVars, full, events, ghostVars>>

-----------------------------------------------------------------------------
Never == 0

\* What is bounded happens.
Happens == events < MaxEvents /\ events' = events + 1

\* The time of the cycle, at which it marks devices: after all earlier ones.
Now == Cardinality(Device) + 1

\* The order of the times without gaps.
Less(f, d) == {f[e] : e \in {x \in Device : f[x] < f[d]}} \cup ({Never} \ {f[d]})
Ranked(f) == [d \in Device |-> Cardinality(Less(f, d))]

\* A mistake: devices are asked in the order of the configuration.
BeforeByPlace(d, e) == Position[d] < Position[e]

\* due_devices: longest unread first; the sort is stable.
Before(d, e) == turn[d] < turn[e] \/ (turn[d] = turn[e] /\ Position[d] < Position[e])

Idle == [d \in Device |-> "none"]
In(s) == {d \in Device : future[d] = s}

\* The next of the queue.
First(d) == future[d] = "queued" /\ \A e \in In("queued") \ {d} : Before(d, e)

Busy == FoldFunction(LAMBDA m, n : m + n, 0, given) + Cardinality(In("running"))

Init ==
    /\ config = Device /\ active = TRUE
    /\ rank = [d \in Device |-> Never] /\ due = [d \in Device |-> TRUE]
    /\ pc = "wait" /\ turn = [d \in Device |-> Never] /\ future = Idle
    /\ capacity = 0 /\ given = [d \in Device |-> 0]
    /\ full = FALSE
    /\ events = 0
    /\ asked = {} /\ passed = [d \in Device |-> {}]

-----------------------------------------------------------------------------
\* mark_read, with the time at which the cycle began.
MarkRead(S) ==
    /\ rank' = [d \in Device |-> IF d \in S THEN Now ELSE rank[d]]
    /\ due'  = [d \in Device |-> IF d \in S THEN FALSE ELSE due[d]]

Due == {d \in config : due[d]}

\* _get_or_create_pool: a larger pool replaces the old one, whose threads end
\* with their polls and hold no worker of the new one.
GetPool(workers) ==
    IF workers > capacity
    THEN capacity' = workers /\ given' = [d \in Device |-> 0]
    ELSE UNCHANGED poolVars

Min(m, n) == IF m < n THEN m ELSE n

\* A cycle returns at once when the gateway is not active, no device is due or
\* the outbox is full; nobody is marked.
SkipCycle ==
    /\ pc = "wait"
    /\ ~active \/ Due = {} \/ full
    /\ UNCHANGED vars

\* run_poll_cycle until the devices are submitted, or until the first of them
\* is asked.
BeginCycle ==
    /\ pc = "wait" /\ active /\ Due # {} /\ ~full
    /\ rank' = Ranked(rank) /\ turn' = Ranked(rank)
    /\ future' = [d \in Device |-> IF d \in Due THEN "queued" ELSE "none"]
    /\ IF MaxParallel <= 1 \/ Cardinality(Due) = 1
       THEN pc' = "serial" /\ UNCHANGED poolVars
       ELSE pc' = "loop" /\ GetPool(Min(MaxParallel, Cardinality(Due)))
    /\ asked' = {}
    /\ UNCHANGED <<confVars, due, full, events, passed>>

\* The devices of S are left out of a cycle that asked others.
LeftOut(S) == passed' = [d \in Device |-> IF d \in S THEN passed[d] \cup asked ELSE passed[d]]

EndCycle ==
    /\ pc' = "wait" /\ turn' = [d \in Device |-> Never]

-----------------------------------------------------------------------------
(* The serial path.                                                        *)

IsAsked(d) ==
    /\ future' = [future EXCEPT ![d] = "running"]
    /\ asked' = asked \cup {d}
    /\ passed' = [passed EXCEPT ![d] = {}]

Ask(d) ==
    /\ pc = "serial" /\ In("running") = {} /\ First(d)
    /\ IsAsked(d)
    /\ UNCHANGED <<confVars, timeVars, pc, turn, poolVars, full, events>>

\* poll_device returns; an exception other than OutboxFullError does not leave it.
Answered(d) ==
    /\ pc = "serial" /\ future[d] = "running"
    /\ MarkRead({d})
    /\ future' = [future EXCEPT ![d] = "none"]
    /\ IF In("queued") = {} THEN EndCycle ELSE UNCHANGED <<pc, turn>>
    /\ UNCHANGED <<confVars, poolVars, full, events, ghostVars>>

\* OutboxFullError: this device is marked, those behind it are not asked.
Aborted(d) ==
    /\ pc = "serial" /\ future[d] = "running"
    /\ MarkRead({d})
    /\ Happens /\ full' = TRUE
    /\ future' = Idle /\ EndCycle
    /\ LeftOut(In("queued"))
    /\ UNCHANGED <<confVars, poolVars, asked>>

-----------------------------------------------------------------------------
(* The pool.                                                               *)

\* A free worker takes the next future and writes its start (_kosucu); it may
\* do so while the cycle is settled, though not in every cycle.
Start(d) ==
    /\ pc \in {"loop", "settle"} /\ First(d) /\ Busy < capacity
    /\ IF pc = "settle" THEN Happens ELSE UNCHANGED events
    /\ IsAsked(d)
    /\ UNCHANGED <<confVars, timeVars, pc, turn, poolVars, full>>

\* A poll that ends may have found the outbox full (OutboxFullError).
Publishes == UNCHANGED <<full, events>> \/ (Happens /\ full' = TRUE)

\* poll_device returns in the worker, or raises.
PollEnds(d) ==
    /\ pc \in {"loop", "settle"} /\ future[d] = "running"
    /\ future' = [future EXCEPT ![d] = "done"]
    /\ Publishes
    /\ UNCHANGED <<confVars, timeVars, pc, turn, poolVars, ghostVars>>

\* A poll that was given up ends.
GivenUpEnds(d) ==
    /\ given[d] > 0
    /\ given' = [given EXCEPT ![d] = @ - 1]
    /\ Publishes
    /\ UNCHANGED <<confVars, timeVars, cycleVars, capacity, ghostVars>>

-----------------------------------------------------------------------------
(* The loop of the main thread over its futures.                           *)

\* device_timeout_sec: cancel does not stop a poll that runs.
DeviceTimeout(d) ==
    /\ pc = "loop" /\ future[d] = "running"
    /\ MarkRead({d})
    /\ future' = [future EXCEPT ![d] = "none"]
    /\ given' = [given EXCEPT ![d] = @ + 1]
    /\ UNCHANGED <<confVars, pc, turn, capacity, full, events, ghostVars>>

\* Nothing is pending any more; or cycle_timeout_sec is over, which is long
\* compared with the time in which a free worker takes a future.
LeaveLoop ==
    /\ pc = "loop"
    /\ In("queued") = {} \/ Busy >= capacity
    /\ pc' = "settle"
    /\ UNCHANGED <<confVars, timeVars, turn, future, poolVars, full, events, ghostVars>>

\* A result is collected: the device is marked, whatever its poll did.
Collect(d) ==
    /\ pc = "settle" /\ future[d] = "done"
    /\ MarkRead({d})
    /\ future' = [future EXCEPT ![d] = "none"]
    /\ UNCHANGED <<confVars, pc, turn, poolVars, full, events, ghostVars>>

\* A poll that was started and has not ended is given up.
GiveUp(d) ==
    /\ pc = "settle" /\ future[d] = "running" /\ In("done") = {}
    /\ MarkRead({d})
    /\ future' = [future EXCEPT ![d] = "none"]
    /\ given' = [given EXCEPT ![d] = @ + 1]
    /\ UNCHANGED <<confVars, pc, turn, capacity, full, events, ghostVars>>

\* A mistake: the devices nobody asked are marked too.
CancelAndMark(d) ==
    /\ pc = "settle" /\ future[d] = "queued" /\ In("done") = {}
    /\ MarkRead({d})
    /\ future' = [future EXCEPT ![d] = "none"]
    /\ LeftOut({d})
    /\ UNCHANGED <<confVars, pc, turn, poolVars, full, events, asked>>

\* One that was not started is cancelled and stays unread.
Cancel(d) ==
    /\ pc = "settle" /\ future[d] = "queued" /\ In("done") = {}
    /\ future' = [future EXCEPT ![d] = "none"]
    /\ LeftOut({d})
    /\ UNCHANGED <<confVars, timeVars, pc, turn, poolVars, full, events, asked>>

Settled ==
    /\ pc = "settle" /\ future = Idle
    /\ EndCycle
    /\ UNCHANGED <<confVars, timeVars, future, poolVars, full, events, ghostVars>>

-----------------------------------------------------------------------------
(* The environment.                                                        *)

IntervalPasses(d) ==
    /\ ~due[d]
    /\ due' = [due EXCEPT ![d] = TRUE]
    /\ UNCHANGED <<confVars, rank, cycleVars, poolVars, full, events, ghostVars>>

\* state.update: the times of devices that are gone are forgotten.
Reconfigure(S, a) ==
    /\ Happens
    /\ config' = S /\ active' = a
    /\ rank' = [d \in Device |-> IF d \in S THEN rank[d] ELSE Never]
    /\ due' = [d \in Device |-> d \in S => due[d]]
    /\ asked' = {} /\ passed' = [d \in Device |-> {}]
    /\ UNCHANGED <<cycleVars, poolVars, full>>

\* The outbox has room again.
Drained ==
    /\ full /\ full' = FALSE
    /\ UNCHANGED <<confVars, timeVars, cycleVars, poolVars, events, ghostVars>>

\* The process ends, with or without a signal, and starts with the same
\* configuration.
Restart ==
    /\ Happens
    /\ rank' = [d \in Device |-> Never] /\ due' = [d \in Device |-> TRUE]
    /\ EndCycle /\ future' = Idle
    /\ capacity' = 0 /\ given' = [d \in Device |-> 0]
    /\ full' = FALSE
    /\ asked' = {} /\ passed' = [d \in Device |-> {}]
    /\ UNCHANGED confVars

Cycle ==
    \/ SkipCycle \/ BeginCycle \/ LeaveLoop \/ Settled
    \/ \E d \in Device : Ask(d) \/ Collect(d) \/ GiveUp(d) \/ Cancel(d)

Ends(d) == Answered(d) \/ Aborted(d) \/ PollEnds(d)

Next ==
    \/ Cycle
    \/ \E d \in Device :
         \/ Start(d) \/ Ends(d) \/ GivenUpEnds(d) \/ DeviceTimeout(d)
         \/ IntervalPasses(d)
    \/ \E S \in Fleets, a \in BOOLEAN : Reconfigure(S, a)
    \/ Drained \/ Restart

Spec == Init /\ [][Next]_vars

\* The main loop and the workers run, a poll ends some day (its requests and
\* publications have timeouts of their own), time passes, the outbox drains.
Fairness ==
    /\ WF_vars(Cycle) /\ WF_vars(Drained)
    /\ \A d \in Device :
         /\ WF_vars(Start(d)) /\ WF_vars(Ends(d)) /\ WF_vars(GivenUpEnds(d))
         /\ WF_vars(IntervalPasses(d))

FairSpec == Spec /\ Fairness

-----------------------------------------------------------------------------
TypeOK ==
    /\ config \subseteq Device /\ active \in BOOLEAN /\ full \in BOOLEAN
    /\ rank \in [Device -> Nat] /\ turn \in [Device -> Nat]
    /\ due \in [Device -> BOOLEAN]
    /\ pc \in {"wait", "serial", "loop", "settle"}
    /\ future \in [Device -> {"none", "queued", "running", "done"}]
    /\ capacity \in Nat /\ given \in [Device -> Nat]
    /\ asked \subseteq Device /\ passed \in [Device -> SUBSET Device]

\* A device that a cycle left out because the pool was busy or the outbox full
\* is asked before any device which that cycle asked is asked again
\* (due_devices, the end of run_poll_cycle); only a worker that becomes free
\* while the cycle is settled may still take one that is not its turn.
NobodyIsOvertaken ==
    [][\A d \in config, e \in Device :
         pc \in {"serial", "loop"} /\ future[e] = "queued" /\ future'[e] = "running"
           => e \notin passed[d]]_vars

\* However slow the others are and however small the pool is, every configured
\* device is asked again and again, as long as polls end (run_poll_cycle).
EveryDeviceIsPolled ==
    \A d \in Device : []<>(future[d] = "running" \/ d \notin config \/ ~active)
=============================================================================
