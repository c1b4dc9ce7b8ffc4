------------------------- MODULE PollScheduler_proofs -------------------------
(***************************************************************************)
(* Proofs about the poll scheduler, for every number of devices and every  *)
(* size of the pool: a device that a cycle left out is not overtaken by    *)
(* one that this cycle asked; no cycle comes to a halt; and the devices    *)
(* ahead of one that waits only become fewer, each poll that starts being  *)
(* one of theirs.                                                          *)
(***************************************************************************)
EXTENDS PollScheduler, FiniteSetTheorems, WellFoundedInduction, TLAPS

LEMMA NowTyped == Now \in Nat /\ Cardinality(Device) \in Nat /\ Cardinality(Device) < Now
BY SchedulerAssumption, FS_CardinalityType DEF Now

-----------------------------------------------------------------------------
(* The numbering of times                                                  *)

\* The times before that of a device can be counted; they are fewer than the
\* devices, or as many when some device was never read.
LEMMA LessIsFinite ==
    ASSUME NEW f \in [Device -> Nat], NEW d \in Device
    PROVE  /\ IsFiniteSet(Less(f, d))
           /\ Cardinality(Less(f, d)) \in 0..Cardinality(Device)
<1> DEFINE L == {x \in Device : f[x] < f[d]}
           V == {f[e] : e \in L}
           g == [x \in L |-> f[x]]
<1>1. /\ IsFiniteSet(L) /\ Cardinality(L) \in Nat
      /\ Cardinality(Device) \in Nat /\ Cardinality(L) < Cardinality(Device)
  <2>1. L \subseteq Device /\ d \notin L
    OBVIOUS
  <2>2. L # Device
    BY <2>1
  <2> QED
    BY <2>1, <2>2, SchedulerAssumption, FS_Subset, FS_CardinalityType
<1>2. IsFiniteSet(V) /\ Cardinality(V) <= Cardinality(L) /\ Cardinality(V) \in Nat
  <2>1. g \in Surjection(L, V)
    BY DEF Surjection
  <2> QED
    BY <1>1, <2>1, FS_Surjection, FS_CardinalityType
<1>3. /\ IsFiniteSet(V \cup {Never})
      /\ Cardinality(V \cup {Never}) <= Cardinality(V) + 1
      /\ Cardinality(V \cup {Never}) \in Nat
  <2> HIDE DEF L, V, g
  <2>1. /\ IsFiniteSet(V \cup {Never})
        /\ Cardinality(V \cup {Never})
             = IF Never \in V THEN Cardinality(V) ELSE Cardinality(V) + 1
    BY <1>2, FS_AddElement
  <2>2. CASE Never \in V
    BY <2>1, <2>2, <1>2
  <2>3. CASE Never \notin V
    BY <2>1, <2>3, <1>2
  <2> QED
    BY <2>2, <2>3
<1>4. Less(f, d) \subseteq V \cup {Never}
  BY DEF Less
<1>5. IsFiniteSet(Less(f, d)) /\ Cardinality(Less(f, d)) <= Cardinality(V \cup {Never})
      /\ Cardinality(Less(f, d)) \in Nat
  BY <1>3, <1>4, FS_Subset, FS_CardinalityType
<1> HIDE DEF L, V
<1> QED
  BY <1>1, <1>2, <1>3, <1>5

\* The numbers are small, and keep the order of the times.
LEMMA RankedTyped ==
    ASSUME NEW f \in [Device -> Nat]
    PROVE  /\ Ranked(f) \in [Device -> Nat]
           /\ \A d \in Device : Ranked(f)[d] < Now
BY LessIsFinite, NowTyped DEF Ranked

LEMMA RankedOrder ==
    ASSUME NEW f \in [Device -> Nat], NEW d \in Device, NEW e \in Device, f[d] < f[e]
    PROVE  Ranked(f)[d] < Ranked(f)[e]
<1>1. Less(f, d) \subseteq Less(f, e)
  BY DEF Less, Never
<1>2. f[d] \in Less(f, e) /\ f[d] \notin Less(f, d)
  BY DEF Less, Never
<1>3. Less(f, d) # Less(f, e)
  BY <1>2
<1>4. Cardinality(Less(f, d)) < Cardinality(Less(f, e))
  BY <1>1, <1>3, LessIsFinite, FS_Subset
<1> QED
  BY <1>4 DEF Ranked

-----------------------------------------------------------------------------
(* The invariant                                                           *)

Typed ==
    /\ config \subseteq Device
    /\ rank \in [Device -> Nat] /\ turn \in [Device -> Nat]
    /\ due \in [Device -> BOOLEAN]
    /\ pc \in {"wait", "serial", "loop", "settle"}
    /\ future \in [Device -> {"none", "queued", "running", "done"}]
    /\ asked \subseteq Device /\ passed \in [Device -> SUBSET Device]
    /\ \A d \in Device : rank[d] <= Now

\* Will e be marked before the next cycle?
Pending(e) == future[e] \in {"running", "done"}

\* A device that is queued has an old time and stays due.
QueueOK ==
    \A d \in Device : future[d] = "queued" => due[d] /\ rank[d] < Now

\* What was asked in this cycle is marked, or will be.
AskedOK ==
    pc # "wait" => \A e \in asked : rank[e] = Now \/ Pending(e)

\* A device whose poll runs is left out no longer.
RunningOK ==
    \A d \in Device : Pending(d) => passed[d] = {}

\* A device left out stays due, and is unread for longer than those that were
\* asked, or will be once these are marked.
PassedOK ==
    \A d \in config : \A e \in passed[d] :
        /\ due[d]
        /\ rank[d] < rank[e] \/ (pc = "settle" /\ rank[d] < Now /\ Pending(e))

\* While a cycle lasts it is queued before them.
TurnOK ==
    pc \in {"serial", "loop"} =>
        \A d \in config : \A e \in passed[d] :
            future[d] = "queued" /\ turn[d] < turn[e]

\* Without the pool one device is asked at a time.
SerialOK ==
    pc = "serial" => \A d, e \in Device :
        future[d] # "done" /\ (Pending(d) /\ Pending(e) => d = e)

SchedulerInvariant ==
    Typed /\ QueueOK /\ AskedOK /\ RunningOK /\ PassedOK /\ TurnOK /\ SerialOK

LEMMA SchedulerInit == Init => SchedulerInvariant
BY NowTyped DEF Init, SchedulerInvariant, Typed, QueueOK, AskedOK, RunningOK, PassedOK,
   TurnOK, SerialOK, Pending, Idle, Never

\* Marking a device whose poll was started keeps the order of the others.
LEMMA Marked ==
    ASSUME SchedulerInvariant, NEW e \in Device, Pending(e), MarkRead({e})
    PROVE  /\ rank' \in [Device -> Nat] /\ due' \in [Device -> BOOLEAN]
           /\ \A d \in Device : rank'[d] <= Now
           /\ rank'[e] = Now
           /\ \A d \in Device \ {e} : rank'[d] = rank[d] /\ (due'[d] <=> due[d])
           /\ \A d \in config : \A x \in passed[d] :
                /\ d # e /\ due'[d]
                /\ rank'[d] < rank'[x] \/ (pc = "settle" /\ rank'[d] < Now /\ Pending(x))
<1> USE NowTyped DEF SchedulerInvariant, Typed
<1>1. rank' \in [Device -> Nat] /\ (\A d \in Device : rank'[d] <= Now) /\ rank'[e] = Now
  BY DEF MarkRead
<1>2. due' \in [Device -> BOOLEAN]
  BY DEF MarkRead
<1>3. \A d \in Device \ {e} : rank'[d] = rank[d] /\ (due'[d] <=> due[d])
  BY DEF MarkRead
<1>4. ASSUME NEW d \in config, NEW x \in passed[d]
      PROVE  /\ d # e /\ due'[d]
             /\ rank'[d] < rank'[x] \/ (pc = "settle" /\ rank'[d] < Now /\ Pending(x))
  <2>1. d \in Device /\ x \in Device /\ d # e
    BY DEF RunningOK
  <2>2. due[d] /\ (rank[d] < rank[x] \/ (pc = "settle" /\ rank[d] < Now /\ Pending(x)))
    BY DEF PassedOK
  <2>3. rank'[d] = rank[d] /\ due'[d]
    BY <1>3, <2>1, <2>2
  <2>4. rank[d] \in Nat /\ rank[x] \in Nat /\ rank[x] <= Now
    BY <2>1
  <2>5. CASE x = e
    BY <1>1, <2>1, <2>2, <2>3, <2>4, <2>5
  <2>6. CASE x # e
    BY <1>3, <2>1, <2>2, <2>3, <2>6
  <2> QED
    BY <2>1, <2>3, <2>5, <2>6
<1> QED
  BY <1>1, <1>2, <1>3, <1>4

LEMMA SchedulerStep == SchedulerInvariant /\ [Next]_vars => SchedulerInvariant'
<1> SUFFICES ASSUME SchedulerInvariant, [Next]_vars
             PROVE  SchedulerInvariant'
  OBVIOUS
<1> USE NowTyped DEF SchedulerInvariant, Typed
<1>1. ASSUME BeginCycle PROVE SchedulerInvariant'
  <2>1. /\ rank' = Ranked(rank) /\ turn' = Ranked(rank) /\ rank' \in [Device -> Nat]
        /\ \A d \in Device : rank'[d] < Now
    BY <1>1, RankedTyped DEF BeginCycle
  <2>2. future' = [d \in Device |-> IF d \in Due THEN "queued" ELSE "none"]
        /\ pc' \in {"serial", "loop"} /\ asked' = {} /\ pc = "wait"
        /\ UNCHANGED <<config, due, passed>>
    BY <1>1 DEF BeginCycle, confVars
  <2>3. Typed' /\ QueueOK' /\ AskedOK' /\ RunningOK' /\ SerialOK'
    BY <2>1, <2>2 DEF QueueOK, AskedOK, RunningOK, SerialOK, Pending, Due
  <2>4. ASSUME NEW d \in config, NEW e \in passed[d]
        PROVE  due[d] /\ rank'[d] < rank'[e] /\ future'[d] = "queued" /\ turn'[d] < turn'[e]
    <3>1. due[d] /\ rank[d] < rank[e] /\ d \in Device /\ e \in Device
      BY <2>2 DEF PassedOK
    <3>2. Ranked(rank)[d] < Ranked(rank)[e]
      BY <3>1, RankedOrder
    <3> QED
      BY <2>1, <2>2, <3>1, <3>2 DEF Due
  <2>5. PassedOK' /\ TurnOK'
    BY <2>2, <2>4 DEF PassedOK, TurnOK
  <2> QED
    BY <2>3, <2>5
<1>2. ASSUME NEW d \in Device, Ask(d) \/ Start(d) PROVE SchedulerInvariant'
  <2>1. /\ future[d] = "queued" /\ future' = [future EXCEPT ![d] = "running"]
        /\ asked' = asked \cup {d} /\ passed' = [passed EXCEPT ![d] = {}]
        /\ UNCHANGED <<config, rank, due, turn, pc>>
    BY <1>2 DEF Ask, Start, IsAsked, First, confVars, timeVars
  <2>2. Typed'
    BY <2>1
  <2>3. QueueOK' /\ AskedOK' /\ RunningOK'
    BY <2>1 DEF QueueOK, AskedOK, RunningOK, Pending
  <2>4. PassedOK' /\ TurnOK'
    BY <2>1 DEF PassedOK, TurnOK, Pending
  <2>5. SerialOK'
    BY <1>2, <2>1 DEF SerialOK, Pending, Ask, Start, In
  <2> QED
    BY <2>2, <2>3, <2>4, <2>5
<1>3. ASSUME NEW d \in Device, Answered(d) \/ DeviceTimeout(d) \/ Collect(d) \/ GiveUp(d)
      PROVE  SchedulerInvariant'
  <2>1. /\ Pending(d) /\ MarkRead({d}) /\ future' = [future EXCEPT ![d] = "none"]
        /\ UNCHANGED <<config, asked, passed>>
    BY <1>3 DEF Answered, DeviceTimeout, Collect, GiveUp, Pending, confVars, ghostVars
  <2>2. (pc' = pc /\ turn' = turn) \/ (pc = "serial" /\ pc' = "wait" /\ turn' \in [Device -> Nat])
    BY <1>3 DEF Answered, DeviceTimeout, Collect, GiveUp, EndCycle, Never
  <2>3. Typed'
    BY <2>1, <2>2, Marked
  <2>4. QueueOK' /\ AskedOK' /\ RunningOK'
    BY <2>1, <2>2, Marked DEF QueueOK, AskedOK, RunningOK, Pending
  <2>5. ASSUME NEW y \in config, NEW x \in passed[y]
        PROVE  /\ due'[y]
               /\ rank'[y] < rank'[x] \/ (pc' = "settle" /\ rank'[y] < Now /\ Pending(x)')
    <3>1. /\ y # d /\ due'[y] /\ y \in Device /\ x \in Device
          /\ rank'[y] < rank'[x] \/ (pc = "settle" /\ rank'[y] < Now /\ Pending(x))
      BY <2>1, Marked
    <3>2. rank'[d] = Now
      BY <2>1, Marked
    <3>3. CASE x = d
      BY <3>1, <3>2, <3>3, <2>1, Marked
    <3>4. CASE x # d
      BY <3>1, <3>4, <2>1, <2>2 DEF Pending
    <3> QED
      BY <3>1, <3>3, <3>4
  <2>6. PassedOK'
    BY <2>1, <2>5 DEF PassedOK
  <2>7. TurnOK' /\ SerialOK'
    BY <2>1, <2>2, Marked DEF TurnOK, SerialOK, Pending
  <2> QED
    BY <2>3, <2>4, <2>6, <2>7
<1>4. ASSUME NEW d \in Device, Aborted(d) PROVE SchedulerInvariant'
  <2>1. /\ Pending(d) /\ MarkRead({d}) /\ future' = Idle /\ pc = "serial" /\ pc' = "wait"
        /\ turn' \in [Device -> Nat]
        /\ passed' = [x \in Device |-> IF x \in In("queued") THEN passed[x] \cup asked
                                                            ELSE passed[x]]
        /\ UNCHANGED <<config, asked>> /\ In("running") \subseteq Device
        /\ In("queued") \subseteq Device
    BY <1>4 DEF Aborted, LeftOut, EndCycle, Pending, confVars, Never, In
  <2>2. Typed' /\ QueueOK' /\ AskedOK' /\ RunningOK'
    BY <2>1, Marked DEF QueueOK, AskedOK, RunningOK, Pending, Idle
  <2>3. ASSUME NEW y \in config, NEW x \in passed'[y]
        PROVE  due'[y] /\ rank'[y] < rank'[x]
    <3>1. y \in Device
      OBVIOUS
    <3>2. CASE x \in passed[y]
      BY <2>1, <3>2, Marked
    <3>3. CASE x \notin passed[y]
      <4>1. y \in In("queued") /\ x \in asked /\ x \in Device
        BY <2>1, <3>1, <3>3
      <4>2. future[y] = "queued" /\ y # d /\ due[y] /\ rank[y] < Now
        BY <2>1, <4>1 DEF In, QueueOK, Pending
      <4>3. due'[y] /\ rank'[y] < Now
        BY <2>1, <3>1, <4>2, Marked
      <4>4. rank[x] = Now \/ Pending(x)
        BY <2>1, <4>1 DEF AskedOK
      <4>5. rank'[x] = Now
        <5>1. CASE x = d
          BY <2>1, <5>1, Marked
        <5>2. CASE x # d
          BY <2>1, <4>1, <4>4, <5>2, Marked DEF SerialOK
        <5> QED
          BY <5>1, <5>2
      <4> QED
        BY <4>3, <4>5
    <3> QED
      BY <3>2, <3>3
  <2>4. PassedOK' /\ TurnOK' /\ SerialOK'
    BY <2>1, <2>3 DEF PassedOK, TurnOK, SerialOK
  <2> QED
    BY <2>2, <2>4
<1>5. ASSUME NEW d \in Device, Cancel(d) PROVE SchedulerInvariant'
  <2>1. /\ future[d] = "queued" /\ future' = [future EXCEPT ![d] = "none"]
        /\ pc = "settle"
        /\ passed' = [x \in Device |-> IF x \in {d} THEN passed[x] \cup asked ELSE passed[x]]
        /\ UNCHANGED <<config, rank, due, turn, pc, asked>>
    BY <1>5 DEF Cancel, LeftOut, confVars, timeVars
  <2>2. Typed' /\ QueueOK' /\ AskedOK' /\ RunningOK' /\ TurnOK' /\ SerialOK'
    BY <2>1 DEF QueueOK, AskedOK, RunningOK, TurnOK, SerialOK, Pending
  <2>3. ASSUME NEW y \in config, NEW x \in passed'[y]
        PROVE  due[y] /\ (rank[y] < rank[x] \/ (rank[y] < Now /\ Pending(x)'))
    <3>1. CASE x \in passed[y]
      BY <2>1, <3>1 DEF PassedOK, Pending
    <3>2. CASE x \notin passed[y]
      <4>1. y = d /\ x \in asked /\ x \in Device
        BY <2>1, <3>2
      <4>2. due[y] /\ rank[y] < Now
        BY <2>1, <4>1 DEF QueueOK
      <4>3. rank[x] = Now \/ Pending(x)
        BY <2>1, <4>1 DEF AskedOK
      <4> QED
        BY <2>1, <4>1, <4>2, <4>3 DEF Pending
    <3> QED
      BY <3>1, <3>2
  <2>4. PassedOK'
    BY <2>1, <2>3 DEF PassedOK
  <2> QED
    BY <2>2, <2>4
<1>6. ASSUME NEW d \in Device, PollEnds(d) PROVE SchedulerInvariant'
  <2>1. /\ future[d] = "running" /\ future' = [future EXCEPT ![d] = "done"]
        /\ pc \in {"loop", "settle"}
        /\ UNCHANGED <<config, rank, due, turn, pc, asked, passed>>
    BY <1>6 DEF PollEnds, confVars, timeVars, ghostVars
  <2>2. Typed' /\ QueueOK' /\ AskedOK' /\ RunningOK' /\ TurnOK' /\ SerialOK'
    BY <2>1 DEF QueueOK, AskedOK, RunningOK, TurnOK, SerialOK, Pending
  <2>3. PassedOK'
    BY <2>1 DEF PassedOK, Pending
  <2> QED
    BY <2>2, <2>3
<1>7. ASSUME LeaveLoop \/ Settled PROVE SchedulerInvariant'
  <2>1. /\ UNCHANGED <<config, rank, due, future, asked, passed>>
        /\ turn' \in [Device -> Nat]
        /\ (pc = "loop" /\ pc' = "settle") \/ (pc' = "wait" /\ future = Idle)
    BY <1>7 DEF LeaveLoop, Settled, EndCycle, Never, confVars, timeVars, ghostVars
  <2>2. Typed' /\ QueueOK' /\ AskedOK' /\ RunningOK' /\ TurnOK' /\ SerialOK'
    BY <2>1 DEF QueueOK, AskedOK, RunningOK, TurnOK, SerialOK, Pending
  <2>3. PassedOK'
    BY <2>1 DEF PassedOK, Pending, Idle
  <2> QED
    BY <2>2, <2>3
<1>8. ASSUME NEW d \in Device, IntervalPasses(d) PROVE SchedulerInvariant'
  <2>1. /\ due' = [due EXCEPT ![d] = TRUE]
        /\ UNCHANGED <<config, rank, turn, pc, future, asked, passed>>
    BY <1>8 DEF IntervalPasses, confVars, cycleVars, ghostVars
  <2> QED
    BY <2>1 DEF QueueOK, AskedOK, RunningOK, PassedOK, TurnOK, SerialOK, Pending
<1>9. ASSUME NEW S \in Fleets, NEW a \in BOOLEAN, Reconfigure(S, a)
      PROVE  SchedulerInvariant'
  <2>1. /\ config' = S /\ UNCHANGED <<pc, turn, future>>
        /\ rank' = [d \in Device |-> IF d \in S THEN rank[d] ELSE 0]
        /\ due' = [d \in Device |-> d \in S => due[d]]
        /\ asked' = {} /\ passed' = [d \in Device |-> {}]
    BY <1>9 DEF Reconfigure, cycleVars, Never
  <2>2. Typed' /\ QueueOK'
    BY <2>1, SchedulerAssumption DEF QueueOK, Now
  <2> QED
    BY <2>1, <2>2 DEF AskedOK, RunningOK, PassedOK, TurnOK, SerialOK, Pending
<1>10. ASSUME Restart PROVE SchedulerInvariant'
  <2>1. /\ config' = config /\ pc' = "wait" /\ future' = Idle
        /\ rank' = [d \in Device |-> 0] /\ turn' = [d \in Device |-> 0]
        /\ due' = [d \in Device |-> TRUE]
        /\ asked' = {} /\ passed' = [d \in Device |-> {}]
    BY <1>10 DEF Restart, EndCycle, confVars, Never
  <2> QED
    BY <2>1 DEF QueueOK, AskedOK, RunningOK, PassedOK, TurnOK, SerialOK, Pending, Idle
<1>11. ASSUME (\E d \in Device : GivenUpEnds(d)) \/ Drained \/ SkipCycle \/ UNCHANGED vars
       PROVE  SchedulerInvariant'
  <2>1. UNCHANGED <<config, rank, due, turn, pc, future, asked, passed>>
    BY <1>11 DEF GivenUpEnds, Drained, SkipCycle, vars, confVars, timeVars, cycleVars, ghostVars
  <2> QED
    BY <2>1 DEF QueueOK, AskedOK, RunningOK, PassedOK, TurnOK, SerialOK, Pending
<1> QED
  BY <1>1, <1>2, <1>3, <1>4, <1>5, <1>6, <1>7, <1>8, <1>9, <1>10, <1>11
  DEF Next, Cycle, Ends

\* The inductive invariant holds in every reachable state.
THEOREM SchedulerInvariantHolds == Spec => []SchedulerInvariant
<1>1. Init => SchedulerInvariant
  BY SchedulerInit
<1>2. SchedulerInvariant /\ [Next]_vars => SchedulerInvariant'
  BY SchedulerStep
<1> QED
  BY <1>1, <1>2, PTL DEF Spec

-----------------------------------------------------------------------------
\* A poll starts by Ask or Start, when its device is the first of the queue.
LEMMA OnlyTheFirst ==
    ASSUME SchedulerInvariant, Next, NEW e \in Device, pc \in {"serial", "loop"},
           future[e] = "queued", future'[e] = "running"
    PROVE  First(e)
<1> USE DEF SchedulerInvariant, Typed
<1>1. \E d \in Device : Ask(d) \/ Start(d)
  <2>1. ASSUME NEW d \in Device,
               Answered(d) \/ Aborted(d) \/ PollEnds(d) \/ DeviceTimeout(d)
               \/ Collect(d) \/ GiveUp(d) \/ Cancel(d)
        PROVE  FALSE
    BY <2>1 DEF Answered, Aborted, PollEnds, DeviceTimeout, Collect, GiveUp, Cancel, Idle
  <2>2. ~(BeginCycle \/ LeaveLoop \/ Settled \/ SkipCycle \/ Drained \/ Restart)
    BY DEF BeginCycle, LeaveLoop, Settled, SkipCycle, Drained, Restart, cycleVars, vars, Idle
  <2>3. ~(\E d \in Device : GivenUpEnds(d) \/ IntervalPasses(d))
    BY DEF GivenUpEnds, IntervalPasses, cycleVars
  <2>4. ~(\E S \in Fleets, a \in BOOLEAN : Reconfigure(S, a))
    BY DEF Reconfigure, cycleVars
  <2> QED
    BY <2>1, <2>2, <2>3, <2>4 DEF Next, Cycle, Ends
<1>2. PICK d \in Device : Ask(d) \/ Start(d)
  BY <1>1
<1>3. First(d) /\ future' = [future EXCEPT ![d] = "running"]
  BY <1>2 DEF Ask, Start, IsAsked
<1> QED
  BY <1>3

\* A device that a cycle left out is asked before any device which that cycle
\* asked is asked again (due_devices, run_poll_cycle).
THEOREM LeftOutFirst == Spec => NobodyIsOvertaken
<1>1. ASSUME SchedulerInvariant, [Next]_vars, NEW d \in config, NEW e \in Device,
             pc \in {"serial", "loop"}, future[e] = "queued", future'[e] = "running"
      PROVE  e \notin passed[d]
  <2> SUFFICES ASSUME e \in passed[d]
               PROVE  FALSE
    OBVIOUS
  <2>1. Next
    <3>1. ~UNCHANGED vars
      BY <1>1 DEF vars, cycleVars
    <3> QED
      BY <1>1, <3>1
  <2>2. First(e)
    BY <1>1, <2>1, OnlyTheFirst
  <2>3. d \in Device /\ future[d] = "queued" /\ turn[d] < turn[e]
    BY <1>1 DEF SchedulerInvariant, Typed, TurnOK
  <2>4. turn[d] \in Nat /\ turn[e] \in Nat /\ d # e
    BY <1>1, <2>3 DEF SchedulerInvariant, Typed
  <2>5. Before(e, d)
    BY <2>2, <2>3, <2>4 DEF First, In
  <2> QED
    BY <2>3, <2>4, <2>5 DEF Before
<1>2. SchedulerInvariant /\ [Next]_vars =>
        [\A d \in config, e \in Device :
           pc \in {"serial", "loop"} /\ future[e] = "queued" /\ future'[e] = "running"
             => e \notin passed[d]]_vars
  BY <1>1
<1> QED
  BY <1>2, SchedulerInvariantHolds, PTL DEF Spec, NobodyIsOvertaken
-----------------------------------------------------------------------------
(* The cycle goes on, and who waits comes nearer                           *)

LEMMA RankedSame ==
    ASSUME NEW f \in [Device -> Nat], NEW d \in Device, NEW e \in Device, f[d] = f[e]
    PROVE  Ranked(f)[d] = Ranked(f)[e]
<1>1. Less(f, d) = Less(f, e)
  BY DEF Less
<1> QED
  BY <1>1 DEF Ranked

\* The order of the times says nothing else than the order of their numbers.
LEMMA RankedBack ==
    ASSUME NEW f \in [Device -> Nat], NEW d \in Device, NEW e \in Device
    PROVE  /\ Ranked(f)[d] < Ranked(f)[e] => f[d] < f[e]
           /\ Ranked(f)[d] = Ranked(f)[e] => f[d] = f[e]
<1>1. f[d] \in Nat /\ f[e] \in Nat /\ Ranked(f)[d] \in Nat /\ Ranked(f)[e] \in Nat
  BY RankedTyped
<1>2. CASE f[d] < f[e]
  BY <1>1, <1>2, RankedOrder
<1>3. CASE f[d] = f[e]
  BY <1>1, <1>3, RankedSame
<1>4. CASE f[e] < f[d]
  <2>1. Ranked(f)[e] < Ranked(f)[d]
    BY <1>4, RankedOrder
  <2> QED
    BY <1>1, <2>1
<1> QED
  BY <1>1, <1>2, <1>3, <1>4

\* A queue that is not empty has a first device.
LEMMA FirstExists ==
    ASSUME SchedulerInvariant, In("queued") # {}
    PROVE  \E d \in Device : First(d)
<1> DEFINE Q == In("queued")
           Front(d) == {e \in Q : Before(e, d)}
           Fronts == {Front(d) : d \in Q}
<1>1. Q \subseteq Device /\ IsFiniteSet(Q)
  BY SchedulerAssumption, FS_Subset DEF In
<1>2. \A d \in Q : Front(d) \subseteq Q /\ IsFiniteSet(Front(d))
  BY <1>1, FS_Subset
<1>3. Fronts \subseteq FiniteSubsetsOf(Q) /\ Fronts # {}
  BY <1>2 DEF FiniteSubsetsOf
<1>4. PICK X \in Fronts : \A Y \in Fronts : ~(<<Y, X>> \in StrictSubsetOrdering(Q))
  BY <1>3, FS_StrictSubsetOrderingWellFounded, WFMin
<1>5. PICK d \in Q : X = Front(d)
  OBVIOUS
<1>6. \A x, y \in Q : turn[x] \in Nat /\ Position[x] \in Nat
                      /\ (Position[x] = Position[y] => x = y)
  BY <1>1, SchedulerAssumption DEF SchedulerInvariant, Typed
<1>7. ASSUME NEW e \in Front(d) PROVE FALSE
  <2>1. e \in Q /\ Before(e, d)
    OBVIOUS
  <2>2. \A x \in Q : Before(x, e) => Before(x, d)
    BY <1>6, <2>1 DEF Before
  <2>3. Front(e) \subseteq Front(d)
    BY <2>2
  <2>4. ~Before(e, e)
    BY <1>6, <2>1 DEF Before
  <2>5. e \notin Front(e) /\ Front(e) \in Fronts
    BY <2>1, <2>4
  <2>6. Front(e) # Front(d)
    BY <2>5
  <2>7. <<Front(e), X>> \in StrictSubsetOrdering(Q)
    BY <1>2, <1>5, <2>1, <2>3, <2>6 DEF StrictSubsetOrdering
  <2> QED
    BY <1>4, <2>5, <2>7
<1>8. ASSUME NEW e \in Q \ {d} PROVE Before(d, e)
  <2>1. ~Before(e, d)
    BY <1>7
  <2>2. Position[d] # Position[e]
    BY <1>6
  <2> QED
    BY <1>6, <2>1, <2>2 DEF Before
<1>9. First(d)
  BY <1>8 DEF First, In
<1> QED
  BY <1>1, <1>9

\* Between two cycles nothing is left of the last one; a serial cycle has
\* something to do; a pool has two workers at least.
CycleOK ==
    /\ capacity \in Nat /\ capacity <= MaxParallel
    /\ pc = "wait" => future = Idle
    /\ pc = "serial" => \E d \in Device : future[d] \in {"queued", "running"}
    /\ pc = "loop" => capacity >= 2

\* A device is queued by the time at which it was read, unless a new
\* configuration has made it a new device since.
RankIsTurn ==
    \A d \in Device : future[d] = "queued" => rank[d] \in {turn[d], Never}

CycleInvariant == CycleOK /\ RankIsTurn

LEMMA CycleInit == Init => CycleInvariant
BY SchedulerAssumption DEF Init, CycleInvariant, CycleOK, RankIsTurn, Idle

LEMMA CycleBegins ==
    ASSUME SchedulerInvariant, CycleInvariant, BeginCycle
    PROVE  CycleInvariant'
<1> USE DEF SchedulerInvariant, Typed
<1>1. /\ rank' = turn' /\ Due # {} /\ Due \subseteq Device
      /\ future' = [d \in Device |-> IF d \in Due THEN "queued" ELSE "none"]
  BY DEF BeginCycle, Due
<1>2. RankIsTurn'
  BY <1>1 DEF RankIsTurn
<1>3. IsFiniteSet(Due) /\ Cardinality(Due) \in Nat /\ Cardinality(Due) # 0
  BY <1>1, SchedulerAssumption, FS_Subset, FS_CardinalityType, FS_EmptySet
<1>4. CASE MaxParallel <= 1 \/ Cardinality(Due) = 1
  <2>1. pc' = "serial" /\ capacity' = capacity
    BY <1>4 DEF BeginCycle, poolVars
  <2>2. \E d \in Device : future'[d] \in {"queued", "running"}
    BY <1>1
  <2> QED
    BY <1>2, <2>1, <2>2 DEF CycleInvariant, CycleOK
<1>5. CASE ~(MaxParallel <= 1 \/ Cardinality(Due) = 1)
  <2>1. pc' = "loop" /\ GetPool(Min(MaxParallel, Cardinality(Due)))
    BY <1>5 DEF BeginCycle
  <2> DEFINE w == Min(MaxParallel, Cardinality(Due))
  <2>2. w \in Nat /\ w >= 2 /\ w <= MaxParallel
    BY <1>3, <1>5, SchedulerAssumption DEF Min
  <2>3. capacity' = w \/ (capacity' = capacity /\ ~(w > capacity))
    BY <2>1 DEF GetPool, poolVars
  <2> HIDE DEF w
  <2>4. capacity' \in Nat /\ capacity' <= MaxParallel /\ capacity' >= 2
    BY <2>2, <2>3 DEF CycleInvariant, CycleOK
  <2> QED
    BY <1>2, <2>1, <2>4 DEF CycleInvariant, CycleOK
<1> QED
  BY <1>4, <1>5

LEMMA CycleStep ==
    ASSUME SchedulerInvariant, CycleInvariant, [Next]_vars
    PROVE  CycleInvariant'
<1> USE DEF SchedulerInvariant, Typed, CycleInvariant, CycleOK, RankIsTurn
<1>1. CASE BeginCycle
  BY <1>1, CycleBegins
<1>2. ASSUME NEW d \in Device, Ask(d) \/ Start(d) PROVE CycleInvariant'
  <2>1. /\ future' = [future EXCEPT ![d] = "running"] /\ pc # "wait"
        /\ UNCHANGED <<rank, turn, pc, capacity>>
    BY <1>2 DEF Ask, Start, IsAsked, timeVars, poolVars
  <2> QED
    BY <2>1
<1>3. ASSUME NEW d \in Device, Answered(d) PROVE CycleInvariant'
  <2>1. /\ Pending(d) /\ MarkRead({d}) /\ future' = [future EXCEPT ![d] = "none"]
        /\ UNCHANGED capacity /\ pc = "serial"
        /\ IF In("queued") = {} THEN pc' = "wait" ELSE UNCHANGED <<pc, turn>>
    BY <1>3 DEF Answered, EndCycle, Pending, poolVars
  <2>2. CASE In("queued") = {}
    <3>1. \A e \in Device : future'[e] = "none"
      BY <2>1, <2>2 DEF In, SerialOK, Pending
    <3>2. future' = Idle
      BY <2>1, <3>1 DEF Idle
    <3> QED
      BY <2>1, <2>2, <3>1, <3>2
  <2>3. CASE In("queued") # {}
    <3>1. PICK e \in Device : future[e] = "queued"
      BY <2>3 DEF In
    <3>2. future'[e] = "queued"
      BY <2>1, <3>1 DEF Pending
    <3>3. \A x \in Device \ {d} : rank'[x] = rank[x]
      BY <2>1, Marked
    <3>4. RankIsTurn'
      BY <2>1, <2>3, <3>3
    <3> QED
      BY <2>1, <2>3, <3>2, <3>4
  <2> QED
    BY <2>2, <2>3
<1>4. ASSUME NEW d \in Device, DeviceTimeout(d) \/ Collect(d) \/ GiveUp(d)
      PROVE  CycleInvariant'
  <2>1. /\ Pending(d) /\ MarkRead({d}) /\ future' = [future EXCEPT ![d] = "none"]
        /\ UNCHANGED <<pc, turn, capacity>> /\ pc \in {"loop", "settle"}
    BY <1>4 DEF DeviceTimeout, Collect, GiveUp, Pending, poolVars
  <2>2. \A x \in Device \ {d} : rank'[x] = rank[x]
    BY <2>1, Marked
  <2> QED
    BY <2>1, <2>2
<1>5. ASSUME NEW d \in Device, Cancel(d) \/ PollEnds(d) PROVE CycleInvariant'
  <2>1. /\ \E s \in {"none", "done"} : future' = [future EXCEPT ![d] = s]
        /\ UNCHANGED <<rank, turn, pc, capacity>> /\ pc \in {"loop", "settle"}
    BY <1>5 DEF Cancel, PollEnds, timeVars, poolVars
  <2> QED
    BY <2>1
<1>6. ASSUME (\E d \in Device : Aborted(d)) \/ Restart PROVE CycleInvariant'
  <2>1. future' = Idle /\ pc' = "wait" /\ (capacity' = capacity \/ capacity' = 0)
    BY <1>6 DEF Aborted, Restart, EndCycle, poolVars
  <2> QED
    BY <2>1, SchedulerAssumption DEF Idle
<1>7. CASE LeaveLoop \/ Settled
  <2>1. /\ UNCHANGED <<rank, future, capacity>>
        /\ (pc' = "settle" /\ turn' = turn) \/ (pc' = "wait" /\ future = Idle)
    BY <1>7 DEF LeaveLoop, Settled, EndCycle, timeVars, poolVars
  <2> QED
    BY <2>1 DEF Idle
<1>8. ASSUME NEW S \in Fleets, NEW a \in BOOLEAN, Reconfigure(S, a) PROVE CycleInvariant'
  <2>1. /\ \A d \in Device : rank'[d] \in {rank[d], Never}
        /\ UNCHANGED <<turn, pc, future, capacity>>
    BY <1>8 DEF Reconfigure, cycleVars, poolVars
  <2> QED
    BY <2>1
<1>9. ASSUME \/ \E d \in Device : GivenUpEnds(d) \/ IntervalPasses(d)
             \/ Drained \/ SkipCycle \/ UNCHANGED vars
      PROVE  CycleInvariant'
  <2>1. UNCHANGED <<rank, turn, pc, future, capacity>>
    BY <1>9 DEF GivenUpEnds, IntervalPasses, Drained, SkipCycle, vars, timeVars, cycleVars,
       poolVars
  <2> QED
    BY <2>1
<1> QED
  BY <1>1, <1>2, <1>3, <1>4, <1>5, <1>6, <1>7, <1>8, <1>9 DEF Next, Cycle, Ends

\* No cycle comes to a halt: between cycles nothing of the last one is left, a
\* serial cycle asks a device or has a next one, and while devices of a pool
\* cycle wait one of them is the first and the pool has workers, never more
\* than the configured number (run_poll_cycle, _get_or_create_pool).
CycleGoesOn ==
    /\ pc = "wait" => future = Idle
    /\ pc = "serial" => In("running") # {} \/ \E d \in Device : First(d)
    /\ pc = "loop" /\ In("queued") # {} => capacity >= 2 /\ \E d \in Device : First(d)
    /\ capacity <= MaxParallel

LEMMA CycleInvariantHolds == Spec => [](SchedulerInvariant /\ CycleInvariant)
<1>1. Init => CycleInvariant
  BY CycleInit
<1>2. SchedulerInvariant /\ CycleInvariant /\ [Next]_vars => CycleInvariant'
  BY CycleStep
<1> QED
  BY <1>1, <1>2, SchedulerInvariantHolds, PTL DEF Spec

\* In every reachable state the cycle can go on (run_poll_cycle).
THEOREM CyclesGoOn == Spec => []CycleGoesOn
<1>1. SchedulerInvariant /\ CycleInvariant => CycleGoesOn
  <2> SUFFICES ASSUME SchedulerInvariant, CycleInvariant PROVE CycleGoesOn
    OBVIOUS
  <2>1. In("queued") # {} => \E d \in Device : First(d)
    BY FirstExists
  <2>2. pc = "serial" => In("running") # {} \/ In("queued") # {}
    BY DEF CycleInvariant, CycleOK, In
  <2> QED
    BY <2>1, <2>2 DEF CycleInvariant, CycleOK, CycleGoesOn
<1> QED
  BY <1>1, CycleInvariantHolds, PTL

\* The devices that are asked before d: those unread for longer, and of those
\* never read or read in the same cycle the ones that come first in the
\* configuration.
Ahead(d) ==
    {e \in config \ {d} :
        rank[e] < rank[d] \/ (rank[e] = rank[d] /\ Position[e] < Position[d])}

\* A device that is due and not being asked stays due and keeps its place: of
\* the devices that were configured before none gets ahead of it, whatever is
\* read, given up, cancelled or aborted (mark_read, due_devices).
PlaceIsKept ==
    [][\A d \in config \cap config' : due[d] /\ ~Pending(d) =>
          Restart \/ (due'[d] /\ Ahead(d)' \subseteq Ahead(d) \cup (config' \ config))]_vars

LEMMA PlaceStep ==
    ASSUME SchedulerInvariant, [Next]_vars, ~Restart, NEW d \in config \cap config',
           due[d], ~Pending(d)
    PROVE  due'[d] /\ Ahead(d)' \subseteq Ahead(d) \cup (config' \ config)
<1> USE DEF SchedulerInvariant, Typed
<1>0. d \in Device /\ \A e \in config : e \in Device
  OBVIOUS
<1>1. ASSUME BeginCycle PROVE due'[d] /\ Ahead(d)' \subseteq Ahead(d)
  <2>1. rank' = Ranked(rank) /\ UNCHANGED <<config, due>>
    BY <1>1 DEF BeginCycle, confVars
  <2>2. \A e \in config : /\ rank'[e] < rank'[d] => rank[e] < rank[d]
                          /\ rank'[e] = rank'[d] => rank[e] = rank[d]
    BY <1>0, <2>1, RankedBack
  <2> QED
    BY <2>1, <2>2 DEF Ahead
<1>2. ASSUME NEW e \in Device, MarkRead({e}), Pending(e), UNCHANGED config
      PROVE  due'[d] /\ Ahead(d)' \subseteq Ahead(d)
  <2>1. d # e
    BY <1>2
  <2>2. rank'[d] = rank[d] /\ due'[d]
    BY <1>0, <1>2, <2>1, Marked
  <2>3. ASSUME NEW x \in Ahead(d)' PROVE x \in Ahead(d)
    <3>1. x \in config \ {d} /\ x \in Device
          /\ (rank'[x] < rank'[d] \/ (rank'[x] = rank'[d] /\ Position[x] < Position[d]))
      BY <1>2 DEF Ahead
    <3>2. rank[x] \in Nat /\ rank[x] <= Now /\ rank[d] \in Nat /\ rank[d] <= Now
      BY <1>0, <3>1
    <3>3. CASE x = e
      <4>1. rank'[x] = Now
        BY <1>2, <3>3, Marked
      <4> QED
        BY <2>2, <3>1, <3>2, <4>1, NowTyped DEF Ahead
    <3>4. CASE x # e
      <4>1. rank'[x] = rank[x]
        BY <1>2, <3>1, <3>4, Marked
      <4> QED
        BY <2>2, <3>1, <4>1 DEF Ahead
    <3> QED
      BY <3>3, <3>4
  <2> QED
    BY <2>2, <2>3
<1>3. ASSUME NEW e \in Device,
             Answered(e) \/ Aborted(e) \/ DeviceTimeout(e) \/ Collect(e) \/ GiveUp(e)
      PROVE  due'[d] /\ Ahead(d)' \subseteq Ahead(d)
  <2>1. MarkRead({e}) /\ Pending(e) /\ UNCHANGED config
    BY <1>3 DEF Answered, Aborted, DeviceTimeout, Collect, GiveUp, Pending, confVars
  <2> QED
    BY <1>2, <2>1
<1>4. ASSUME NEW e \in Device, IntervalPasses(e)
      PROVE  due'[d] /\ Ahead(d)' \subseteq Ahead(d)
  BY <1>0, <1>4 DEF IntervalPasses, confVars, Ahead
<1>5. ASSUME NEW S \in Fleets, NEW a \in BOOLEAN, Reconfigure(S, a)
      PROVE  due'[d] /\ Ahead(d)' \subseteq Ahead(d) \cup (config' \ config)
  <2>1. /\ config' = S
        /\ rank' = [x \in Device |-> IF x \in S THEN rank[x] ELSE Never]
        /\ due' = [x \in Device |-> x \in S => due[x]]
    BY <1>5 DEF Reconfigure
  <2>2. S \subseteq Device
    BY SchedulerAssumption
  <2>3. rank'[d] = rank[d] /\ due'[d]
    BY <1>0, <2>1
  <2>4. \A x \in config' : rank'[x] = rank[x]
    BY <2>1, <2>2
  <2> QED
    BY <2>3, <2>4 DEF Ahead
<1>6. ASSUME UNCHANGED <<config, rank, due>>
      PROVE  due'[d] /\ Ahead(d)' \subseteq Ahead(d)
  BY <1>6 DEF Ahead
<1>7. ASSUME \/ SkipCycle \/ LeaveLoop \/ Settled \/ Drained \/ UNCHANGED vars
             \/ \E e \in Device : Ask(e) \/ Start(e) \/ Cancel(e) \/ PollEnds(e) \/ GivenUpEnds(e)
      PROVE  UNCHANGED <<config, rank, due>>
  BY <1>7 DEF SkipCycle, LeaveLoop, Settled, Drained, Ask, Start, Cancel, PollEnds, GivenUpEnds,
     vars, confVars, timeVars
<1> QED
  BY <1>1, <1>3, <1>4, <1>5, <1>6, <1>7 DEF Next, Cycle, Ends

\* In every step a due device keeps its place (mark_read, due_devices): what
\* EveryDeviceIsPolled rests on, for any number of devices.
THEOREM NobodyGetsAhead == Spec => PlaceIsKept
<1>1. SchedulerInvariant /\ [Next]_vars =>
        [\A d \in config \cap config' : due[d] /\ ~Pending(d) =>
            Restart \/ (due'[d] /\ Ahead(d)' \subseteq Ahead(d) \cup (config' \ config))]_vars
  BY PlaceStep
<1> QED
  BY <1>1, SchedulerInvariantHolds, PTL DEF Spec, PlaceIsKept

\* Every poll that starts while a device waits in the queue makes the wait
\* shorter: only devices ahead of it are asked, be it one by one or by the pool
\* (due_devices, run_poll_cycle); one that became a new device meanwhile is
\* queued anew in the next cycle.
OnlyThoseAhead ==
    [][\A d, e \in config :
          /\ pc \in {"serial", "loop"} /\ d # e
          /\ future[d] = "queued" /\ rank[d] = turn[d]
          /\ future[e] = "queued" /\ future'[e] = "running"
          => e \in Ahead(d)]_vars

\* In every step that starts a poll, each waiting device comes nearer to its own
\* (due_devices, run_poll_cycle): the other half of EveryDeviceIsPolled.
THEOREM WaitsGetShorter == Spec => OnlyThoseAhead
<1>1. ASSUME SchedulerInvariant, CycleInvariant, [Next]_vars, NEW d \in config, NEW e \in config,
             pc \in {"serial", "loop"}, d # e, future[d] = "queued", rank[d] = turn[d],
             future[e] = "queued", future'[e] = "running"
      PROVE  e \in Ahead(d)
  <2>1. Next
    BY <1>1 DEF vars, cycleVars
  <2>2. d \in Device /\ e \in Device
    BY <1>1 DEF SchedulerInvariant, Typed
  <2>3. First(e)
    BY <1>1, <2>1, <2>2, OnlyTheFirst
  <2>4. Before(e, d)
    BY <1>1, <2>2, <2>3 DEF First, In
  <2>5. rank[e] \in {turn[e], Never}
    BY <1>1, <2>2 DEF CycleInvariant, RankIsTurn
  <2>6. rank[d] \in Nat /\ rank[e] \in Nat /\ turn[e] \in Nat
    BY <1>1, <2>2 DEF SchedulerInvariant, Typed
  <2>7. rank[e] < rank[d] \/ (rank[e] = rank[d] /\ Position[e] < Position[d])
    BY <1>1, <2>4, <2>5, <2>6 DEF Before, Never
  <2> QED
    BY <1>1, <2>7 DEF Ahead
<1>2. SchedulerInvariant /\ CycleInvariant /\ [Next]_vars =>
        [\A d, e \in config :
            /\ pc \in {"serial", "loop"} /\ d # e
            /\ future[d] = "queued" /\ rank[d] = turn[d]
            /\ future[e] = "queued" /\ future'[e] = "running"
            => e \in Ahead(d)]_vars
  BY <1>1
<1> QED
  BY <1>2, CycleInvariantHolds, PTL DEF Spec, OnlyThoseAhead
=============================================================================
