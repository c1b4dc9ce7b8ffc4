----------------------- MODULE TelemetryOutbox_proofs -----------------------
(***************************************************************************)
(* Proofs about the telemetry plane, for every set of messages and workers *)
(* and every bound: its state is well-typed, a committed message is never  *)
(* lost, over the HTTP path no outage makes a dead letter, the plane       *)
(* implements its contract, its outbox keeps count and limit and is a      *)
(* queue in which no row is overtaken, and the retrier always has a next   *)
(* thing to do.                                                            *)
(***************************************************************************)
EXTENDS TelemetryOutbox, FiniteSetTheorems, TLAPS

-----------------------------------------------------------------------------
(* Type correctness *)

\* The rows to try next are among those asked about.
LEMMA OldestArePart ==
    ASSUME NEW ms, NEW n
    PROVE  Oldest(ms, n) \subseteq ms
<1> QED
  BY DEF Oldest

\* The number of rows, which the estimate starts from, is a number.
LEMMA CountIsNat ==
    ASSUME NEW ms \in SUBSET Msg
    PROVE  Cardinality(ms) \in Nat
<1>1. IsFiniteSet(ms)
  BY OutboxAssumption, FS_Subset
<1> QED
  BY <1>1, FS_CardinalityType

\* The estimate stays a number when rows are subtracted from it.
LEMMA LessIsNat ==
    ASSUME estimate \in Nat, NEW n \in Nat
    PROVE  Less(n) \in Nat
<1> QED
  BY DEF Less

\* What the statements of the outbox make of its rows.
LEMMA RowsStayRows ==
    ASSUME TypeOK
    PROVE  /\ \A m \in Msg : Inserted(m) \in [Msg -> Row]
           /\ \A m \in Msg : Charged(m) \in [Msg -> Row]
           /\ \A ms \in SUBSET Msg : Deleted(ms) \in [Msg -> Row]
           /\ [m \in Msg |-> NoRow] \in [Msg -> Row]
<1>1. NoRow \in Row
  BY DEF NoRow, Row
<1>2. \A m \in Msg : Inserted(m) \in [Msg -> Row]
  <2> TAKE m \in Msg
  <2>1. [NoRow EXCEPT !.table = "outbox", !.id = nextId] \in Row
    BY DEF NoRow, Row, TypeOK
  <2> QED
    BY <2>1 DEF Inserted, TypeOK
<1>3. \A m \in Msg : Charged(m) \in [Msg -> Row]
  <2> TAKE m \in Msg
  <2>1. row[m] \in Row
    BY DEF TypeOK
  <2>2. [row EXCEPT ![m].table = "dead_letter"] \in [Msg -> Row]
    BY <2>1 DEF Row, TypeOK
  <2>3. [table |-> "outbox", id |-> row[m].id,
         retries |-> row[m].retries + 1, deferred |-> TRUE] \in Row
    BY <2>1 DEF Row
  <2>4. ~Exhausted(m) => Charged(m) \in [Msg -> Row]
    BY <2>3 DEF Charged, TypeOK
  <2> QED
    BY <2>2, <2>4 DEF Charged
<1>4. \A ms \in SUBSET Msg : Deleted(ms) \in [Msg -> Row]
  BY <1>1 DEF Deleted, TypeOK
<1> QED
  BY <1>1, <1>2, <1>3, <1>4

\* A step of a worker leaves its batch well-typed.
LEMMA BatchesStayBatches ==
    ASSUME TypeOK, NEW w \in Worker
    PROVE  /\ \A pc \in {"idle", "sending", "sent", "judging", "closing", "enqueueing",
                         "tripping", "committing", "counting"} :
                 [pub EXCEPT ![w].pc = pc] \in [Worker -> Batch]
           /\ [pub EXCEPT ![w] = NoBatch] \in [Worker -> Batch]
<1>1. pub[w] \in Batch
  BY DEF TypeOK
<1>2. NoBatch \in Batch
  BY DEF NoBatch, Batch
<1> QED
  BY <1>1, <1>2 DEF Batch, TypeOK

\* The state is well-typed in every reachable state.
THEOREM TypeCorrect == Spec => []TypeOK
<1>1. Init => TypeOK
  <2> SUFFICES ASSUME Init PROVE TypeOK
    OBVIOUS
  <2>1. NoRow \in Row /\ NoBatch \in Batch
    BY DEF NoRow, Row, NoBatch, Batch
  <2> QED
    BY <2>1 DEF Init, TypeOK
<1>2. TypeOK /\ [Next]_vars => TypeOK'
  <2> SUFFICES ASSUME TypeOK, [Next]_vars PROVE TypeOK'
    OBVIOUS
  <2> USE DEF durable, flags, retrier, history, bounds
  <2>1. CASE BeginCycle \/ EndCycle \/ Stop
    BY <2>1 DEF TypeOK, BeginCycle, EndCycle, Stop
  <2>2. ASSUME NEW ms \in SUBSET Msg, PruneDeadLetter(ms) PROVE TypeOK'
    BY <2>2, RowsStayRows DEF TypeOK, PruneDeadLetter
  <2>3. ASSUME NEW w \in Worker, NEW items \in SUBSET Msg, StartPoll(w, items) PROVE TypeOK'
    <3>1. [NoBatch EXCEPT !.pc = "sending", !.items = items] \in Batch
      BY DEF NoBatch, Batch
    <3>2. pub' \in [Worker -> Batch]
      BY <2>3, <3>1 DEF StartPoll, TypeOK
    <3> QED
      BY <2>3, <3>2 DEF TypeOK, StartPoll
  <2>4. ASSUME NEW w \in Worker, WorkerStep(w) PROVE TypeOK'
    <3>0. pub[w] \in Batch
      BY DEF TypeOK
    <3>1. CASE SendSucceeds(w)
      BY <3>0, <3>1, BatchesStayBatches DEF TypeOK, SendSucceeds, Batch
    <3>2. CASE SendFails(w)
      <4>1. pub' \in [Worker -> Batch]
        BY <3>0, <3>2 DEF SendFails, TypeOK, Batch
      <4>2. delivered' \subseteq Msg
        BY <3>0, <3>2 DEF SendFails, TypeOK, Batch
      <4> QED
        BY <3>2, <4>1, <4>2 DEF TypeOK, SendFails
    <3>3. CASE NoteSent(w) \/ Judge(w) \/ Close(w) \/ Trip(w)
      <4>1. pub' \in [Worker -> Batch]
        <5>1. PICK pc \in {"judging", "closing", "committing", "enqueueing"} :
                      pub' = [pub EXCEPT ![w].pc = pc]
          BY <3>3, Zenon DEF NoteSent, Judge, Close, Trip
        <5> QED
          BY <5>1, BatchesStayBatches
      <4> QED
        BY <3>3, <4>1 DEF TypeOK, NoteSent, Judge, Close, Trip
    <3>4. ASSUME NEW m \in Msg, Enqueue(w, m) PROVE TypeOK'
      <4>1. pub' \in [Worker -> Batch]
        BY <3>0, <3>4 DEF Enqueue, TypeOK, Batch
      <4>2. row' \in [Msg -> Row] /\ nextId' \in Nat /\ estimate' \in Nat
        BY <3>4, RowsStayRows DEF Enqueue, TypeOK
      <4> QED
        BY <3>4, <4>1, <4>2 DEF TypeOK, Enqueue
    <3>5. ASSUME NEW m \in Msg, EnqueueFails(w, m) PROVE TypeOK'
      <4>1. pub' \in [Worker -> Batch]
        BY <3>0, <3>5 DEF EnqueueFails, TypeOK, Batch
      <4>2. row' \in [Msg -> Row] /\ nextId' \in Nat /\ faults' \in Nat
        BY <3>5, RowsStayRows DEF EnqueueFails, SqliteRaises, TypeOK
      <4> QED
        BY <3>5, <4>1, <4>2 DEF TypeOK, EnqueueFails
    <3>6. CASE EnqueuedAll(w)
      BY <3>6, BatchesStayBatches DEF TypeOK, EnqueuedAll
    <3>7. CASE Commit(w)
      <4>1. pub[w].items \subseteq Msg
        BY <3>0 DEF Batch
      <4> QED
        BY <3>7, <4>1, BatchesStayBatches DEF TypeOK, Commit
    <3>8. CASE Count(w)
      <4>1. pub[w].items \subseteq Msg
        BY <3>0 DEF Batch
      <4> QED
        BY <3>8, <4>1, BatchesStayBatches DEF TypeOK, Count
    <3> QED
      BY <2>4, <3>1, <3>2, <3>3, <3>4, <3>5, <3>6, <3>7, <3>8 DEF WorkerStep
  <2>5. CASE RetrierStep
    <3>1. CASE Fetch
      <4>1. left' \subseteq Msg
        BY <3>1, OldestArePart DEF Fetch, Ready, Stored
      <4> QED
        BY <3>1, <4>1 DEF TypeOK, Fetch
    <3>2. CASE BatchSent
      BY <3>2 DEF TypeOK, BatchSent
    <3>3. CASE BatchFails
      BY <3>3 DEF TypeOK, BatchFails
    <3>4. CASE RetrierJudges \/ RetrierCloses \/ BreakOff
      BY <3>4 DEF TypeOK, RetrierJudges, RetrierCloses, BreakOff, Onward
    <3>5. ASSUME NEW m \in Msg, RowSent(m) PROVE TypeOK'
      BY <3>5 DEF TypeOK, RowSent
    <3>6. ASSUME NEW m \in Msg, NEW failure \in Failure, RowFailsForNow(m, failure)
          PROVE TypeOK'
      <4>1. refusals' \in [Msg -> Nat] /\ delivered' \subseteq Msg
        BY <3>6 DEF RowFailsForNow, CountRefusal, Reached, TypeOK
      <4> QED
        BY <3>6, <4>1 DEF TypeOK, RowFailsForNow, Onward
    <3>7. ASSUME NEW m \in Msg, NEW failure \in Failure, RowFails(m, failure)
          PROVE TypeOK'
      <4>1. refusals' \in [Msg -> Nat] /\ delivered' \subseteq Msg
        BY <3>7 DEF RowFails, CountRefusal, Reached, TypeOK
      <4>2. row' \in [Msg -> Row]
        BY <3>7, RowsStayRows DEF RowFails, TypeOK
      <4>3. estimate' \in Nat /\ faults' \in Nat
        BY <3>7, LessIsNat DEF RowFails, SqliteRaises, TypeOK
      <4>4. /\ left' \subseteq Msg /\ sent' \subseteq Msg
            /\ rpc' \in {"fetch", "rows", "delete"}
        BY <3>7 DEF RowFails, Onward, TypeOK
      <4> QED
        BY <3>7, <4>1, <4>2, <4>3, <4>4 DEF TypeOK, RowFails
    <3>8. CASE DeleteSent
      <4>1. row' \in [Msg -> Row]
        BY <3>8, RowsStayRows DEF DeleteSent, TypeOK
      <4>2. estimate' \in Nat /\ faults' \in Nat
        BY <3>8, CountIsNat, LessIsNat DEF DeleteSent, SqliteRaises, TypeOK
      <4> QED
        BY <3>8, <4>1, <4>2 DEF TypeOK, DeleteSent
    <3> QED
      BY <2>5, <3>1, <3>2, <3>3, <3>4, <3>5, <3>6, <3>7, <3>8 DEF RetrierStep
  <2>6. ASSUME NEW m \in Msg, Due(m) PROVE TypeOK'
    <3>1. [row[m] EXCEPT !.deferred = FALSE] \in Row
      BY DEF TypeOK, Row
    <3> QED
      BY <2>6, <3>1 DEF TypeOK, Due
  <2>7. CASE Crash
    <3>1. pub' \in [Worker -> Batch]
      <4>1. NoBatch \in Batch
        BY DEF NoBatch, Batch
      <4> QED
        BY <2>7, <4>1 DEF Crash
    <3>2. crashes' \in Nat
      BY <2>7 DEF TypeOK, Crash
    <3> QED
      BY <2>7, <3>1, <3>2, Zenon DEF TypeOK, Crash
  <2>8. CASE Boot
    <3>1. Stored \subseteq Msg
      BY DEF Stored
    <3> QED
      BY <2>8, <3>1, CountIsNat DEF TypeOK, Boot, SqliteRaises
  <2>9. CASE BootQuarantined
    BY <2>9, RowsStayRows DEF TypeOK, BootQuarantined, Stored, Buried
  <2>10. CASE UNCHANGED vars
    BY <2>10 DEF TypeOK, vars
  <2> QED
    BY <2>1, <2>2, <2>3, <2>4, <2>5, <2>6, <2>7, <2>8, <2>9, <2>10 DEF Next
<1> QED
  BY <1>1, <1>2, PTL DEF Spec
-----------------------------------------------------------------------------
(* Nothing is lost *)

\* No step takes a message out of all safe hands: a row is deleted after its
\* delivery, pruned or lost with its file.
LEMMA SafeGrows ==
    ASSUME TypeOK, SentIsDelivered, [Next]_vars
    PROVE  Safe \subseteq Safe'
<1> USE DEF durable, flags, retrier, history, bounds
<1> DEFINE Kept == Stored \cup Buried
<1>1. SUFFICES delivered \subseteq delivered' /\ dropped \subseteq dropped'
               /\ Kept \subseteq Kept' \cup delivered' \cup dropped'
  BY DEF Safe
<1>2. CASE UNCHANGED <<row, dropped>> /\ delivered \subseteq delivered'
  BY <1>2 DEF Stored, Buried
<1>3. ASSUME NEW ms \in SUBSET Msg, PruneDeadLetter(ms)
      PROVE  /\ delivered \subseteq delivered' /\ dropped \subseteq dropped'
             /\ Kept \subseteq Kept' \cup delivered' \cup dropped'
  BY <1>3 DEF PruneDeadLetter, Deleted, Stored, Buried, TypeOK
<1>4. ASSUME NEW w \in Worker, WorkerStep(w)
      PROVE  /\ delivered \subseteq delivered' /\ dropped \subseteq dropped'
             /\ Kept \subseteq Kept' \cup delivered' \cup dropped'
  <2>1. CASE UNCHANGED <<row, dropped>> /\ delivered \subseteq delivered'
    BY <2>1, <1>2
  <2>2. ASSUME NEW m \in Msg, row' = Inserted(m), UNCHANGED <<delivered, dropped>>
        PROVE  /\ delivered \subseteq delivered' /\ dropped \subseteq dropped'
               /\ Kept \subseteq Kept' \cup delivered' \cup dropped'
    <3>1. row'[m].table = "outbox" /\ \A k \in Msg \ {m} : row'[k] = row[k]
      BY <2>2 DEF Inserted, TypeOK, NoRow
    <3> QED
      BY <2>2, <3>1 DEF Stored, Buried
  <2>3. ASSUME NEW m \in Msg, Enqueue(w, m) \/ EnqueueFails(w, m)
        PROVE  \/ UNCHANGED <<row, dropped>> /\ delivered \subseteq delivered'
               \/ row' = Inserted(m) /\ UNCHANGED <<delivered, dropped>>
    BY <2>3 DEF Enqueue, EnqueueFails
  <2>4. CASE SendSucceeds(w) \/ SendFails(w) \/ NoteSent(w) \/ Judge(w) \/ Close(w)
             \/ Trip(w) \/ EnqueuedAll(w) \/ Commit(w) \/ Count(w)
    BY <2>1, <2>4 DEF SendSucceeds, SendFails, NoteSent, Judge, Close, Trip, EnqueuedAll,
                      Commit, Count
  <2> QED
    BY <1>4, <2>1, <2>2, <2>3, <2>4 DEF WorkerStep
<1>5. CASE RetrierStep
  <2>1. CASE Fetch \/ BatchSent \/ BatchFails \/ RetrierJudges \/ RetrierCloses \/ BreakOff
    BY <1>2, <2>1 DEF Fetch, BatchSent, BatchFails, RetrierJudges, RetrierCloses, BreakOff
  <2>2. ASSUME NEW m \in Msg, RowSent(m)
        PROVE  UNCHANGED <<row, dropped>> /\ delivered \subseteq delivered'
    BY <2>2 DEF RowSent
  <2>3. ASSUME NEW m \in Msg, NEW failure \in Failure, RowFailsForNow(m, failure)
        PROVE  UNCHANGED <<row, dropped>> /\ delivered \subseteq delivered'
    BY <2>3 DEF RowFailsForNow, Reached
  <2>4. ASSUME NEW m \in Msg, NEW failure \in Failure, RowFails(m, failure)
        PROVE  /\ delivered \subseteq delivered' /\ dropped \subseteq dropped'
               /\ Kept \subseteq Kept' \cup delivered' \cup dropped'
    <3>1. delivered \subseteq delivered' /\ dropped' = dropped /\ row' \in {row, Charged(m)}
      BY <2>4 DEF RowFails, Reached
    <3>2. CASE row' = row
      BY <1>2, <3>1, <3>2
    <3>3. CASE row' = Charged(m)
      <4>1. row[m] \in Row
        BY DEF TypeOK
      <4>2. row'[m].table \in {"outbox", "dead_letter"}
            /\ \A k \in Msg \ {m} : row'[k] = row[k]
        BY <3>3, <4>1 DEF Charged, TypeOK, Row
      <4> QED
        BY <3>1, <4>2 DEF Stored, Buried
    <3> QED
      BY <3>1, <3>2, <3>3
  <2>5. CASE DeleteSent
    BY <2>5 DEF DeleteSent, Deleted, Stored, Buried, SentIsDelivered, TypeOK
  <2> QED
    BY <1>2, <1>5, <2>1, <2>2, <2>3, <2>4, <2>5 DEF RetrierStep
<1>6. ASSUME NEW m \in Msg, Due(m)
      PROVE  /\ delivered \subseteq delivered' /\ dropped \subseteq dropped'
             /\ Kept \subseteq Kept' \cup delivered' \cup dropped'
  <2>1. \A k \in Msg : row'[k].table = row[k].table
    BY <1>6 DEF Due, TypeOK, Row
  <2> QED
    BY <1>6, <2>1 DEF Due, Stored, Buried
<1>7. CASE BootQuarantined
  BY <1>7 DEF BootQuarantined
<1>8. CASE BeginCycle \/ EndCycle \/ Stop \/ Crash \/ Boot
  BY <1>2, <1>8 DEF BeginCycle, EndCycle, Stop, Crash, Boot
<1>9. ASSUME NEW w \in Worker, NEW items \in SUBSET Msg, StartPoll(w, items)
      PROVE  UNCHANGED <<row, dropped>> /\ delivered \subseteq delivered'
  BY <1>9 DEF StartPoll
<1>10. CASE UNCHANGED vars
  BY <1>2, <1>10 DEF vars
<1> QED
  BY <1>2, <1>3, <1>4, <1>5, <1>6, <1>7, <1>8, <1>9, <1>10 DEF Next
\* A batch that a step leaves alone stays safe.
LEMMA IdleBatchStaysSafe ==
    ASSUME NEW w \in Worker, BatchIsSafe(w), Safe \subseteq Safe', pub'[w] = pub[w]
    PROVE  BatchIsSafe(w)'
<1> QED
  BY DEF BatchIsSafe

\* A step of a worker keeps its batch safe, and leaves those of others alone.
LEMMA WorkerKeepsBatchesSafe ==
    ASSUME TypeOK, NEW w \in Worker, BatchIsSafe(w), Safe \subseteq Safe', WorkerStep(w)
    PROVE  BatchIsSafe(w)' /\ \A v \in Worker \ {w} : pub'[v] = pub[v]
<1>1. pub[w] \in Batch /\ pub \in [Worker -> Batch]
  BY DEF TypeOK
<1>2. CASE SendSucceeds(w)
  <2>1. /\ pub'[w].pc = "sent" /\ pub'[w].items = pub[w].items
        /\ \A v \in Worker \ {w} : pub'[v] = pub[v]
    BY <1>1, <1>2 DEF SendSucceeds, Batch
  <2>2. pub[w].items \subseteq Safe'
    BY <1>2 DEF SendSucceeds, Safe
  <2> QED
    BY <2>1, <2>2 DEF BatchIsSafe
<1>3. CASE SendFails(w)
  <2>1. /\ pub'[w].pc = "enqueueing" /\ pub'[w].items = pub[w].items
        /\ pub'[w].todo = pub[w].items
        /\ \A v \in Worker \ {w} : pub'[v] = pub[v]
    BY <1>1, <1>3 DEF SendFails, Batch
  <2> QED
    BY <2>1 DEF BatchIsSafe
<1>4. CASE NoteSent(w) \/ Judge(w) \/ Close(w)
  <2>1. /\ pub[w].pc \in {"sent", "judging", "closing"}
        /\ pub'[w].pc \in {"judging", "closing", "committing"}
        /\ pub'[w].items = pub[w].items
        /\ \A v \in Worker \ {w} : pub'[v] = pub[v]
    BY <1>1, <1>4 DEF NoteSent, Judge, Close, At, Batch
  <2> QED
    BY <2>1 DEF BatchIsSafe
<1>5. ASSUME NEW m \in Msg, Enqueue(w, m)
      PROVE  BatchIsSafe(w)' /\ \A v \in Worker \ {w} : pub'[v] = pub[v]
  <2>1. /\ pub[w].pc = "enqueueing" /\ pub'[w].pc = "enqueueing"
        /\ pub'[w].items = pub[w].items /\ pub'[w].fatal = pub[w].fatal
        /\ pub'[w].todo = pub[w].todo \ {m}
        /\ \A v \in Worker \ {w} : pub'[v] = pub[v]
    BY <1>1, <1>5 DEF Enqueue, At, Batch
  <2>2. m \in Safe'
    <3>1. row'[m].table = "outbox"
      BY <1>5 DEF Enqueue, Inserted, NoRow, TypeOK
    <3> QED
      BY <3>1 DEF Safe, Stored
  <2> QED
    BY <2>1, <2>2 DEF BatchIsSafe
<1>6. ASSUME NEW m \in Msg, EnqueueFails(w, m)
      PROVE  BatchIsSafe(w)' /\ \A v \in Worker \ {w} : pub'[v] = pub[v]
  <2>1. /\ pub'[w].pc \in {"enqueueing", "tripping"} /\ pub'[w].fatal
        /\ \A v \in Worker \ {w} : pub'[v] = pub[v]
    BY <1>1, <1>6 DEF EnqueueFails, At, Batch
  <2> QED
    BY <2>1 DEF BatchIsSafe
<1>7. CASE Trip(w)
  <2>1. /\ pub[w].pc = "tripping" /\ pub'[w].pc = "enqueueing"
        /\ pub'[w].fatal = pub[w].fatal
        /\ \A v \in Worker \ {w} : pub'[v] = pub[v]
    BY <1>1, <1>7 DEF Trip, At, Batch
  <2> QED
    BY <2>1 DEF BatchIsSafe
<1>8. CASE EnqueuedAll(w)
  <2>1. CASE pub[w].fatal
    <3>1. pub'[w] = NoBatch /\ \A v \in Worker \ {w} : pub'[v] = pub[v]
      BY <1>1, <1>8, <2>1 DEF EnqueuedAll
    <3> QED
      BY <3>1 DEF BatchIsSafe, NoBatch
  <2>2. CASE ~pub[w].fatal
    <3>1. /\ pub[w].pc = "enqueueing" /\ pub[w].todo = {}
          /\ pub'[w].pc = "committing" /\ pub'[w].items = pub[w].items
          /\ \A v \in Worker \ {w} : pub'[v] = pub[v]
      BY <1>1, <1>8, <2>2 DEF EnqueuedAll, At, Batch
    <3> QED
      BY <2>2, <3>1 DEF BatchIsSafe
  <2> QED
    BY <2>1, <2>2
<1>9. CASE Commit(w) \/ Count(w)
  <2>1. /\ pub'[w].pc \in {"counting", "idle"}
        /\ \A v \in Worker \ {w} : pub'[v] = pub[v]
    BY <1>1, <1>9 DEF Commit, Count, NoBatch, Batch
  <2> QED
    BY <2>1 DEF BatchIsSafe
<1> QED
  BY <1>2, <1>3, <1>4, <1>5, <1>6, <1>7, <1>8, <1>9 DEF WorkerStep

\* What the retrier is about to delete stays delivered.
LEMMA SentStaysDelivered ==
    ASSUME TypeOK, SentIsDelivered, [Next]_vars
    PROVE  SentIsDelivered'
<1> USE DEF durable, flags, retrier, history, bounds, SentIsDelivered
<1>1. CASE BeginCycle \/ EndCycle \/ Stop \/ Crash \/ Boot \/ BootQuarantined
  BY <1>1 DEF BeginCycle, EndCycle, Stop, Crash, Boot, BootQuarantined
<1>2. ASSUME NEW ms \in SUBSET Msg, PruneDeadLetter(ms) PROVE SentIsDelivered'
  BY <1>2 DEF PruneDeadLetter
<1>3. ASSUME NEW w \in Worker, NEW items \in SUBSET Msg, StartPoll(w, items)
      PROVE  SentIsDelivered'
  BY <1>3 DEF StartPoll
<1>4. ASSUME NEW w \in Worker, WorkerStep(w) PROVE SentIsDelivered'
  BY <1>4 DEF WorkerStep, SendSucceeds, SendFails, NoteSent, Judge, Close, Enqueue,
              EnqueueFails, Trip, EnqueuedAll, Commit, Count
<1>5. CASE RetrierStep
  <2>1. CASE Fetch \/ BatchSent \/ BatchFails \/ RetrierJudges \/ RetrierCloses \/ BreakOff
             \/ DeleteSent
    BY <2>1 DEF Fetch, BatchSent, BatchFails, RetrierJudges, RetrierCloses, BreakOff, DeleteSent
  <2>2. ASSUME NEW m \in Msg, RowSent(m) PROVE SentIsDelivered'
    BY <2>2 DEF RowSent
  <2>3. ASSUME NEW m \in Msg, NEW failure \in Failure,
               RowFailsForNow(m, failure) \/ RowFails(m, failure)
        PROVE  SentIsDelivered'
    BY <2>3 DEF RowFailsForNow, RowFails, Reached
  <2> QED
    BY <1>5, <2>1, <2>2, <2>3 DEF RetrierStep
<1>6. ASSUME NEW m \in Msg, Due(m) PROVE SentIsDelivered'
  BY <1>6 DEF Due
<1>7. CASE UNCHANGED vars
  BY <1>7 DEF vars
<1> QED
  BY <1>1, <1>2, <1>3, <1>4, <1>5, <1>6, <1>7 DEF Next
\* A message is accepted after its batch, and its batch was safe.
LEMMA AcceptedWasSafe ==
    ASSUME TypeOK, \A w \in Worker : BatchIsSafe(w), [Next]_vars
    PROVE  accepted' \subseteq accepted \cup Safe
<1> USE DEF durable, flags, retrier, history, bounds
<1>1. CASE BeginCycle \/ EndCycle \/ Stop \/ Crash \/ Boot \/ BootQuarantined
  BY <1>1 DEF BeginCycle, EndCycle, Stop, Crash, Boot, BootQuarantined
<1>2. ASSUME NEW ms \in SUBSET Msg, PruneDeadLetter(ms)
      PROVE  accepted' = accepted
  BY <1>2 DEF PruneDeadLetter
<1>3. ASSUME NEW w \in Worker, NEW items \in SUBSET Msg, StartPoll(w, items)
      PROVE  accepted' = accepted
  BY <1>3 DEF StartPoll
<1>4. ASSUME NEW w \in Worker, WorkerStep(w)
      PROVE  accepted' \subseteq accepted \cup Safe
  <2>1. CASE Commit(w)
    BY <2>1 DEF Commit, At, BatchIsSafe
  <2>2. CASE ~Commit(w)
    BY <1>4, <2>2 DEF WorkerStep, SendSucceeds, SendFails, NoteSent, Judge, Close, Enqueue,
                      EnqueueFails, Trip, EnqueuedAll, Count
  <2> QED
    BY <2>1, <2>2
<1>5. CASE RetrierStep
  BY <1>5 DEF RetrierStep, Fetch, BatchSent, BatchFails, RetrierJudges, RetrierCloses,
              BreakOff, DeleteSent, RowSent, RowFailsForNow, RowFails
<1>6. ASSUME NEW m \in Msg, Due(m)
      PROVE  accepted' = accepted
  BY <1>6 DEF Due
<1>7. CASE UNCHANGED vars
  BY <1>7 DEF vars
<1> QED
  BY <1>1, <1>2, <1>3, <1>4, <1>5, <1>6, <1>7 DEF Next

\* Steps outside the workers leave the batches alone, or reset them.
LEMMA OthersKeepBatchesSafe ==
    ASSUME TypeOK, SentIsDelivered, \A w \in Worker : BatchIsSafe(w), [Next]_vars
    PROVE  \A w \in Worker : BatchIsSafe(w)'
<1> USE DEF durable, flags, retrier, history, bounds
<1>1. Safe \subseteq Safe'
  BY SafeGrows
<1>2. CASE pub' = pub
  BY <1>1, <1>2, IdleBatchStaysSafe
<1>3. CASE Crash
  <2>1. \A w \in Worker : pub'[w] = NoBatch
    BY <1>3 DEF Crash
  <2> QED
    BY <2>1 DEF BatchIsSafe, NoBatch
<1>4. ASSUME NEW w \in Worker, WorkerStep(w)
      PROVE  \A v \in Worker : BatchIsSafe(v)'
  <2>1. BatchIsSafe(w)' /\ \A v \in Worker \ {w} : pub'[v] = pub[v]
    BY <1>1, <1>4, WorkerKeepsBatchesSafe
  <2> QED
    BY <1>1, <2>1, IdleBatchStaysSafe
<1>5. ASSUME NEW w \in Worker, NEW items \in SUBSET Msg, StartPoll(w, items)
      PROVE  \A v \in Worker : BatchIsSafe(v)'
  <2>1. pub'[w].pc = "sending" /\ \A v \in Worker \ {w} : pub'[v] = pub[v]
    BY <1>5 DEF StartPoll, NoBatch, TypeOK
  <2>2. BatchIsSafe(w)'
    BY <2>1 DEF BatchIsSafe
  <2> QED
    BY <1>1, <2>1, <2>2, IdleBatchStaysSafe
<1>6. CASE RetrierStep
  <2>1. pub' = pub
    BY <1>6 DEF RetrierStep, Fetch, BatchSent, BatchFails, RetrierJudges, RetrierCloses,
                BreakOff, DeleteSent, RowSent, RowFailsForNow, RowFails
  <2> QED
    BY <1>2, <2>1
<1>7. CASE \/ BeginCycle \/ EndCycle \/ Stop \/ Boot \/ BootQuarantined
           \/ \E ms \in SUBSET Msg : PruneDeadLetter(ms)
           \/ \E m \in Msg : Due(m)
           \/ UNCHANGED vars
  <2>1. pub' = pub
    BY <1>7 DEF BeginCycle, EndCycle, Stop, Boot, BootQuarantined, PruneDeadLetter, Due, vars
  <2> QED
    BY <1>2, <2>1
<1> QED
  BY <1>3, <1>4, <1>5, <1>6, <1>7 DEF Next

\* Why nothing is lost (_commit_published follows a delivered or a completely
\* stored batch; delete_many deletes what was sent), in every reachable state.
THEOREM BatchesSafe == Spec => []SafetyInvariant
<1>1. Init => SafetyInvariant
  BY DEF Init, SafetyInvariant, BatchesAreSafe, SentIsDelivered, BatchIsSafe, NothingLost,
         NoBatch
<1>2. TypeOK /\ SafetyInvariant /\ [Next]_vars => SafetyInvariant'
  <2> SUFFICES ASSUME TypeOK, SafetyInvariant, [Next]_vars PROVE SafetyInvariant'
    OBVIOUS
  <2> USE DEF SafetyInvariant, BatchesAreSafe
  <2>1. SentIsDelivered'
    BY SentStaysDelivered
  <2>2. \A w \in Worker : BatchIsSafe(w)'
    BY OthersKeepBatchesSafe
  <2>3. NothingLost'
    BY SafeGrows, AcceptedWasSafe DEF NothingLost
  <2> QED
    BY <2>1, <2>2, <2>3
<1> QED
  BY <1>1, <1>2, TypeCorrect, PTL DEF Spec

\* A reading whose change flag was cleared is at the broker, in the outbox or in
\* the dead letters, or went with a corrupt file or with the retention of the
\* dead letters (ResilientPublisher.publish_batch, OutboxRetrier._drain_batch).
THEOREM NothingIsLost == Spec => []NothingLost
<1>1. SafetyInvariant => NothingLost
  BY DEF SafetyInvariant
<1> QED
  BY <1>1, BatchesSafe, PTL

-----------------------------------------------------------------------------
(* Over the HTTP path no outage makes a dead letter *)

\* What charging a row does to it.
LEMMA ChargedRow ==
    ASSUME TypeOK, NEW m \in Msg
    PROVE  /\ \A k \in Msg \ {m} : Charged(m)[k] = row[k]
           /\ Exhausted(m) => Charged(m)[m].retries = row[m].retries
           /\ ~Exhausted(m) => /\ Charged(m)[m].retries = row[m].retries + 1
                              /\ Charged(m)[m].table = "outbox"
<1>1. row[m] \in Row /\ row \in [Msg -> Row]
  BY DEF TypeOK
<1> QED
  BY <1>1 DEF Charged, Row

\* The invariant as a fact about single rows.
RowWasRefused(m) ==
    /\ row[m].retries <= refusals[m]
    /\ row[m].table = "dead_letter" => refusals[m] >= MaxRetries

\* A row that a step leaves alone, empties or inserts keeps the invariant.
LEMMA RowKeepsRefusals ==
    ASSUME TypeOK, NEW m \in Msg, RowWasRefused(m), refusals'[m] = refusals[m],
           \/ row'[m] = row[m]
           \/ row'[m].retries = 0 /\ row'[m].table # "dead_letter"
           \/ row'[m].retries = row[m].retries /\ row'[m].table = row[m].table
    PROVE  RowWasRefused(m)'
<1>1. refusals[m] \in Nat
  BY DEF TypeOK
<1> QED
  BY <1>1 DEF RowWasRefused
\* A failing row: over the HTTP path it is charged only when it was refused.
LEMMA FailureKeepsRefusals ==
    ASSUME TypeOK, HttpPath, NEW m \in Msg, \A k \in Msg : RowWasRefused(k),
           NEW failure \in Failure, RowFails(m, failure)
    PROVE  \A k \in Msg : RowWasRefused(k)'
<1>1. failure = "refused"
  BY DEF RowFails, IsTransient, Failure
<1>2. /\ refusals[m] \in Nat /\ row[m].retries \in Nat /\ MaxRetries \in Nat
      /\ row \in [Msg -> Row] /\ refusals \in [Msg -> Nat]
  BY OutboxAssumption DEF TypeOK, Row
<1>3. /\ refusals'[m] = IF refusals[m] < MaxRetries THEN refusals[m] + 1 ELSE refusals[m]
      /\ \A k \in Msg \ {m} : refusals'[k] = refusals[k]
  BY <1>1, <1>2 DEF RowFails, CountRefusal
<1>4. row' = row \/ row' = Charged(m)
  BY DEF RowFails
<1>5. \A k \in Msg \ {m} : row'[k] = row[k]
  BY <1>4, ChargedRow
<1>6. RowWasRefused(m)'
  <2>1. CASE row' = row
    BY <1>2, <1>3, <2>1 DEF RowWasRefused
  <2>2. CASE row' = Charged(m) /\ Exhausted(m)
    <3>1. row'[m].retries = row[m].retries
      BY <2>2, ChargedRow
    <3>2. row[m].retries + 1 >= MaxRetries /\ row[m].retries <= refusals[m]
      BY <2>2 DEF Exhausted, RowWasRefused
    <3> QED
      BY <1>2, <1>3, <3>1, <3>2 DEF RowWasRefused
  <2>3. CASE row' = Charged(m) /\ ~Exhausted(m)
    <3>1. row'[m].retries = row[m].retries + 1 /\ row'[m].table = "outbox"
      BY <2>3, ChargedRow
    <3>2. ~(row[m].retries + 1 >= MaxRetries) /\ row[m].retries <= refusals[m]
      BY <2>3 DEF Exhausted, RowWasRefused
    <3> QED
      BY <1>2, <1>3, <3>1, <3>2 DEF RowWasRefused
  <2> QED
    BY <1>4, <2>1, <2>2, <2>3
<1>7. \A k \in Msg \ {m} : RowWasRefused(k)'
  BY <1>3, <1>5, RowKeepsRefusals
<1> QED
  BY <1>6, <1>7

\* Any step.
LEMMA StepKeepsRefusals ==
    ASSUME TypeOK, HttpPath, \A k \in Msg : RowWasRefused(k), [Next]_vars
    PROVE  \A k \in Msg : RowWasRefused(k)'
<1> USE DEF durable, flags, retrier, history, bounds
<1>1. CASE row' = row /\ refusals' = refusals
  BY <1>1, RowKeepsRefusals
<1>2. ASSUME NEW ms, row' = Deleted(ms), refusals' = refusals
      PROVE  \A k \in Msg : RowWasRefused(k)'
  <2>1. \A k \in Msg : \/ row'[k] = row[k]
                       \/ row'[k].retries = 0 /\ row'[k].table # "dead_letter"
    BY <1>2 DEF Deleted, NoRow
  <2> QED
    BY <1>2, <2>1, RowKeepsRefusals
<1>3. ASSUME NEW m \in Msg, row' = Inserted(m), refusals' = refusals
      PROVE  \A k \in Msg : RowWasRefused(k)'
  <2>1. \A k \in Msg : \/ row'[k] = row[k]
                       \/ row'[k].retries = 0 /\ row'[k].table # "dead_letter"
    BY <1>3 DEF Inserted, NoRow, TypeOK
  <2> QED
    BY <1>3, <2>1, RowKeepsRefusals
<1>4. CASE BeginCycle \/ EndCycle \/ Stop \/ Crash \/ Boot
  BY <1>1, <1>4 DEF BeginCycle, EndCycle, Stop, Crash, Boot
<1>5. CASE BootQuarantined
  <2>1. \A k \in Msg : row'[k].retries = 0 /\ row'[k].table # "dead_letter"
    BY <1>5 DEF BootQuarantined, NoRow
  <2>2. refusals' = refusals
    BY <1>5 DEF BootQuarantined
  <2> QED
    BY <2>1, <2>2, RowKeepsRefusals
<1>6. ASSUME NEW ms \in SUBSET Msg, PruneDeadLetter(ms)
      PROVE  \A k \in Msg : RowWasRefused(k)'
  BY <1>2, <1>6 DEF PruneDeadLetter
<1>7. ASSUME NEW w \in Worker, NEW items \in SUBSET Msg, StartPoll(w, items)
      PROVE  \A k \in Msg : RowWasRefused(k)'
  BY <1>1, <1>7 DEF StartPoll
<1>8. ASSUME NEW w \in Worker, WorkerStep(w)
      PROVE  \A k \in Msg : RowWasRefused(k)'
  <2>1. ASSUME NEW m \in Msg, Enqueue(w, m) \/ EnqueueFails(w, m)
        PROVE  (row' = row \/ row' = Inserted(m)) /\ refusals' = refusals
    BY <2>1 DEF Enqueue, EnqueueFails
  <2>2. CASE SendSucceeds(w) \/ SendFails(w) \/ NoteSent(w) \/ Judge(w) \/ Close(w)
             \/ Trip(w) \/ EnqueuedAll(w) \/ Commit(w) \/ Count(w)
    BY <1>1, <2>2 DEF SendSucceeds, SendFails, NoteSent, Judge, Close, Trip, EnqueuedAll,
                      Commit, Count
  <2> QED
    BY <1>1, <1>3, <1>8, <2>1, <2>2 DEF WorkerStep
<1>9. CASE RetrierStep
  <2>1. CASE Fetch \/ BatchSent \/ BatchFails \/ RetrierJudges \/ RetrierCloses \/ BreakOff
    BY <1>1, <2>1 DEF Fetch, BatchSent, BatchFails, RetrierJudges, RetrierCloses, BreakOff
  <2>2. ASSUME NEW m \in Msg, RowSent(m)
        PROVE  \A k \in Msg : RowWasRefused(k)'
    BY <1>1, <2>2 DEF RowSent
  <2>3. ASSUME NEW m \in Msg, NEW failure \in Failure, RowFailsForNow(m, failure)
        PROVE  \A k \in Msg : RowWasRefused(k)'
    <3>1. row' = row /\ failure # "refused"
      BY <2>3 DEF RowFailsForNow, IsTransient
    <3>2. \A k \in Msg : refusals'[k] = refusals[k]
      BY <2>3, <3>1 DEF RowFailsForNow, CountRefusal, TypeOK
    <3> QED
      BY <3>1, <3>2, RowKeepsRefusals
  <2>4. ASSUME NEW m \in Msg, NEW failure \in Failure, RowFails(m, failure)
        PROVE  \A k \in Msg : RowWasRefused(k)'
    BY <2>4, FailureKeepsRefusals
  <2>5. CASE DeleteSent
    BY <1>1, <1>2, <2>5 DEF DeleteSent
  <2> QED
    BY <1>9, <2>1, <2>2, <2>3, <2>4, <2>5 DEF RetrierStep
<1>10. ASSUME NEW m \in Msg, Due(m)
       PROVE  \A k \in Msg : RowWasRefused(k)'
  <2>1. \A k \in Msg : row'[k].retries = row[k].retries /\ row'[k].table = row[k].table
    BY <1>10 DEF Due, TypeOK, Row
  <2>2. refusals' = refusals
    BY <1>10 DEF Due
  <2> QED
    BY <2>1, <2>2, RowKeepsRefusals
<1>11. CASE UNCHANGED vars
  BY <1>1, <1>11 DEF vars
<1> QED
  BY <1>4, <1>5, <1>6, <1>7, <1>8, <1>9, <1>10, <1>11 DEF Next

\* A row has been charged at most as often as the broker refused it
\* (OutboxRetrier._drain_batch, HttpTelemetryNotReadyError).
THEOREM ChargedAsRefused == Spec => []RefusalInvariant
<1>1. Init => RefusalInvariant
  BY DEF Init, RefusalInvariant, BuriedWasRefused, Buried, NoRow
<1>2. TypeOK /\ RefusalInvariant /\ [Next]_vars => RefusalInvariant'
  <2> SUFFICES ASSUME TypeOK, RefusalInvariant, [Next]_vars, HttpPath
               PROVE  RefusalInvariant'
    BY DEF RefusalInvariant
  <2>1. \A m \in Msg : RowWasRefused(m)
    BY DEF RefusalInvariant, RowWasRefused, BuriedWasRefused, Buried
  <2>2. \A m \in Msg : RowWasRefused(m)'
    BY <2>1, StepKeepsRefusals
  <2> QED
    BY <2>2 DEF RefusalInvariant, RowWasRefused, BuriedWasRefused, Buried
<1> QED
  BY <1>1, <1>2, TypeCorrect, PTL DEF Spec

\* Over the HTTP path a dead letter was refused the full number of times: an
\* outage alone does not make one (errors.is_transient).
THEOREM NoOutageBuries == Spec => [](HttpPath => BuriedWasRefused)
<1>1. RefusalInvariant => (HttpPath => BuriedWasRefused)
  BY DEF RefusalInvariant
<1> QED
  BY <1>1, ChargedAsRefused, PTL

-----------------------------------------------------------------------------
(* The contract is implemented *)

\* Messages that are or have been in the hands of the gateway.
Gone == Stored \cup Buried \cup dropped \cup accepted

\* Items of a batch that nothing was done with yet, except at the broker.
Untouched(b) == IF b.pc = "sending" THEN b.items
                ELSE IF b.pc \in {"enqueueing", "tripping"} THEN b.todo ELSE {}

\* No two batches share a message, and what a batch has not stored is new.
BatchesAreNew ==
    /\ \A w \in Worker : /\ pub[w].items \subseteq used
                         /\ Untouched(pub[w]) \subseteq pub[w].items \ Gone
    /\ \A v, w \in Worker : v # w => pub[v].items \cap pub[w].items = {}
    /\ Gone \subseteq used

\* The rows of the retrier's batch stay stored until it handles them itself.
RetrierOwnsRows ==
    /\ left \cup sent \subseteq Stored /\ left \cap sent = {}
    /\ rpc \in {"fetch", "delete"} => left = {}
    /\ rpc \in {"fetch", "batch"} => sent = {}
    /\ ~up => rpc = "fetch"

\* What the statements of the outbox do to its two tables.
LEMMA InsertMoves ==
    ASSUME TypeOK, NEW m \in Msg, row' = Inserted(m)
    PROVE  Stored' = Stored \cup {m} /\ Buried' = Buried \ {m}
<1>1. row'[m].table = "outbox" /\ \A k \in Msg \ {m} : row'[k] = row[k]
  BY DEF Inserted, TypeOK, NoRow
<1> QED
  BY <1>1 DEF Stored, Buried

LEMMA DeleteMoves ==
    ASSUME NEW ms, row' = Deleted(ms)
    PROVE  Stored' = Stored \ ms /\ Buried' = Buried \ ms
<1> QED
  BY DEF Deleted, NoRow, Stored, Buried

LEMMA ChargeMoves ==
    ASSUME TypeOK, NEW m \in Stored, row' = Charged(m)
    PROVE  \/ Stored' = Stored \ {m} /\ Buried' = Buried \cup {m}
           \/ UNCHANGED <<Stored, Buried>>
<1>1. m \in Msg /\ row[m].table = "outbox"
  BY DEF Stored
<1>2. \A k \in Msg \ {m} : row'[k] = row[k]
  BY <1>1, ChargedRow
<1>3. CASE Exhausted(m)
  <2>1. row[m] \in Row /\ row \in [Msg -> Row]
    BY <1>1 DEF TypeOK
  <2>2. row'[m].table = "dead_letter"
    BY <1>1, <1>3, <2>1 DEF Charged, Row
  <2> QED
    BY <1>1, <1>2, <2>2 DEF Stored, Buried
<1>4. CASE ~Exhausted(m)
  <2>1. row'[m].table = "outbox"
    BY <1>1, <1>4, ChargedRow
  <2> QED
    BY <1>1, <1>2, <2>1 DEF Stored, Buried
<1> QED
  BY <1>3, <1>4

LEMMA DueMovesNothing ==
    ASSUME TypeOK, NEW m \in Msg, Due(m)
    PROVE  UNCHANGED <<Stored, Buried>>
<1>1. \A k \in Msg : row'[k].table = row[k].table
  BY DEF Due, TypeOK, Row
<1> QED
  BY <1>1 DEF Stored, Buried

LEMMA SameRows ==
    ASSUME row' = row
    PROVE  UNCHANGED <<Stored, Buried>>
<1> QED
  BY DEF Stored, Buried

\* A failing insert leaves the tables alone or stores the message.
LEMMA FailedInsertMoves ==
    ASSUME TypeOK, NEW w \in Worker, NEW m \in Msg, EnqueueFails(w, m)
    PROVE  \/ UNCHANGED <<Stored, Buried>>
           \/ Stored' = Stored \cup {m} /\ Buried' = Buried \ {m}
<1>1. row' = row \/ row' = Inserted(m)
  BY DEF EnqueueFails, durable
<1> QED
  BY <1>1, SameRows, InsertMoves

\* A step of a worker handles its own batch only: what it stores or has
\* accepted are items of that batch, and what is left to do with it is new.
LEMMA WorkerKeepsToItsBatch ==
    ASSUME TypeOK, NEW w \in Worker, BatchesAreNew, WorkerStep(w)
    PROVE  /\ \A v \in Worker \ {w} : pub'[v] = pub[v]
           /\ pub'[w].items \subseteq pub[w].items
           /\ Untouched(pub'[w]) \subseteq pub'[w].items \ Gone'
           /\ Gone' \subseteq Gone \cup pub[w].items
           /\ used' = used
<1> USE DEF durable, flags, retrier, history, bounds
<1> DEFINE Own == /\ \A v \in Worker \ {w} : pub'[v] = pub[v]
                  /\ pub'[w].items \subseteq pub[w].items
                  /\ Untouched(pub'[w]) \subseteq pub'[w].items \ Gone'
                  /\ Gone' \subseteq Gone \cup pub[w].items
                  /\ used' = used
<1>1. pub[w] \in Batch /\ pub \in [Worker -> Batch]
  BY DEF TypeOK
<1>2. Untouched(pub[w]) \subseteq pub[w].items \ Gone
  BY DEF BatchesAreNew
<1>3. CASE SendSucceeds(w) \/ SendFails(w) \/ NoteSent(w) \/ Judge(w) \/ Close(w) \/ Trip(w)
           \/ EnqueuedAll(w) \/ Count(w)
  <2>1. UNCHANGED <<row, dropped, accepted, used>>
    BY <1>3 DEF SendSucceeds, SendFails, NoteSent, Judge, Close, Trip, EnqueuedAll, Count
  <2>2. Gone' = Gone
    BY <2>1, SameRows DEF Gone
  <2>3. \A v \in Worker \ {w} : pub'[v] = pub[v]
    BY <1>1, <1>3 DEF SendSucceeds, SendFails, NoteSent, Judge, Close, Trip, EnqueuedAll, Count
  <2>4. \/ pub'[w].items = pub[w].items /\ Untouched(pub'[w]) \subseteq Untouched(pub[w])
        \/ pub'[w].items = {} /\ Untouched(pub'[w]) = {}
    <3>1. CASE SendSucceeds(w) \/ NoteSent(w) \/ Judge(w) \/ Close(w)
      <4>1. /\ pub'[w].pc \in {"sent", "judging", "closing", "committing"}
            /\ pub'[w].items = pub[w].items
        BY <1>1, <3>1 DEF SendSucceeds, NoteSent, Judge, Close, Batch
      <4> QED
        BY <4>1 DEF Untouched
    <3>2. CASE SendFails(w)
      <4>1. /\ pub[w].pc = "sending" /\ pub'[w].pc = "enqueueing"
            /\ pub'[w].items = pub[w].items /\ pub'[w].todo = pub[w].items
        BY <1>1, <3>2 DEF SendFails, At, Batch
      <4> QED
        BY <4>1 DEF Untouched
    <3>3. CASE Trip(w)
      <4>1. /\ pub[w].pc = "tripping" /\ pub'[w].pc = "enqueueing"
            /\ pub'[w].items = pub[w].items /\ pub'[w].todo = pub[w].todo
        BY <1>1, <3>3 DEF Trip, At, Batch
      <4> QED
        BY <4>1 DEF Untouched
    <3>4. CASE EnqueuedAll(w) \/ Count(w)
      <4>1. \/ pub'[w] = NoBatch
            \/ pub'[w].pc = "committing" /\ pub'[w].items = pub[w].items
        BY <1>1, <3>4 DEF EnqueuedAll, Count, Batch
      <4> QED
        BY <4>1 DEF Untouched, NoBatch
    <3> QED
      BY <1>3, <3>1, <3>2, <3>3, <3>4
  <2> QED
    BY <1>2, <2>1, <2>2, <2>3, <2>4
<1>4. ASSUME NEW m \in Msg, Enqueue(w, m) \/ EnqueueFails(w, m) PROVE Own
  <2>1. /\ pub[w].pc = "enqueueing" /\ m \in pub[w].todo
        /\ UNCHANGED <<dropped, accepted, used>>
    BY <1>4 DEF Enqueue, EnqueueFails, At
  <2>2. /\ pub'[w].items = pub[w].items /\ pub'[w].todo = pub[w].todo \ {m}
        /\ pub'[w].pc \in {"enqueueing", "tripping"}
        /\ \A v \in Worker \ {w} : pub'[v] = pub[v]
    <3>1. CASE Enqueue(w, m)
      BY <1>1, <2>1, <3>1 DEF Enqueue, Batch
    <3>2. CASE EnqueueFails(w, m)
      BY <1>1, <2>1, <3>2 DEF EnqueueFails, Batch
    <3> QED
      BY <1>4, <3>1, <3>2
  <2>3. Gone' \subseteq Gone \cup {m}
    <3>1. \/ UNCHANGED <<Stored, Buried>>
          \/ Stored' = Stored \cup {m} /\ Buried' = Buried \ {m}
      BY <1>4, InsertMoves, FailedInsertMoves DEF Enqueue
    <3> QED
      BY <2>1, <3>1 DEF Gone
  <2> QED
    BY <1>2, <2>1, <2>2, <2>3 DEF Untouched
<1>5. CASE Commit(w)
  <2>1. /\ UNCHANGED <<row, dropped, used>> /\ accepted' = accepted \cup pub[w].items
        /\ \A v \in Worker \ {w} : pub'[v] = pub[v]
        /\ pub'[w].pc = "counting" /\ pub'[w].items = pub[w].items
    BY <1>1, <1>5 DEF Commit, Batch
  <2>2. Gone' \subseteq Gone \cup pub[w].items
    BY <2>1, SameRows DEF Gone
  <2> QED
    BY <2>1, <2>2 DEF Untouched
<1> QED
  BY <1>3, <1>4, <1>5 DEF WorkerStep

\* The retrier only moves rows: it takes no message into the gateway's hands.
LEMMA RetrierMoves ==
    ASSUME TypeOK, RetrierOwnsRows, RetrierStep
    PROVE  /\ Gone' \subseteq Gone
           /\ UNCHANGED <<pub, used, accepted, dropped, up>>
<1> USE DEF durable, flags, retrier, history, bounds
<1>1. UNCHANGED <<pub, used, accepted, dropped, up>>
  BY DEF RetrierStep, Fetch, BatchSent, BatchFails, RetrierJudges, RetrierCloses, BreakOff,
         DeleteSent, RowSent, RowFailsForNow, RowFails
<1>2. CASE row' = row
  BY <1>1, <1>2, SameRows DEF Gone
<1>3. ASSUME NEW m \in Msg, NEW failure \in Failure, RowFails(m, failure)
      PROVE  Gone' \subseteq Gone
  <2>1. m \in Stored /\ row' \in {row, Charged(m)}
    BY <1>3, OldestArePart DEF RowFails, RetrierOwnsRows
  <2> QED
    BY <1>1, <1>2, <2>1, ChargeMoves DEF Gone
<1>4. CASE DeleteSent
  BY <1>1, <1>2, <1>4, DeleteMoves DEF DeleteSent, Gone
<1>5. CASE \/ Fetch \/ BatchSent \/ BatchFails \/ RetrierJudges \/ RetrierCloses \/ BreakOff
           \/ \E m \in Msg : \/ RowSent(m)
                             \/ \E failure \in Failure : RowFailsForNow(m, failure)
  BY <1>2, <1>5 DEF Fetch, BatchSent, BatchFails, RetrierJudges, RetrierCloses, BreakOff,
                    RowSent, RowFailsForNow
<1> QED
  BY <1>1, <1>3, <1>4, <1>5 DEF RetrierStep

\* A step keeps the batches apart, and new what they have not stored.
LEMMA BatchesStayNew ==
    ASSUME TypeOK, RetrierOwnsRows, BatchesAreNew, [Next]_vars
    PROVE  BatchesAreNew'
<1> USE DEF durable, flags, retrier, history, bounds
<1>1. CASE UNCHANGED <<pub, used>> /\ Gone' \subseteq Gone
  BY <1>1 DEF BatchesAreNew
<1>2. CASE BeginCycle \/ EndCycle \/ Stop \/ Boot \/ UNCHANGED vars
  <2>1. UNCHANGED <<pub, used, row, dropped, accepted>>
    BY <1>2 DEF BeginCycle, EndCycle, Stop, Boot, vars
  <2> QED
    BY <1>1, <2>1, SameRows DEF Gone
<1>3. ASSUME NEW ms \in SUBSET Msg, PruneDeadLetter(ms) PROVE BatchesAreNew'
  <2>1. Gone' \subseteq Gone
    BY <1>3, DeleteMoves DEF PruneDeadLetter, Gone
  <2> QED
    BY <1>1, <1>3, <2>1 DEF PruneDeadLetter
<1>4. ASSUME NEW w \in Worker, WorkerStep(w) PROVE BatchesAreNew'
  <2>1. /\ \A v \in Worker \ {w} : pub'[v] = pub[v]
        /\ pub'[w].items \subseteq pub[w].items
        /\ Untouched(pub'[w]) \subseteq pub'[w].items \ Gone'
        /\ Gone' \subseteq Gone \cup pub[w].items
        /\ used' = used
    BY <1>4, WorkerKeepsToItsBatch
  <2>2. \A v \in Worker : /\ pub'[v].items \subseteq pub[v].items
                          /\ Untouched(pub'[v]) \subseteq pub'[v].items \ Gone'
    BY <2>1 DEF BatchesAreNew
  <2> QED
    BY <2>1, <2>2 DEF BatchesAreNew
<1>5. ASSUME NEW w \in Worker, NEW items \in SUBSET Msg, StartPoll(w, items)
      PROVE  BatchesAreNew'
  <2>1. /\ pub'[w].pc = "sending" /\ pub'[w].items = items
        /\ \A v \in Worker \ {w} : pub'[v] = pub[v]
        /\ items \cap used = {} /\ used' = used \cup items
        /\ UNCHANGED <<row, dropped, accepted>>
    BY <1>5 DEF StartPoll, NoBatch, TypeOK
  <2>2. Gone' = Gone
    BY <2>1, SameRows DEF Gone
  <2>3. Untouched(pub'[w]) = items
    BY <2>1 DEF Untouched
  <2> QED
    BY <2>1, <2>2, <2>3 DEF BatchesAreNew
<1>6. CASE RetrierStep
  BY <1>1, <1>6, RetrierMoves
<1>7. ASSUME NEW m \in Msg, Due(m) PROVE BatchesAreNew'
  <2>1. Gone' = Gone
    BY <1>7, DueMovesNothing DEF Due, Gone
  <2> QED
    BY <1>1, <1>7, <2>1 DEF Due
<1>8. CASE Crash
  <2>1. \A w \in Worker : pub'[w] = NoBatch
    BY <1>8 DEF Crash
  <2>2. UNCHANGED <<used, row, dropped, accepted>>
    BY <1>8 DEF Crash
  <2>3. Gone' = Gone
    BY <2>2, SameRows DEF Gone
  <2> QED
    BY <2>1, <2>2, <2>3 DEF BatchesAreNew, Untouched, NoBatch
<1>9. CASE BootQuarantined
  <2>1. Stored' = {} /\ Buried' = {}
    BY <1>9 DEF BootQuarantined, Stored, Buried, NoRow
  <2>2. Gone' \subseteq Gone
    BY <1>9, <2>1 DEF BootQuarantined, Gone
  <2> QED
    BY <1>1, <1>9, <2>2 DEF BootQuarantined
<1> QED
  BY <1>2, <1>3, <1>4, <1>5, <1>6, <1>7, <1>8, <1>9 DEF Next

\* A step keeps the rows of the retrier's batch stored until they are handled.
LEMMA RetrierStillOwnsRows ==
    ASSUME TypeOK, RetrierOwnsRows, [Next]_vars
    PROVE  RetrierOwnsRows'
<1> USE DEF durable, flags, retrier, history, bounds
<1>1. CASE UNCHANGED <<rpc, left, sent, up>> /\ Stored \subseteq Stored'
  BY <1>1 DEF RetrierOwnsRows
<1>2. CASE BeginCycle \/ EndCycle \/ Stop \/ UNCHANGED vars
  <2>1. UNCHANGED <<rpc, left, sent, up, row>>
    BY <1>2 DEF BeginCycle, EndCycle, Stop, vars
  <2> QED
    BY <1>1, <2>1, SameRows
<1>3. ASSUME NEW ms \in SUBSET Msg, PruneDeadLetter(ms) PROVE RetrierOwnsRows'
  <2>1. Stored \subseteq Stored'
    BY <1>3, DeleteMoves DEF PruneDeadLetter, Stored, Buried
  <2> QED
    BY <1>1, <1>3, <2>1 DEF PruneDeadLetter
<1>4. ASSUME NEW w \in Worker, WorkerStep(w) PROVE RetrierOwnsRows'
  <2>1. ASSUME NEW m \in Msg, Enqueue(w, m) \/ EnqueueFails(w, m) PROVE RetrierOwnsRows'
    <3>1. UNCHANGED <<rpc, left, sent, up>>
      BY <2>1 DEF Enqueue, EnqueueFails
    <3>2. Stored \subseteq Stored'
      BY <2>1, InsertMoves, FailedInsertMoves DEF Enqueue
    <3> QED
      BY <1>1, <3>1, <3>2
  <2>2. CASE SendSucceeds(w) \/ SendFails(w) \/ NoteSent(w) \/ Judge(w) \/ Close(w)
             \/ Trip(w) \/ EnqueuedAll(w) \/ Commit(w) \/ Count(w)
    <3>1. UNCHANGED <<rpc, left, sent, up, row>>
      BY <2>2 DEF SendSucceeds, SendFails, NoteSent, Judge, Close, Trip, EnqueuedAll, Commit,
                  Count
    <3> QED
      BY <1>1, <3>1, SameRows
  <2> QED
    BY <1>4, <2>1, <2>2 DEF WorkerStep
<1>5. ASSUME NEW w \in Worker, NEW items \in SUBSET Msg, StartPoll(w, items)
      PROVE  RetrierOwnsRows'
  <2>1. UNCHANGED <<rpc, left, sent, up, row>>
    BY <1>5 DEF StartPoll
  <2> QED
    BY <1>1, <2>1, SameRows
<1>6. CASE RetrierStep
  <2> USE DEF RetrierOwnsRows, Retrying
  <2>1. CASE Fetch
    <3>1. left' \subseteq Stored
      BY <2>1, OldestArePart DEF Fetch, Ready
    <3>2. Stored' = Stored
      BY <2>1, SameRows DEF Fetch
    <3> QED
      BY <2>1, <3>1, <3>2 DEF Fetch
  <2>2. CASE BatchSent \/ BatchFails \/ RetrierJudges \/ RetrierCloses \/ BreakOff
    <3>1. row' = row
      BY <2>2 DEF BatchSent, BatchFails, RetrierJudges, RetrierCloses, BreakOff
    <3>2. Stored' = Stored
      BY <3>1, SameRows
    <3> QED
      BY <2>2, <3>2 DEF BatchSent, BatchFails, RetrierJudges, RetrierCloses, BreakOff, Onward
  <2>3. ASSUME NEW m \in Msg, RowSent(m) PROVE RetrierOwnsRows'
    <3>1. m \in left
      BY <2>3, OldestArePart DEF RowSent
    <3>2. Stored' = Stored
      BY <2>3, SameRows DEF RowSent
    <3> QED
      BY <2>3, <3>1, <3>2 DEF RowSent
  <2>4. ASSUME NEW m \in Msg, NEW failure \in Failure, RowFailsForNow(m, failure)
        PROVE  RetrierOwnsRows'
    <3>1. Stored' = Stored
      BY <2>4, SameRows DEF RowFailsForNow
    <3> QED
      BY <2>4, <3>1 DEF RowFailsForNow, Onward
  <2>5. ASSUME NEW m \in Msg, NEW failure \in Failure, RowFails(m, failure)
        PROVE  RetrierOwnsRows'
    <3>1. m \in left /\ m \in Stored /\ up' = up
      BY <2>5, OldestArePart DEF RowFails
    <3>2. CASE left' = {} /\ sent' = {} /\ rpc' = "fetch"
      BY <3>1, <3>2
    <3>3. CASE /\ row' = Charged(m) /\ left' = left \ {m} /\ sent' = sent
               /\ rpc' = Onward(left', sent)
      <4>1. Stored \ {m} \subseteq Stored'
        BY <3>1, <3>3, ChargeMoves
      <4>2. up
        BY <2>5 DEF RowFails
      <4> QED
        BY <3>1, <3>3, <4>1, <4>2 DEF Onward
    <3> QED
      BY <2>5, <3>2, <3>3 DEF RowFails
  <2>6. CASE DeleteSent
    BY <2>6 DEF DeleteSent
  <2> QED
    BY <1>6, <2>1, <2>2, <2>3, <2>4, <2>5, <2>6 DEF RetrierStep
<1>7. ASSUME NEW m \in Msg, Due(m) PROVE RetrierOwnsRows'
  BY <1>1, <1>7, DueMovesNothing DEF Due
<1>8. CASE Crash
  BY <1>8 DEF Crash, RetrierOwnsRows
<1>9. CASE Boot \/ BootQuarantined
  BY <1>9, SameRows DEF Boot, BootQuarantined, RetrierOwnsRows
<1> QED
  BY <1>2, <1>3, <1>4, <1>5, <1>6, <1>7, <1>8, <1>9 DEF Next

\* The batches are apart and new, and the retrier's rows its own, in every
\* reachable state: a message_id is new (poll_device), and only the retrier
\* deletes or buries a row (delete_many, move_to_dead_letter).
THEOREM HandsAreApart == Spec => [](BatchesAreNew /\ RetrierOwnsRows)
<1>1. Init => BatchesAreNew /\ RetrierOwnsRows
  BY DEF Init, BatchesAreNew, RetrierOwnsRows, Untouched, Gone, Stored, Buried, NoRow, NoBatch
<1>2. TypeOK /\ BatchesAreNew /\ RetrierOwnsRows /\ [Next]_vars
      => (BatchesAreNew /\ RetrierOwnsRows)'
  BY BatchesStayNew, RetrierStillOwnsRows
<1> QED
  BY <1>1, <1>2, TypeCorrect, PTL DEF Spec

\* A step of a worker is a step of the contract.
LEMMA WorkerKeepsContract ==
    ASSUME TypeOK, NEW w \in Worker, BatchIsSafe(w), BatchesAreNew, WorkerStep(w)
    PROVE  [Contract!Next]_(Contract!vars)
<1> USE DEF durable, flags, retrier, history, bounds
<1>1. pub[w] \in Batch
  BY DEF TypeOK
<1>2. CASE SendSucceeds(w) \/ SendFails(w)
  <2>1. PICK ms \in SUBSET Msg : delivered' = delivered \cup ms
    BY <1>1, <1>2 DEF SendSucceeds, SendFails, Batch
  <2>2. UNCHANGED <<Stored, Buried, accepted, dropped>>
    BY <1>2, SameRows DEF SendSucceeds, SendFails
  <2> QED
    BY <2>1, <2>2 DEF Contract!Next, Contract!Deliver
<1>3. CASE NoteSent(w) \/ Judge(w) \/ Close(w) \/ Trip(w) \/ EnqueuedAll(w) \/ Count(w)
  <2>1. UNCHANGED <<row, delivered, accepted, dropped>>
    BY <1>3 DEF NoteSent, Judge, Close, Trip, EnqueuedAll, Count
  <2> QED
    BY <2>1, SameRows DEF Contract!vars
<1>4. ASSUME NEW m \in Msg, Enqueue(w, m) \/ EnqueueFails(w, m)
      PROVE  [Contract!Next]_(Contract!vars)
  <2>1. /\ pub[w].pc = "enqueueing" /\ m \in pub[w].todo
        /\ UNCHANGED <<delivered, accepted, dropped>>
    BY <1>4 DEF Enqueue, EnqueueFails, At
  <2>2. m \notin Gone
    BY <2>1 DEF BatchesAreNew, Untouched
  <2>3. \/ UNCHANGED <<Stored, Buried>>
        \/ Stored' = Stored \cup {m} /\ Buried' = Buried \ {m}
    BY <1>4, InsertMoves, FailedInsertMoves DEF Enqueue
  <2>4. CASE UNCHANGED <<Stored, Buried>>
    BY <2>1, <2>4 DEF Contract!vars
  <2>5. CASE Stored' = Stored \cup {m} /\ Buried' = Buried \ {m}
    BY <2>1, <2>2, <2>5 DEF Gone, Contract!Next, Contract!Store
  <2> QED
    BY <2>3, <2>4, <2>5
<1>5. CASE Commit(w)
  <2>1. /\ pub[w].items \in SUBSET Msg /\ pub[w].items \subseteq Safe
        /\ accepted' = accepted \cup pub[w].items
    BY <1>1, <1>5 DEF Commit, At, BatchIsSafe, Batch
  <2>2. UNCHANGED <<Stored, Buried, delivered, dropped>>
    BY <1>5, SameRows DEF Commit
  <2> QED
    BY <2>1, <2>2 DEF Safe, Contract!Next, Contract!Accept
<1> QED
  BY <1>2, <1>3, <1>4, <1>5 DEF WorkerStep

\* A step of the retrier is a step of the contract.
LEMMA RetrierKeepsContract ==
    ASSUME TypeOK, SentIsDelivered, RetrierOwnsRows, RetrierStep
    PROVE  [Contract!Next]_(Contract!vars)
<1> USE DEF durable, flags, retrier, history, bounds
<1>1. UNCHANGED <<accepted, dropped>>
  BY RetrierMoves
<1>2. ASSUME NEW ms \in SUBSET Msg, delivered' = delivered \cup ms, UNCHANGED <<Stored, Buried>>
      PROVE  [Contract!Next]_(Contract!vars)
  BY <1>1, <1>2 DEF Contract!Next, Contract!Deliver
<1>3. CASE Fetch \/ RetrierJudges \/ RetrierCloses \/ BreakOff
  <2>1. UNCHANGED <<row, delivered>>
    BY <1>3 DEF Fetch, RetrierJudges, RetrierCloses, BreakOff
  <2> QED
    BY <1>1, <2>1, SameRows DEF Contract!vars
<1>4. CASE BatchSent \/ BatchFails
  <2>1. PICK ms \in SUBSET Msg : delivered' = delivered \cup ms
    BY <1>4 DEF BatchSent, BatchFails, TypeOK
  <2> QED
    BY <1>2, <1>4, <2>1, SameRows DEF BatchSent, BatchFails
<1>5. ASSUME NEW m \in Msg, RowSent(m) PROVE [Contract!Next]_(Contract!vars)
  BY <1>2, <1>5, SameRows DEF RowSent
<1>6. ASSUME NEW m \in Msg, NEW failure \in Failure, RowFailsForNow(m, failure)
      PROVE  [Contract!Next]_(Contract!vars)
  <2>1. PICK ms \in SUBSET Msg : delivered' = delivered \cup ms
    <3>1. delivered' = delivered \cup {} \/ delivered' = delivered \cup {m}
      BY <1>6 DEF RowFailsForNow, Reached
    <3> QED
      BY <3>1
  <2> QED
    BY <1>2, <1>6, <2>1, SameRows DEF RowFailsForNow
<1>7. ASSUME NEW m \in Msg, NEW failure \in Failure, RowFails(m, failure)
      PROVE  [Contract!Next]_(Contract!vars)
  <2>1. m \in Stored /\ (row' = row \/ row' = Charged(m))
    BY <1>7, OldestArePart DEF RowFails, RetrierOwnsRows
  <2>2. delivered' = delivered \cup {} \/ delivered' = delivered \cup {m}
    BY <1>7 DEF RowFails, Reached
  <2>3. CASE UNCHANGED <<Stored, Buried>>
    <3>1. PICK ms \in SUBSET Msg : delivered' = delivered \cup ms
      BY <2>2
    <3> QED
      BY <1>2, <2>3, <3>1
  <2>4. CASE Stored' = Stored \ {m} /\ Buried' = Buried \cup {m}
    BY <1>1, <2>1, <2>2, <2>4 DEF Contract!Next, Contract!Bury
  <2> QED
    BY <2>1, <2>3, <2>4, SameRows, ChargeMoves
<1>8. CASE DeleteSent
  <2>1. /\ sent \in SUBSET Msg /\ sent \subseteq Stored \cap delivered /\ delivered' = delivered
        /\ row' = row \/ row' = Deleted(sent)
    BY <1>8 DEF DeleteSent, RetrierOwnsRows, SentIsDelivered, TypeOK
  <2>2. CASE row' = row
    BY <1>1, <2>1, <2>2, SameRows DEF Contract!vars
  <2>3. CASE row' = Deleted(sent)
    <3>1. Stored' = Stored \ sent /\ Buried' = Buried
      BY <2>1, <2>3, DeleteMoves DEF Stored, Buried
    <3> QED
      BY <1>1, <2>1, <3>1 DEF Contract!Next, Contract!Settle
  <2> QED
    BY <2>1, <2>2, <2>3
<1> QED
  BY <1>3, <1>4, <1>5, <1>6, <1>7, <1>8 DEF RetrierStep

\* Every step of the telemetry plane is a step of the contract, or none.
LEMMA StepKeepsContract ==
    ASSUME TypeOK, SafetyInvariant, BatchesAreNew, RetrierOwnsRows, [Next]_vars
    PROVE  [Contract!Next]_(Contract!vars)
<1> USE DEF durable, flags, retrier, history, bounds
<1>1. CASE UNCHANGED <<row, delivered, accepted, dropped>>
  BY <1>1, SameRows DEF Contract!vars
<1>2. CASE BeginCycle \/ EndCycle \/ Stop \/ Crash \/ Boot \/ UNCHANGED vars
  BY <1>1, <1>2 DEF BeginCycle, EndCycle, Stop, Crash, Boot, vars
<1>3. ASSUME NEW ms \in SUBSET Msg, PruneDeadLetter(ms)
      PROVE  [Contract!Next]_(Contract!vars)
  <2>1. /\ ms \subseteq Buried /\ Stored' = Stored /\ Buried' = Buried \ ms
        /\ dropped' = dropped \cup ms /\ UNCHANGED <<delivered, accepted>>
    BY <1>3, DeleteMoves DEF PruneDeadLetter, Stored, Buried
  <2> QED
    BY <2>1 DEF Contract!Next, Contract!Forget
<1>4. ASSUME NEW w \in Worker, WorkerStep(w) PROVE [Contract!Next]_(Contract!vars)
  BY <1>4, WorkerKeepsContract DEF SafetyInvariant, BatchesAreSafe
<1>5. ASSUME NEW w \in Worker, NEW items \in SUBSET Msg, StartPoll(w, items)
      PROVE  [Contract!Next]_(Contract!vars)
  BY <1>1, <1>5 DEF StartPoll
<1>6. CASE RetrierStep
  BY <1>6, RetrierKeepsContract DEF SafetyInvariant, BatchesAreSafe
<1>7. ASSUME NEW m \in Msg, Due(m) PROVE [Contract!Next]_(Contract!vars)
  BY <1>7, DueMovesNothing DEF Due, Contract!vars
<1>8. CASE BootQuarantined
  <2>1. Stored' = {} /\ Buried' = {}
    BY <1>8 DEF BootQuarantined, Stored, Buried, NoRow
  <2> QED
    BY <1>8, <2>1 DEF BootQuarantined, Contract!Next, Contract!Lose
<1> QED
  BY <1>2, <1>3, <1>4, <1>5, <1>6, <1>7, <1>8 DEF Next

\* The telemetry plane implements its contract, whatever the number of workers
\* and messages and the limits: a message is accepted only in safe hands and
\* leaves the outbox only for the broker or the dead letters
\* (ResilientPublisher, OutboxRetrier, Outbox).
THEOREM PlaneKeepsContract == Spec => ContractSpec
<1>1. Init => Contract!Init
  BY DEF Init, Contract!Init, Stored, Buried, NoRow
<1>2. TypeOK /\ SafetyInvariant /\ (BatchesAreNew /\ RetrierOwnsRows) /\ [Next]_vars
      => [Contract!Next]_(Contract!vars)
  BY StepKeepsContract
<1> QED
  BY <1>1, <1>2, TypeCorrect, BatchesSafe, HandsAreApart, PTL DEF Spec, ContractSpec, Contract!Spec
-----------------------------------------------------------------------------
(* The outbox keeps its limit *)

\* Counting the rows that are there.
LEMMA StoredIsFinite == IsFiniteSet(Stored) /\ Cardinality(Stored) \in Nat
<1>1. Stored \subseteq Msg
  BY DEF Stored
<1> QED
  BY <1>1, OutboxAssumption, FS_Subset, FS_CardinalityType

\* The estimate and the limit as one invariant; the limit also holds while the
\* process is down.
CountInvariant == EstimateIsExact /\ OutboxBounded

\* Steps that neither touch the tables nor the estimate.
LEMMA SameCount ==
    ASSUME CountInvariant, Stored' = Stored, UNCHANGED <<estimate, faults>>, up' => up
    PROVE  CountInvariant'
<1> QED
  BY DEF CountInvariant, EstimateIsExact, OutboxBounded

\* What an insert adds and a delete takes away.
LEMMA CountWithOneMore ==
    ASSUME NEW m \in Msg, m \notin Stored, Stored' = Stored \cup {m}
    PROVE  Cardinality(Stored)' = Cardinality(Stored) + 1
<1> QED
  BY StoredIsFinite, FS_AddElement

LEMMA CountWithout ==
    ASSUME NEW ms \in SUBSET Stored, Stored' = Stored \ ms
    PROVE  /\ Cardinality(ms) \in Nat /\ Cardinality(ms) <= Cardinality(Stored)
           /\ Cardinality(Stored)' = Cardinality(Stored) - Cardinality(ms)
<1>1. IsFiniteSet(ms) /\ Cardinality(ms) \in Nat /\ Cardinality(ms) <= Cardinality(Stored)
  BY StoredIsFinite, FS_Subset, FS_CardinalityType
<1>2. Cardinality(Stored \ ms) = Cardinality(Stored) - Cardinality(Stored \cap ms)
  BY StoredIsFinite, FS_Difference
<1>3. Stored \cap ms = ms
  OBVIOUS
<1> QED
  BY <1>1, <1>2, <1>3

\* A step that counts an SQLite error voids the promise.
LEMMA ErrorsVoid ==
    ASSUME TypeOK, SqliteRaises
    PROVE  CountInvariant'
<1>1. faults' # 0
  BY DEF SqliteRaises, TypeOK
<1> QED
  BY <1>1 DEF CountInvariant, EstimateIsExact, OutboxBounded

\* A worker counts what it stores, under the lock under which it compares.
LEMMA WorkerCounts ==
    ASSUME TypeOK, BatchesAreNew, CountInvariant, NEW w \in Worker, WorkerStep(w)
    PROVE  CountInvariant'
<1> USE DEF durable, flags, retrier, history, bounds
<1>1. ASSUME NEW m \in Msg, Enqueue(w, m) PROVE CountInvariant'
  <2>1. /\ up /\ up' = up /\ faults' = faults
        /\ estimate < MaxPending /\ estimate' = estimate + 1
        /\ pub[w].pc = "enqueueing" /\ m \in pub[w].todo
    BY <1>1 DEF Enqueue, At
  <2>2. m \notin Stored
    BY <2>1 DEF BatchesAreNew, Untouched, Gone
  <2>3. Cardinality(Stored)' = Cardinality(Stored) + 1
    BY <1>1, <2>2, InsertMoves, CountWithOneMore DEF Enqueue
  <2>4. estimate \in Nat /\ MaxPending \in Nat
    BY OutboxAssumption DEF TypeOK
  <2> QED
    BY <2>1, <2>3, <2>4 DEF CountInvariant, EstimateIsExact, OutboxBounded
<1>2. ASSUME NEW m \in Msg, EnqueueFails(w, m) PROVE CountInvariant'
  <2>1. CASE SqliteRaises
    BY <2>1, ErrorsVoid
  <2>2. CASE ~SqliteRaises
    <3>1. UNCHANGED <<row, estimate, faults, up>>
      BY <1>2, <2>2 DEF EnqueueFails
    <3> QED
      BY <3>1, SameRows, SameCount
  <2> QED
    BY <2>1, <2>2
<1>3. CASE SendSucceeds(w) \/ SendFails(w) \/ NoteSent(w) \/ Judge(w) \/ Close(w)
           \/ Trip(w) \/ EnqueuedAll(w) \/ Commit(w) \/ Count(w)
  <2>1. UNCHANGED <<row, estimate, faults, up>>
    BY <1>3 DEF SendSucceeds, SendFails, NoteSent, Judge, Close, Trip, EnqueuedAll, Commit,
                Count
  <2> QED
    BY <2>1, SameRows, SameCount
<1> QED
  BY <1>1, <1>2, <1>3 DEF WorkerStep

\* The retrier subtracts what it takes out of the queue.
LEMMA RetrierCounts ==
    ASSUME TypeOK, RetrierOwnsRows, CountInvariant, RetrierStep
    PROVE  CountInvariant'
<1> USE DEF durable, flags, retrier, history, bounds
<1>1. ASSUME NEW m \in Msg, NEW failure \in Failure, RowFails(m, failure)
      PROVE  CountInvariant'
  <2>1. CASE SqliteRaises
    BY <2>1, ErrorsVoid
  <2>2. CASE ~SqliteRaises
    <3>1. /\ up /\ up' = up /\ faults' = faults /\ row' = Charged(m) /\ m \in Stored
          /\ estimate' = IF Exhausted(m) THEN Less(1) ELSE estimate
      BY <1>1, <2>2, OldestArePart DEF RowFails, Retrying, RetrierOwnsRows
    <3>2. CASE Exhausted(m)
      <4>1. Stored' = Stored \ {m}
        <5>1. \A k \in Msg \ {m} : row'[k] = row[k]
          BY <3>1, ChargedRow
        <5>2. row'[m].table = "dead_letter"
          BY <3>1, <3>2 DEF Charged, TypeOK, Row
        <5> QED
          BY <5>1, <5>2 DEF Stored
      <4>2. Cardinality({m}) = 1
        BY FS_Singleton
      <4>3. /\ Cardinality(Stored) \in Nat /\ 1 <= Cardinality(Stored)
            /\ Cardinality(Stored)' = Cardinality(Stored) - 1
        BY <3>1, <4>1, <4>2, StoredIsFinite, CountWithout
      <4>4. MaxPending \in Nat
        BY OutboxAssumption
      <4> QED
        BY <3>1, <3>2, <4>3, <4>4 DEF CountInvariant, EstimateIsExact, OutboxBounded, Less
    <3>3. CASE ~Exhausted(m)
      <4>1. Stored' = Stored
        <5>1. \A k \in Msg \ {m} : row'[k] = row[k]
          BY <3>1, ChargedRow
        <5>2. row'[m].table = "outbox"
          BY <3>1, <3>3, ChargedRow
        <5> QED
          BY <3>1, <5>1, <5>2 DEF Stored
      <4> QED
        BY <3>1, <3>3, <4>1, SameCount
    <3> QED
      BY <3>2, <3>3
  <2> QED
    BY <2>1, <2>2
<1>2. CASE DeleteSent
  <2>1. CASE SqliteRaises
    BY <2>1, ErrorsVoid
  <2>2. CASE ~SqliteRaises
    <3>1. /\ up /\ up' = up /\ faults' = faults /\ row' = Deleted(sent) /\ sent \subseteq Stored
          /\ estimate' = Less(Cardinality(sent))
      BY <1>2, <2>2 DEF DeleteSent, Retrying, RetrierOwnsRows
    <3>2. /\ Cardinality(sent) \in Nat /\ Cardinality(sent) <= Cardinality(Stored)
          /\ Cardinality(Stored)' = Cardinality(Stored) - Cardinality(sent)
      BY <3>1, DeleteMoves, CountWithout
    <3>3. MaxPending \in Nat /\ Cardinality(Stored) \in Nat
      BY OutboxAssumption, StoredIsFinite
    <3> QED
      BY <3>1, <3>2, <3>3 DEF CountInvariant, EstimateIsExact, OutboxBounded, Less
  <2> QED
    BY <2>1, <2>2
<1>3. CASE \/ Fetch \/ BatchSent \/ BatchFails \/ RetrierJudges \/ RetrierCloses \/ BreakOff
           \/ \E m \in Msg : \/ RowSent(m)
                             \/ \E failure \in Failure : RowFailsForNow(m, failure)
  <2>1. UNCHANGED <<row, estimate, faults, up>>
    BY <1>3 DEF Fetch, BatchSent, BatchFails, RetrierJudges, RetrierCloses, BreakOff, RowSent,
                RowFailsForNow
  <2> QED
    BY <2>1, SameRows, SameCount
<1> QED
  BY <1>1, <1>2, <1>3 DEF RetrierStep

\* The estimate and the number of rows in every reachable state.
THEOREM CountIsKept == Spec => []CountInvariant
<1>1. Init => CountInvariant
  <2> SUFFICES ASSUME Init PROVE CountInvariant
    OBVIOUS
  <2>1. Stored = {}
    BY DEF Init, Stored, NoRow
  <2>2. Cardinality(Stored) = 0 /\ MaxPending \in Nat
    BY <2>1, FS_EmptySet, OutboxAssumption
  <2> QED
    BY <2>2 DEF Init, CountInvariant, EstimateIsExact, OutboxBounded
<1>2. TypeOK /\ (BatchesAreNew /\ RetrierOwnsRows) /\ CountInvariant /\ [Next]_vars
      => CountInvariant'
  <2> SUFFICES ASSUME TypeOK, BatchesAreNew, RetrierOwnsRows, CountInvariant, [Next]_vars
               PROVE  CountInvariant'
    OBVIOUS
  <2> USE DEF durable, flags, retrier, history, bounds
  <2>1. CASE BeginCycle \/ EndCycle \/ Stop \/ Crash \/ UNCHANGED vars
    <3>1. UNCHANGED <<row, faults>> /\ (up' => up /\ estimate' = estimate)
      BY <2>1 DEF BeginCycle, EndCycle, Stop, Crash, vars
    <3> QED
      BY <3>1, SameRows DEF CountInvariant, EstimateIsExact, OutboxBounded
  <2>2. ASSUME NEW ms \in SUBSET Msg, PruneDeadLetter(ms) PROVE CountInvariant'
    <3>1. Stored' = Stored
      BY <2>2, DeleteMoves DEF PruneDeadLetter, Stored, Buried
    <3> QED
      BY <2>2, <3>1, SameCount DEF PruneDeadLetter
  <2>3. ASSUME NEW w \in Worker, WorkerStep(w) PROVE CountInvariant'
    BY <2>3, WorkerCounts
  <2>4. ASSUME NEW w \in Worker, NEW items \in SUBSET Msg, StartPoll(w, items)
        PROVE  CountInvariant'
    BY <2>4, SameRows, SameCount DEF StartPoll
  <2>5. CASE RetrierStep
    BY <2>5, RetrierCounts
  <2>6. ASSUME NEW m \in Msg, Due(m) PROVE CountInvariant'
    BY <2>6, DueMovesNothing, SameCount DEF Due
  <2>7. CASE Boot
    <3>1. CASE SqliteRaises
      BY <3>1, ErrorsVoid
    <3>2. CASE ~SqliteRaises
      <4>1. estimate' = Cardinality(Stored) /\ faults' = faults /\ row' = row
        BY <2>7, <3>2 DEF Boot
      <4>2. Stored' = Stored
        BY <4>1, SameRows
      <4> QED
        BY <4>1, <4>2 DEF CountInvariant, EstimateIsExact, OutboxBounded
    <3> QED
      BY <3>1, <3>2
  <2>8. CASE BootQuarantined
    <3>1. Stored' = {}
      BY <2>8 DEF BootQuarantined, Stored, NoRow
    <3>2. Cardinality(Stored)' = 0 /\ MaxPending \in Nat
      BY <3>1, FS_EmptySet, OutboxAssumption
    <3> QED
      BY <2>8, <3>2 DEF BootQuarantined, CountInvariant, EstimateIsExact, OutboxBounded
  <2> QED
    BY <2>1, <2>2, <2>3, <2>4, <2>5, <2>6, <2>7, <2>8 DEF Next
<1> QED
  BY <1>1, <1>2, TypeCorrect, HandsAreApart, PTL DEF Spec

\* The estimate that guards the limit and the breaker is the number of rows,
\* restarts included, until SQLite raises (Outbox.enqueue, delete_many,
\* move_to_dead_letter, __init__).
THEOREM EstimateStaysExact == Spec => []EstimateIsExact
<1>1. CountInvariant => EstimateIsExact
  BY DEF CountInvariant
<1> QED
  BY <1>1, CountIsKept, PTL

\* The outbox keeps its limit, however many workers store at once, until SQLite
\* raises (Outbox.enqueue compares and inserts under one lock).
THEOREM LimitIsKept == Spec => []OutboxBounded
<1>1. CountInvariant => OutboxBounded
  BY DEF CountInvariant
<1> QED
  BY <1>1, CountIsKept, PTL

-----------------------------------------------------------------------------
(* The outbox is a queue, and the retrier always knows what to do next *)

\* One step is at most one statement on the tables.
InsertsNew == \E m \in Msg \ (Stored \cup Buried) :
                 row' = Inserted(m) /\ nextId' = nextId + 1

ChargesOne == \E m \in Stored : row' = Charged(m) /\ nextId' = nextId

DeletesSome == \E ms \in SUBSET Msg : row' = Deleted(ms) /\ nextId' = nextId

DuesOne == \E m \in Stored : row' = [row EXCEPT ![m].deferred = FALSE] /\ nextId' = nextId

ForgetsAll == row' = [m \in Msg |-> NoRow] /\ nextId' = 1

LEMMA StatementsOfSteps ==
    ASSUME TypeOK, BatchesAreNew, RetrierOwnsRows, [Next]_vars
    PROVE  \/ UNCHANGED <<row, nextId>>
           \/ InsertsNew \/ ChargesOne \/ DeletesSome \/ DuesOne \/ ForgetsAll
<1> USE DEF durable, flags, retrier, history, bounds
<1>1. CASE BeginCycle \/ EndCycle \/ Stop \/ Crash \/ Boot \/ UNCHANGED vars
  BY <1>1 DEF BeginCycle, EndCycle, Stop, Crash, Boot, vars
<1>2. CASE BootQuarantined
  BY <1>2 DEF BootQuarantined, ForgetsAll
<1>3. CASE \E ms \in SUBSET Msg : PruneDeadLetter(ms)
  BY <1>3 DEF PruneDeadLetter, DeletesSome
<1>4. CASE \E w \in Worker, items \in SUBSET Msg : StartPoll(w, items)
  BY <1>4 DEF StartPoll
<1>5. ASSUME NEW w \in Worker, WorkerStep(w)
      PROVE  UNCHANGED <<row, nextId>> \/ InsertsNew
  <2>1. ASSUME NEW m \in Msg, Enqueue(w, m) \/ EnqueueFails(w, m)
        PROVE  UNCHANGED <<row, nextId>> \/ InsertsNew
    <3>1. pub[w].pc = "enqueueing" /\ m \in pub[w].todo
      BY <2>1 DEF Enqueue, EnqueueFails, At
    <3>2. m \notin Stored \cup Buried
      BY <3>1 DEF BatchesAreNew, Untouched, Gone
    <3> QED
      BY <2>1, <3>2 DEF Enqueue, EnqueueFails, InsertsNew
  <2>2. CASE SendSucceeds(w) \/ SendFails(w) \/ NoteSent(w) \/ Judge(w) \/ Close(w)
             \/ Trip(w) \/ EnqueuedAll(w) \/ Commit(w) \/ Count(w)
    BY <2>2 DEF SendSucceeds, SendFails, NoteSent, Judge, Close, Trip, EnqueuedAll, Commit,
                Count
  <2> QED
    BY <1>5, <2>1, <2>2 DEF WorkerStep
<1>6. CASE RetrierStep
  <2>1. ASSUME NEW m \in Msg, NEW failure \in Failure, RowFails(m, failure)
        PROVE  UNCHANGED <<row, nextId>> \/ ChargesOne
    <3>1. m \in Stored
      BY <2>1, OldestArePart DEF RowFails, RetrierOwnsRows
    <3> QED
      BY <2>1, <3>1 DEF RowFails, ChargesOne
  <2>2. CASE DeleteSent
    BY <2>2 DEF DeleteSent, DeletesSome, TypeOK
  <2>3. CASE \/ Fetch \/ BatchSent \/ BatchFails \/ RetrierJudges \/ RetrierCloses \/ BreakOff
             \/ \E m \in Msg : \/ RowSent(m)
                               \/ \E failure \in Failure : RowFailsForNow(m, failure)
    BY <2>3 DEF Fetch, BatchSent, BatchFails, RetrierJudges, RetrierCloses, BreakOff, RowSent,
                RowFailsForNow
  <2> QED
    BY <1>6, <2>1, <2>2, <2>3 DEF RetrierStep
<1>7. CASE \E m \in Msg : Due(m)
  BY <1>7 DEF Due, DuesOne, Stored
<1> QED
  BY <1>1, <1>2, <1>3, <1>4, <1>5, <1>6, <1>7 DEF Next

\* Rows are numbered in the order they were stored (AUTOINCREMENT), a waiting
\* row can be charged once more, a dead letter has had its last charge.
QueueInvariant ==
    /\ \A m \in Stored \cup Buried : row[m].id < nextId
    /\ \A m, k \in Stored \cup Buried : row[m].id = row[k].id => m = k
    /\ \A m \in Stored : row[m].retries < MaxRetries
    /\ \A m \in Buried : row[m].retries + 1 = MaxRetries

\* The rows before a row: it is tried when they are gone or deferred.
Ahead(m) == {k \in Stored : row[k].id < row[m].id}

\* What a step may do to the rows that stay: nobody comes to stand before a
\* row, and a row is charged one failure at a time.
QueueStep(m) ==
    m \in Stored /\ m \in Stored'
       => /\ Ahead(m)' \subseteq Ahead(m)
          /\ row'[m].retries \in {row[m].retries, row[m].retries + 1}

\* Statements that keep the number of every row they leave.
LEMMA QuietStatements ==
    ASSUME TypeOK, QueueInvariant, nextId' = nextId,
           Stored' \subseteq Stored, Stored' \cup Buried' \subseteq Stored \cup Buried,
           \A m \in Stored' \cup Buried' : row'[m].id = row[m].id,
           \A m \in Stored' : /\ row'[m].retries \in {row[m].retries, row[m].retries + 1}
                              /\ row'[m].retries < MaxRetries,
           \A m \in Buried' : row'[m].retries + 1 = MaxRetries
    PROVE  QueueInvariant' /\ \A m \in Msg : QueueStep(m)
<1>1. QueueInvariant'
  BY DEF QueueInvariant
<1>2. \A m \in Msg : QueueStep(m)
  BY DEF QueueStep, Ahead
<1> QED
  BY <1>1, <1>2

\* A new row gets a number beyond all others.
LEMMA InsertKeepsQueue ==
    ASSUME TypeOK, QueueInvariant, InsertsNew
    PROVE  QueueInvariant' /\ \A m \in Msg : QueueStep(m)
<1>1. PICK m \in Msg \ (Stored \cup Buried) : row' = Inserted(m) /\ nextId' = nextId + 1
  BY DEF InsertsNew
<1>2. Stored' = Stored \cup {m} /\ Buried' = Buried
  BY <1>1, InsertMoves
<1>3. /\ row'[m].id = nextId /\ row'[m].retries = 0
      /\ \A k \in Msg \ {m} : row'[k] = row[k]
  BY <1>1 DEF Inserted, NoRow, TypeOK
<1>4. /\ nextId \in Nat /\ MaxRetries \in Nat \ {0}
      /\ \A k \in Msg : row[k].id \in Nat /\ row[k].retries \in Nat
      /\ Stored \subseteq Msg /\ Buried \subseteq Msg
  BY OutboxAssumption DEF TypeOK, Row, Stored, Buried
<1>5. QueueInvariant'
  BY <1>1, <1>2, <1>3, <1>4 DEF QueueInvariant
<1>6. ASSUME NEW k \in Stored PROVE QueueStep(k)
  <2>1. row'[k] = row[k] /\ row[k].id < nextId
    BY <1>1, <1>3, <1>4, <1>6 DEF QueueInvariant
  <2>2. Ahead(k)' \subseteq Ahead(k)
    BY <1>1, <1>2, <1>3, <1>4, <2>1 DEF Ahead
  <2> QED
    BY <2>1, <2>2 DEF QueueStep
<1>7. \A k \in Msg : QueueStep(k)
  BY <1>6 DEF QueueStep
<1> QED
  BY <1>5, <1>7

\* A failed attempt is charged, or it was the last.
LEMMA ChargeKeepsQueue ==
    ASSUME TypeOK, QueueInvariant, ChargesOne
    PROVE  QueueInvariant' /\ \A m \in Msg : QueueStep(m)
<1>1. PICK m \in Stored : row' = Charged(m) /\ nextId' = nextId
  BY DEF ChargesOne
<1>2. m \in Msg /\ row[m] \in Row /\ row \in [Msg -> Row] /\ MaxRetries \in Nat
  BY OutboxAssumption DEF Stored, TypeOK
<1>3. /\ row[m].id \in Nat /\ row[m].retries \in Nat /\ row[m].retries < MaxRetries
  BY <1>1, <1>2 DEF Row, QueueInvariant
<1>4. \A k \in Msg \ {m} : row'[k] = row[k]
  BY <1>1, <1>2, ChargedRow
<1>5. CASE Exhausted(m)
  <2>1. /\ row'[m].table = "dead_letter" /\ row'[m].id = row[m].id
        /\ row'[m].retries = row[m].retries
    BY <1>1, <1>2, <1>5 DEF Charged, Row
  <2>2. Stored' = Stored \ {m} /\ Buried' = Buried \cup {m}
    BY <1>2, <1>4, <2>1 DEF Stored, Buried
  <2>3. row'[m].retries + 1 = MaxRetries
    BY <1>2, <1>3, <1>5, <2>1 DEF Exhausted
  <2>4. /\ \A k \in Stored' : row'[k] = row[k]
        /\ \A k \in Buried' : k # m => row'[k] = row[k]
    BY <1>4, <2>2 DEF Stored, Buried
  <2> QED
    BY <1>1, <2>1, <2>2, <2>3, <2>4, QuietStatements DEF QueueInvariant
<1>6. CASE ~Exhausted(m)
  <2>1. /\ row'[m].table = "outbox" /\ row'[m].id = row[m].id
        /\ row'[m].retries = row[m].retries + 1
    BY <1>1, <1>2, <1>6 DEF Charged
  <2>2. Stored' = Stored /\ Buried' = Buried
    BY <1>1, <1>2, <1>4, <2>1 DEF Stored, Buried
  <2>3. row'[m].retries < MaxRetries
    BY <1>2, <1>3, <1>6, <2>1 DEF Exhausted
  <2>4. \A k \in Stored' \cup Buried' : k # m => row'[k] = row[k]
    BY <1>4, <2>2 DEF Stored, Buried
  <2>5. m \notin Buried'
    BY <2>1 DEF Buried
  <2> QED
    BY <1>1, <2>1, <2>2, <2>3, <2>4, <2>5, QuietStatements DEF QueueInvariant
<1> QED
  BY <1>5, <1>6

\* Any step.
LEMMA StepKeepsQueue ==
    ASSUME TypeOK, BatchesAreNew, RetrierOwnsRows, QueueInvariant, [Next]_vars
    PROVE  QueueInvariant' /\ \A m \in Msg : QueueStep(m)
<1>1. CASE UNCHANGED <<row, nextId>>
  <2>1. Stored' = Stored /\ Buried' = Buried
    BY <1>1, SameRows
  <2> QED
    BY <1>1, <2>1, QuietStatements DEF QueueInvariant
<1>2. CASE DeletesSome
  <2>1. PICK ms \in SUBSET Msg : row' = Deleted(ms) /\ nextId' = nextId
    BY <1>2 DEF DeletesSome
  <2>2. Stored' = Stored \ ms /\ Buried' = Buried \ ms
    BY <2>1, DeleteMoves
  <2>3. \A m \in Stored' \cup Buried' : row'[m] = row[m]
    BY <2>1, <2>2 DEF Deleted, Stored, Buried
  <2> QED
    BY <2>1, <2>2, <2>3, QuietStatements DEF QueueInvariant
<1>3. CASE DuesOne
  <2>1. PICK m \in Stored : row' = [row EXCEPT ![m].deferred = FALSE] /\ nextId' = nextId
    BY <1>3 DEF DuesOne
  <2>2. \A k \in Msg : /\ row'[k].table = row[k].table /\ row'[k].id = row[k].id
                       /\ row'[k].retries = row[k].retries
    BY <2>1 DEF TypeOK, Row
  <2>3. Stored' = Stored /\ Buried' = Buried
    BY <2>2 DEF Stored, Buried
  <2>4. Stored \cup Buried \subseteq Msg
    BY DEF Stored, Buried
  <2> QED
    BY <2>1, <2>2, <2>3, <2>4, QuietStatements DEF QueueInvariant
<1>4. CASE ForgetsAll
  <2>1. Stored' = {} /\ Buried' = {}
    BY <1>4 DEF ForgetsAll, Stored, Buried, NoRow
  <2> QED
    BY <2>1 DEF QueueInvariant, QueueStep
<1> QED
  BY <1>1, <1>2, <1>3, <1>4, InsertKeepsQueue, ChargeKeepsQueue, StatementsOfSteps

NobodyJumpsTheQueue == [][\A m \in Msg : QueueStep(m)]_vars

\* No row is ever overtaken, whatever the workers store while the retrier is at
\* work: the rows before a waiting row only become fewer, and each of them is
\* charged one failure at a time and leaves at the latest with the MaxRetries-th
\* (next theorem). This is the part of EveryRowLeaves that is not fairness
\* (Outbox.fetch_batch, ORDER BY id; mark_retry).
THEOREM NoRowIsOvertaken == Spec => NobodyJumpsTheQueue
<1>1. Init => QueueInvariant
  BY DEF Init, QueueInvariant, Stored, Buried, NoRow
<1>2. TypeOK /\ (BatchesAreNew /\ RetrierOwnsRows) /\ QueueInvariant /\ [Next]_vars
      => QueueInvariant' /\ [\A m \in Msg : QueueStep(m)]_vars
  BY StepKeepsQueue
<1> QED
  BY <1>1, <1>2, TypeCorrect, HandsAreApart, PTL DEF Spec, NobodyJumpsTheQueue

\* The rows of the two tables are numbered apart, a row that waits has not used
\* up its attempts, and a dead letter has used up exactly all of them
\* (OutboxRetrier._drain_batch, move_to_dead_letter).
THEOREM QueueIsKept == Spec => []QueueInvariant
<1>1. Init => QueueInvariant
  BY DEF Init, QueueInvariant, Stored, Buried, NoRow
<1>2. TypeOK /\ (BatchesAreNew /\ RetrierOwnsRows) /\ QueueInvariant /\ [Next]_vars
      => QueueInvariant'
  BY StepKeepsQueue
<1> QED
  BY <1>1, <1>2, TypeCorrect, HandsAreApart, PTL DEF Spec

\* There is an oldest row among any rows.
LEMMA OldestExists ==
    ASSUME TypeOK, NEW ms \in SUBSET Msg, ms # {}
    PROVE  \E m \in ms : {k \in ms : row[k].id < row[m].id} = {}
<1> DEFINE Before(m) == {k \in ms : row[k].id < row[m].id}
           Sets == {Before(m) : m \in ms}
<1>1. IsFiniteSet(ms)
  BY OutboxAssumption, FS_Subset
<1>2. \A m \in ms : Before(m) \subseteq ms /\ IsFiniteSet(Before(m))
  BY <1>1, FS_Subset
<1>3. Sets \subseteq FiniteSubsetsOf(ms) /\ Sets # {}
  BY <1>2 DEF FiniteSubsetsOf
<1>4. PICK X \in Sets : \A Y \in Sets : ~(<<Y, X>> \in StrictSubsetOrdering(ms))
  BY <1>3, FS_StrictSubsetOrderingWellFounded, WFMin
<1>5. PICK m \in ms : X = Before(m)
  OBVIOUS
<1>6. ASSUME NEW k \in Before(m) PROVE FALSE
  <2>1. \A j \in ms : row[j].id \in Nat
    BY DEF TypeOK, Row
  <2>2. k \in ms /\ row[k].id < row[m].id
    OBVIOUS
  <2>3. Before(k) \subseteq Before(m)
    BY <2>1, <2>2
  <2>4. k \notin Before(k)
    BY <2>1
  <2>5. Before(k) \in Sets
    BY <2>2
  <2>6. <<Before(k), X>> \in StrictSubsetOrdering(ms)
    BY <1>2, <1>5, <2>2, <2>3, <2>4 DEF StrictSubsetOrdering
  <2> QED
    BY <1>4, <2>5, <2>6
<1> QED
  BY <1>6

\* fetch_batch finds a row when there is one.
LEMMA OldestFound ==
    ASSUME TypeOK, NEW ms \in SUBSET Msg, ms # {}, NEW n \in Nat \ {0}
    PROVE  Oldest(ms, n) # {}
<1>1. PICK m \in ms : {k \in ms : row[k].id < row[m].id} = {}
  BY OldestExists
<1>2. Cardinality({k \in ms : row[k].id < row[m].id}) = 0
  BY <1>1, FS_EmptySet
<1>3. m \in Oldest(ms, n)
  BY <1>2 DEF Oldest
<1> QED
  BY <1>3

\* The row to try next is one, and only one.
LEMMA OldestIsOne ==
    ASSUME TypeOK, QueueInvariant, NEW ms \in SUBSET Stored, ms # {}
    PROVE  \E m \in ms : Oldest(ms, 1) = {m}
<1>1. ms \in SUBSET Msg /\ \A m \in ms : row[m].id \in Nat
  BY DEF Stored, TypeOK, Row
<1>2. PICK m \in Oldest(ms, 1) : m \in ms
  BY <1>1, OldestFound, OldestArePart
<1>3. ASSUME NEW k \in Oldest(ms, 1)
      PROVE  \A j \in ms : ~(row[j].id < row[k].id)
  <2> DEFINE Before == {j \in ms : row[j].id < row[k].id}
  <2>1. Before \in SUBSET Msg /\ IsFiniteSet(Before)
    BY <1>1, OutboxAssumption, FS_Subset
  <2>2. Cardinality(Before) < 1 /\ Cardinality(Before) \in Nat
    BY <2>1, CountIsNat DEF Oldest
  <2>3. Cardinality(Before) = 0
    BY <2>2
  <2>4. Before = {}
    BY <2>1, <2>3, FS_EmptySet
  <2> QED
    BY <2>4
<1>4. ASSUME NEW k \in Oldest(ms, 1)
      PROVE  k = m
  <2>1. k \in ms
    BY OldestArePart
  <2>2. row[k].id = row[m].id
    BY <1>1, <1>2, <1>3, <2>1
  <2> QED
    BY <1>2, <2>1, <2>2 DEF QueueInvariant
<1> QED
  BY <1>2, <1>4

\* The retrier's step has something to work on.
RetrierHasWork ==
    /\ rpc \in {"batch", "rows"} => left # {}
    /\ rpc = "delete" => sent # {}

LEMMA RetrierKeepsWork ==
    ASSUME TypeOK, RetrierHasWork, [Next]_vars
    PROVE  RetrierHasWork'
<1> USE DEF durable, flags, retrier, history, bounds
<1>1. CASE UNCHANGED <<rpc, left, sent>>
  BY <1>1 DEF RetrierHasWork
<1>2. CASE BeginCycle \/ EndCycle \/ Stop \/ Boot \/ BootQuarantined \/ UNCHANGED vars
  BY <1>1, <1>2 DEF BeginCycle, EndCycle, Stop, Boot, BootQuarantined, vars
<1>3. CASE Crash
  BY <1>3 DEF Crash, RetrierHasWork
<1>4. ASSUME NEW ms \in SUBSET Msg, PruneDeadLetter(ms) PROVE RetrierHasWork'
  BY <1>1, <1>4 DEF PruneDeadLetter
<1>5. ASSUME NEW w \in Worker, NEW items \in SUBSET Msg, StartPoll(w, items)
      PROVE  RetrierHasWork'
  BY <1>1, <1>5 DEF StartPoll
<1>6. ASSUME NEW m \in Msg, Due(m) PROVE RetrierHasWork'
  BY <1>1, <1>6 DEF Due
<1>7. ASSUME NEW w \in Worker, WorkerStep(w) PROVE RetrierHasWork'
  <2>1. CASE \E m \in Msg : Enqueue(w, m) \/ EnqueueFails(w, m)
    <3>1. UNCHANGED <<rpc, left, sent>>
      BY <2>1 DEF Enqueue, EnqueueFails
    <3> QED
      BY <1>1, <3>1
  <2>2. CASE SendSucceeds(w) \/ SendFails(w) \/ NoteSent(w) \/ Judge(w) \/ Close(w)
             \/ Trip(w) \/ EnqueuedAll(w) \/ Commit(w) \/ Count(w)
    <3>1. UNCHANGED <<rpc, left, sent>>
      BY <2>2 DEF SendSucceeds, SendFails, NoteSent, Judge, Close, Trip, EnqueuedAll, Commit,
                  Count
    <3> QED
      BY <1>1, <3>1
  <2> QED
    BY <1>7, <2>1, <2>2 DEF WorkerStep
<1>8. CASE RetrierStep
  <2>1. CASE Fetch
    BY <2>1 DEF Fetch, RetrierHasWork
  <2>2. CASE BatchSent \/ RetrierJudges \/ RetrierCloses \/ BreakOff
    BY <2>2 DEF BatchSent, RetrierJudges, RetrierCloses, BreakOff, Onward, RetrierHasWork
  <2>3. CASE BatchFails
    BY <2>3 DEF BatchFails, Retrying, RetrierHasWork
  <2>4. CASE DeleteSent
    BY <2>4 DEF DeleteSent, RetrierHasWork
  <2>5. ASSUME NEW m \in Msg, RowSent(m) PROVE RetrierHasWork'
    BY <2>5 DEF RowSent, RetrierHasWork
  <2>6. ASSUME NEW m \in Msg, NEW failure \in Failure,
               RowFailsForNow(m, failure) \/ RowFails(m, failure)
        PROVE  RetrierHasWork'
    <3>1. \/ rpc' = "fetch"
          \/ rpc' = Onward(left', sent) /\ sent' = sent
      BY <2>6 DEF RowFailsForNow, RowFails
    <3> QED
      BY <3>1 DEF Onward, RetrierHasWork
  <2> QED
    BY <1>8, <2>1, <2>2, <2>3, <2>4, <2>5, <2>6 DEF RetrierStep
<1> QED
  BY <1>2, <1>3, <1>4, <1>5, <1>6, <1>7, <1>8 DEF Next

RetrierCanGoOn ==
    /\ rpc = "fetch" /\ Ready # {} => Oldest(Ready, BatchSize) # {}
    /\ rpc = "batch" => left # {}
    /\ rpc = "rows" => \E m \in left \cap Stored : Oldest(left, 1) = {m}
    /\ rpc = "delete" => sent # {}

\* The retrier never runs dry: while a row is ready it fetches one, in the
\* middle of a batch there is exactly one row to try next and it is still in the
\* outbox, and it deletes only what was sent. No insert, failing call or restart
\* in between leaves it waiting for nothing (OutboxRetrier._drain_batch).
THEOREM RetrierGoesOn == Spec => []RetrierCanGoOn
<1>1. Init => RetrierHasWork
  BY DEF Init, RetrierHasWork
<1>2. TypeOK /\ RetrierHasWork /\ [Next]_vars => RetrierHasWork'
  BY RetrierKeepsWork
<1>3. TypeOK /\ (BatchesAreNew /\ RetrierOwnsRows) /\ QueueInvariant /\ RetrierHasWork
      => RetrierCanGoOn
  <2> SUFFICES ASSUME TypeOK, RetrierOwnsRows, QueueInvariant, RetrierHasWork
               PROVE  RetrierCanGoOn
    OBVIOUS
  <2>1. Ready \in SUBSET Msg /\ BatchSize \in Nat \ {0}
    BY OutboxAssumption DEF Ready, Stored
  <2>2. Ready # {} => Oldest(Ready, BatchSize) # {}
    BY <2>1, OldestFound
  <2>3. ASSUME rpc = "rows" PROVE \E m \in left \cap Stored : Oldest(left, 1) = {m}
    <3>1. left \in SUBSET Stored /\ left # {}
      BY <2>3 DEF RetrierOwnsRows, RetrierHasWork
    <3> QED
      BY <3>1, OldestIsOne
  <2> QED
    BY <2>2, <2>3 DEF RetrierCanGoOn, RetrierHasWork
<1> QED
  BY <1>1, <1>2, <1>3, TypeCorrect, HandsAreApart, QueueIsKept, PTL DEF Spec

=============================================================================
