-------------------------- MODULE TelemetryOutbox --------------------------
(***************************************************************************)
(* The telemetry plane of the gateway behind the DNP3 cache: how a message *)
(* that a poll produced reaches the broker at least once.                  *)
(*                                                                         *)
(* Actors of the process:                                                  *)
(*   - the main loop, which begins and ends poll cycles                    *)
(*     (poller.run_poll_cycle) and stops the others at shutdown;           *)
(*   - the poll workers: publish a batch, store it in the outbox when that *)
(*     fails, commit it, count it (poller.poll_device,                     *)
(*     ResilientPublisher.publish_batch);                                  *)
(*   - the retrier thread, which drains the outbox (OutboxRetrier).        *)
(* They share the outbox (an SQLite file), its in-memory row estimate, the *)
(* outbox-full breaker and the last_batch_outboxed flag; every lock region *)
(* and every broker call is a step.  The broker is external: any call may  *)
(* fail, after it has taken any part of what it was given.                 *)
(*                                                                         *)
(* A message is one item of one batch; its message_id is new, so a reading *)
(* that could not be published is another message in the next cycle.       *)
(***************************************************************************)
EXTENDS Integers, FiniteSets

CONSTANTS
    Msg,            \* messages, by message_id
    Worker,         \* threads of the poll pool
    MaxPending,     \* Outbox.max_pending
    ResumeAt,       \* int(max_pending * _OUTBOX_RESUME_RATIO)
    BatchSize,      \* outbox_retrier_batch_size
    MaxRetries,     \* outbox_max_retries
    HttpPath,       \* a call fails with the error of the HTTP publisher
                    \* (remote or http mode), not with that of NATS (local)
    MaxCrashes,     \* bound on process deaths (model only)
    MaxFaults,      \* bound on SQLite calls that raise (model only)
    MaxResets       \* bound on quarantined outbox files (model only)

ASSUME OutboxAssumption ==
    /\ IsFiniteSet(Msg)
    /\ {MaxPending, BatchSize, MaxRetries} \subseteq Nat \ {0}
    /\ ResumeAt \in 0 .. MaxPending
    /\ HttpPath \in BOOLEAN
    /\ {MaxCrashes, MaxFaults, MaxResets} \subseteq Nat

VARIABLES
    \* durable
    row,            \* Msg -> its row in the tables outbox and outbox_dead_letter
    nextId,         \* AUTOINCREMENT
    \* the process
    up, stop,       \* started; stop_event is set
    estimate,       \* Outbox._pending_estimate
    full,           \* ResilientPublisher._outbox_full, the breaker
    lastOutboxed,   \* ResilientPublisher._last_batch_outboxed
    cycle,          \* a poll cycle may start polls
    pub,            \* Worker -> the batch it publishes
    rpc,            \* the retrier's next step
    left,           \* rows of its batch not tried yet
    sent,           \* rows of its batch to be deleted
    \* the world
    delivered,      \* messages the broker has taken
    \* history
    used,           \* messages some poll produced
    accepted,       \* messages whose batch was committed as published
    counted,        \* messages counted in signals_published_total
    refusals,       \* Msg -> times the broker refused the row (up to MaxRetries)
    dropped,        \* rows in a quarantined file, pruned dead letters
    \* bounds
    crashes, faults, resets

durable  == <<row, nextId>>
flags    == <<full, lastOutboxed>>
retrier  == <<rpc, left, sent>>
history  == <<used, accepted, counted, refusals, dropped>>
bounds   == <<crashes, faults, resets>>
vars == <<row, nextId, up, stop, estimate, full, lastOutboxed, cycle, pub, rpc, left, sent,
          delivered, used, accepted, counted, refusals, dropped, crashes, faults, resets>>

Row == [table    : {"none", "outbox", "dead_letter"},
        id       : Nat,
        retries  : Nat,      \* retry_count
        deferred : BOOLEAN]  \* next_attempt_at lies ahead

NoRow == [table |-> "none", id |-> 0, retries |-> 0, deferred |-> FALSE]

Batch == [pc    : {"idle", "sending", "sent", "judging", "closing", "enqueueing",
                   "tripping", "committing", "counting"},
          items : SUBSET Msg,
          todo  : SUBSET Msg,   \* items not enqueued yet
          fatal : BOOLEAN]      \* an item could not be enqueued

NoBatch == [pc |-> "idle", items |-> {}, todo |-> {}, fatal |-> FALSE]

TypeOK ==
    /\ row \in [Msg -> Row] /\ nextId \in Nat
    /\ up \in BOOLEAN /\ stop \in BOOLEAN
    /\ estimate \in Nat
    /\ full \in BOOLEAN /\ lastOutboxed \in BOOLEAN /\ cycle \in BOOLEAN
    /\ pub \in [Worker -> Batch]
    /\ rpc \in {"fetch", "batch", "rows", "judging", "closing", "delete"}
    /\ left \subseteq Msg /\ sent \subseteq Msg
    /\ delivered \subseteq Msg /\ used \subseteq Msg /\ accepted \subseteq Msg
    /\ counted \subseteq Msg /\ dropped \subseteq Msg
    /\ refusals \in [Msg -> Nat]
    /\ crashes \in Nat /\ faults \in Nat /\ resets \in Nat

Init ==
    /\ row = [m \in Msg |-> NoRow] /\ nextId = 1
    /\ up = TRUE /\ stop = FALSE
    /\ estimate = 0
    /\ full = FALSE /\ lastOutboxed = FALSE /\ cycle = FALSE
    /\ pub = [w \in Worker |-> NoBatch]
    /\ rpc = "fetch" /\ left = {} /\ sent = {}
    /\ delivered = {} /\ used = {} /\ accepted = {} /\ counted = {} /\ dropped = {}
    /\ refusals = [m \in Msg |-> 0]
    /\ crashes = 0 /\ faults = 0 /\ resets = 0

-----------------------------------------------------------------------------
(* Helpers *)

Stored == {m \in Msg : row[m].table = "outbox"}

Buried == {m \in Msg : row[m].table = "dead_letter"}

\* fetch_batch: rows that are not deferred, oldest first.
Ready == {m \in Stored : ~row[m].deferred}

Oldest(ms, n) == {m \in ms : Cardinality({k \in ms : row[k].id < row[m].id}) < n}

\* max(0, estimate - n).
Less(n) == IF n < estimate THEN estimate - n ELSE 0

\* An SQLite call raises: before its statement took effect or, when the COMMIT
\* fails, with the statement left in the open transaction that the next COMMIT
\* includes. The estimate is not adjusted either way.
SqliteRaises == faults < MaxFaults /\ faults' = faults + 1

Inserted(m) ==
    [row EXCEPT ![m] = [NoRow EXCEPT !.table = "outbox", !.id = nextId]]

Deleted(ms) == [m \in Msg |-> IF m \in ms THEN NoRow ELSE row[m]]

\* The breaker closes only below the low-water mark. This is decided outside
\* the lock under which it is then closed (_clear_outbox_full).
MayClose == full /\ estimate <= ResumeAt

-----------------------------------------------------------------------------
(* The main loop *)

\* run_poll_cycle: no cycle begins while the breaker is open.
BeginCycle ==
    /\ up /\ ~stop /\ ~cycle
    /\ ~full
    /\ cycle' = TRUE
    /\ UNCHANGED <<durable, up, stop, estimate, flags, pub, retrier, delivered, history, bounds>>

\* Every device was polled, or the cycle ran into its timeout: polls that have
\* begun go on, the others are cancelled.
EndCycle ==
    /\ up /\ cycle
    /\ cycle' = FALSE
    /\ UNCHANGED <<durable, up, stop, estimate, flags, pub, retrier, delivered, history, bounds>>

\* stop_event and retrier.stop. The process is to exit.
Stop ==
    /\ up /\ ~stop
    /\ crashes < MaxCrashes
    /\ stop' = TRUE
    /\ cycle' = FALSE
    /\ UNCHANGED <<durable, up, estimate, flags, pub, retrier, delivered, history, bounds>>

\* prune_dead_letter: the oldest, by age or beyond the row limit.
PruneDeadLetter(ms) ==
    /\ up
    /\ ms # {} /\ ms \subseteq Buried
    /\ row' = Deleted(ms)
    /\ dropped' = dropped \cup ms
    /\ UNCHANGED <<nextId, up, stop, estimate, flags, cycle, pub, retrier, delivered, used,
                   accepted, counted, refusals, bounds>>

-----------------------------------------------------------------------------
(* The poll workers *)

At(w, pc) == up /\ pub[w].pc = pc

\* poll_device: a poll of the current cycle has something to publish.
StartPoll(w, items) ==
    /\ At(w, "idle") /\ cycle
    /\ items # {} /\ items \cap used = {}
    /\ used' = used \cup items
    /\ pub' = [pub EXCEPT ![w] = [NoBatch EXCEPT !.pc = "sending", !.items = items]]
    /\ UNCHANGED <<durable, up, stop, estimate, flags, cycle, retrier, delivered, accepted,
                   counted, refusals, dropped, bounds>>

SendSucceeds(w) ==
    /\ At(w, "sending")
    /\ delivered' = delivered \cup pub[w].items
    /\ pub' = [pub EXCEPT ![w].pc = "sent"]
    /\ UNCHANGED <<durable, up, stop, estimate, flags, cycle, retrier, history, bounds>>

\* JetStream takes a batch message by message; the response of an HTTP POST
\* may be lost. Either way the whole batch counts as failed.
SendFails(w) ==
    /\ At(w, "sending")
    /\ \E part \in SUBSET pub[w].items : delivered' = delivered \cup part
    /\ pub' = [pub EXCEPT ![w].pc = "enqueueing", ![w].todo = pub[w].items]
    /\ UNCHANGED <<durable, up, stop, estimate, flags, cycle, retrier, history, bounds>>

NoteSent(w) ==
    /\ At(w, "sent")
    /\ lastOutboxed' = FALSE
    /\ pub' = [pub EXCEPT ![w].pc = "judging"]
    /\ UNCHANGED <<durable, up, stop, estimate, full, cycle, retrier, delivered, history, bounds>>

Judge(w) ==
    /\ At(w, "judging")
    /\ pub' = [pub EXCEPT ![w].pc = IF MayClose THEN "closing" ELSE "committing"]
    /\ UNCHANGED <<durable, up, stop, estimate, flags, cycle, retrier, delivered, history, bounds>>

Close(w) ==
    /\ At(w, "closing")
    /\ full' = FALSE
    /\ pub' = [pub EXCEPT ![w].pc = "committing"]
    /\ UNCHANGED <<durable, up, stop, estimate, lastOutboxed, cycle, retrier, delivered,
                   history, bounds>>

\* A mistake: the limit is compared after the row is counted.
EnqueueBeyondLimit(w, m) ==
    /\ At(w, "enqueueing") /\ m \in pub[w].todo
    /\ estimate <= MaxPending
    /\ row' = Inserted(m)
    /\ nextId' = nextId + 1
    /\ estimate' = estimate + 1
    /\ pub' = [pub EXCEPT ![w].todo = @ \ {m}]
    /\ UNCHANGED <<up, stop, flags, cycle, retrier, delivered, history, bounds>>

\* Outbox.enqueue: the limit is compared and the row inserted and counted
\* under one lock.
Enqueue(w, m) ==
    /\ At(w, "enqueueing") /\ m \in pub[w].todo
    /\ estimate < MaxPending
    /\ row' = Inserted(m)
    /\ nextId' = nextId + 1
    /\ estimate' = estimate + 1
    /\ pub' = [pub EXCEPT ![w].todo = @ \ {m}]
    /\ UNCHANGED <<up, stop, flags, cycle, retrier, delivered, history, bounds>>

\* The outbox is full, or SQLite raises. The other items of the batch are
\* tried all the same; only the first failure trips the breaker.
EnqueueFails(w, m) ==
    /\ At(w, "enqueueing") /\ m \in pub[w].todo
    /\ \/ /\ estimate >= MaxPending
          /\ UNCHANGED <<durable, faults>>
       \/ /\ estimate < MaxPending
          /\ SqliteRaises
          /\ \/ UNCHANGED durable
             \/ row' = Inserted(m) /\ nextId' = nextId + 1
    /\ pub' = [pub EXCEPT ![w].todo = @ \ {m},
                          ![w].pc = IF pub[w].fatal THEN @ ELSE "tripping",
                          ![w].fatal = TRUE]
    /\ UNCHANGED <<up, stop, estimate, flags, cycle, retrier, delivered, history, crashes, resets>>

\* _set_outbox_full.
Trip(w) ==
    /\ At(w, "tripping")
    /\ full' = TRUE
    /\ pub' = [pub EXCEPT ![w].pc = "enqueueing"]
    /\ UNCHANGED <<durable, up, stop, estimate, lastOutboxed, cycle, retrier, delivered,
                   history, bounds>>

\* The whole batch is stored; or publish_batch raises, and the poll ends
\* without a commit: its readings stay dirty.
EnqueuedAll(w) ==
    /\ At(w, "enqueueing") /\ pub[w].todo = {}
    /\ IF pub[w].fatal
         THEN pub' = [pub EXCEPT ![w] = NoBatch] /\ UNCHANGED lastOutboxed
         ELSE pub' = [pub EXCEPT ![w].pc = "committing"] /\ lastOutboxed' = TRUE
    /\ UNCHANGED <<durable, up, stop, estimate, full, cycle, retrier, delivered, history, bounds>>

\* _commit_published: the cache may forget that these readings changed.
Commit(w) ==
    /\ At(w, "committing")
    /\ accepted' = accepted \cup pub[w].items
    /\ pub' = [pub EXCEPT ![w].pc = "counting"]
    /\ UNCHANGED <<durable, up, stop, estimate, flags, cycle, retrier, delivered, used, counted,
                   refusals, dropped, bounds>>

\* poll_device: whether the batch was published or stored is read from the
\* publisher, which all workers share.
Count(w) ==
    /\ At(w, "counting")
    /\ counted' = IF lastOutboxed THEN counted ELSE counted \cup pub[w].items
    /\ pub' = [pub EXCEPT ![w] = NoBatch]
    /\ UNCHANGED <<durable, up, stop, estimate, flags, cycle, retrier, delivered, used, accepted,
                   refusals, dropped, bounds>>

-----------------------------------------------------------------------------
(* The retrier *)

Retrying(pc) == up /\ rpc = pc

\* What is left to do with the batch after a row or the breaker was handled.
Onward(rows, done) ==
    IF rows # {} THEN "rows" ELSE IF done # {} THEN "delete" ELSE "fetch"

\* A mistake: an empty queue is not reported to the publisher.
FetchWithoutNotice ==
    /\ Retrying("fetch") /\ ~stop
    /\ left' = Oldest(Ready, BatchSize)
    /\ rpc' = IF left' = {} THEN "fetch"
              ELSE IF Cardinality(left') > 1 THEN "batch"
              ELSE "rows"
    /\ UNCHANGED <<durable, up, stop, estimate, flags, cycle, pub, sent, delivered, history,
                   bounds>>

\* fetch_batch. When nothing is ready, notify_outbox_idle judges the breaker.
Fetch ==
    /\ Retrying("fetch") /\ ~stop
    /\ left' = Oldest(Ready, BatchSize)
    /\ rpc' = IF left' = {} THEN "judging"
              ELSE IF Cardinality(left') > 1 THEN "batch"
              ELSE "rows"
    /\ UNCHANGED <<durable, up, stop, estimate, flags, cycle, pub, sent, delivered, history,
                   bounds>>

\* publish_outbox_rows: the batch in one call.
BatchSent ==
    /\ Retrying("batch")
    /\ delivered' = delivered \cup left
    /\ sent' = left /\ left' = {}
    /\ rpc' = "judging"
    /\ UNCHANGED <<durable, up, stop, estimate, flags, cycle, pub, history, bounds>>

\* A mistake: the rows of a failed batch are deleted with the others.
BatchFailsButDeleted ==
    /\ Retrying("batch")
    /\ \E part \in SUBSET left : delivered' = delivered \cup part
    /\ sent' = left
    /\ rpc' = "rows"
    /\ UNCHANGED <<durable, up, stop, estimate, flags, cycle, pub, left, history, bounds>>

\* Whatever the error, the rows are then tried one by one.
BatchFails ==
    /\ Retrying("batch")
    /\ \E part \in SUBSET left : delivered' = delivered \cup part
    /\ rpc' = "rows"
    /\ UNCHANGED <<durable, up, stop, estimate, flags, cycle, pub, left, sent, history, bounds>>

\* The retrier judges and closes the breaker like a worker.
RetrierJudges ==
    /\ Retrying("judging")
    /\ rpc' = IF MayClose THEN "closing" ELSE Onward(left, sent)
    /\ UNCHANGED <<durable, up, stop, estimate, flags, cycle, pub, left, sent, delivered,
                   history, bounds>>

RetrierCloses ==
    /\ Retrying("closing")
    /\ full' = FALSE
    /\ rpc' = Onward(left, sent)
    /\ UNCHANGED <<durable, up, stop, estimate, lastOutboxed, cycle, pub, left, sent, delivered,
                   history, bounds>>

\* publish_outbox_row.
RowSent(m) ==
    /\ Retrying("rows") /\ ~stop
    /\ m \in Oldest(left, 1)
    /\ delivered' = delivered \cup {m}
    /\ sent' = sent \cup {m} /\ left' = left \ {m}
    /\ rpc' = "judging"
    /\ UNCHANGED <<durable, up, stop, estimate, flags, cycle, pub, history, bounds>>

\* How sending a row fails: the broker cannot be reached or is not ready (it
\* may have the message, when its answer was lost), or it refuses the message.
Failure == {"unreachable", "refused"}

\* A mistake: every failure is counted.
NothingIsTransient(failure) == FALSE

\* errors.is_transient: the HTTP publisher says which of its errors are
\* (HttpTelemetryNotReadyError); those of NATS (JetStreamPublishError and
\* JetStreamNotReadyError) carry neither a transient flag nor a status.
IsTransient(failure) == failure = "unreachable" /\ HttpPath

Reached(m, failure) ==
    \/ UNCHANGED delivered
    \/ failure = "unreachable" /\ delivered' = delivered \cup {m}

\* History: how often a row was refused, as far as it matters.
CountRefusal(m, failure) ==
    refusals' = [refusals EXCEPT ![m] =
                    IF failure = "refused" /\ @ < MaxRetries THEN @ + 1 ELSE @]

\* A temporary failure ends the batch; the row is not charged with it.
RowFailsForNow(m, failure) ==
    /\ Retrying("rows") /\ ~stop
    /\ m \in Oldest(left, 1)
    /\ IsTransient(failure)
    /\ Reached(m, failure)
    /\ CountRefusal(m, failure)
    /\ left' = {}
    /\ rpc' = Onward({}, sent)
    /\ UNCHANGED <<durable, up, stop, estimate, flags, cycle, pub, sent, used, accepted, counted,
                   dropped, bounds>>

\* mark_retry, or move_to_dead_letter when the row has failed often enough.
Exhausted(m) == row[m].retries + 1 >= MaxRetries

\* A mistake: the attempt is not counted.
ChargedWithoutCounting(m) == [row EXCEPT ![m].deferred = TRUE]

Charged(m) ==
    IF Exhausted(m)
      THEN [row EXCEPT ![m].table = "dead_letter"]
      ELSE [row EXCEPT ![m] = [table |-> "outbox", id |-> row[m].id,
                               retries |-> row[m].retries + 1, deferred |-> TRUE]]

\* A mistake: a dead letter is still counted as pending.
RowFailsUncounted(m, failure) ==
    /\ Retrying("rows") /\ ~stop
    /\ m \in Oldest(left, 1)
    /\ ~IsTransient(failure)
    /\ Reached(m, failure)
    /\ CountRefusal(m, failure)
    /\ row' = Charged(m)
    /\ left' = left \ {m}
    /\ rpc' = Onward(left', sent)
    /\ UNCHANGED <<nextId, up, stop, estimate, flags, cycle, pub, sent, used, accepted, counted,
                   dropped, bounds>>

\* Any other failure is charged to the row, and the batch goes on. When SQLite
\* raises, the batch is given up without deleting what was sent.
RowFails(m, failure) ==
    /\ Retrying("rows") /\ ~stop
    /\ m \in Oldest(left, 1)
    /\ ~IsTransient(failure)
    /\ Reached(m, failure)
    /\ CountRefusal(m, failure)
    /\ \/ /\ row' = Charged(m)
          /\ estimate' = IF Exhausted(m) THEN Less(1) ELSE estimate
          /\ left' = left \ {m}
          /\ rpc' = Onward(left', sent)
          /\ UNCHANGED <<sent, faults>>
       \/ /\ SqliteRaises
          /\ row' \in {row, Charged(m)}
          /\ left' = {} /\ sent' = {}
          /\ rpc' = "fetch"
          /\ UNCHANGED estimate
    /\ UNCHANGED <<nextId, up, stop, flags, cycle, pub, used, accepted, counted, dropped,
                   crashes, resets>>

\* _drain_batch sees stop_event between two rows.
BreakOff ==
    /\ Retrying("rows") /\ stop
    /\ left' = {}
    /\ rpc' = Onward({}, sent)
    /\ UNCHANGED <<durable, up, stop, estimate, flags, cycle, pub, sent, delivered, history,
                   bounds>>

\* A mistake: the queue is emptied, rows that were not sent included.
DeleteAll ==
    /\ Retrying("delete")
    /\ row' = Deleted(Stored)
    /\ estimate' = Less(Cardinality(Stored))
    /\ sent' = {}
    /\ rpc' = "fetch"
    /\ UNCHANGED <<nextId, up, stop, flags, cycle, pub, left, delivered, history, bounds>>

\* delete_many, in one transaction.
DeleteSent ==
    /\ Retrying("delete")
    /\ \/ /\ row' = Deleted(sent)
          /\ estimate' = Less(Cardinality(sent))
          /\ UNCHANGED faults
       \/ /\ SqliteRaises
          /\ row' \in {row, Deleted(sent)}
          /\ UNCHANGED estimate
    /\ sent' = {}
    /\ rpc' = "fetch"
    /\ UNCHANGED <<nextId, up, stop, flags, cycle, pub, left, delivered, history, crashes,
                   resets>>

\* next_attempt_at passes.
Due(m) ==
    /\ row[m].table = "outbox" /\ row[m].deferred
    /\ row' = [row EXCEPT ![m].deferred = FALSE]
    /\ UNCHANGED <<nextId, up, stop, estimate, flags, cycle, pub, retrier, delivered, history,
                   bounds>>

-----------------------------------------------------------------------------
(* The process *)

\* Death, or the end of a shutdown: only the file is left.
Crash ==
    /\ up
    /\ crashes < MaxCrashes
    /\ crashes' = crashes + 1
    /\ up' = FALSE /\ stop' = FALSE
    /\ estimate' = 0
    /\ full' = FALSE /\ lastOutboxed' = FALSE /\ cycle' = FALSE
    /\ pub' = [w \in Worker |-> NoBatch]
    /\ rpc' = "fetch" /\ left' = {} /\ sent' = {}
    /\ UNCHANGED <<durable, delivered, history, faults, resets>>

\* Outbox.__init__ counts the rows (and takes 0 when that raises).
Boot ==
    /\ ~up
    /\ up' = TRUE
    /\ \/ estimate' = Cardinality(Stored) /\ UNCHANGED faults
       \/ estimate' = 0 /\ SqliteRaises
    /\ UNCHANGED <<durable, stop, flags, cycle, pub, retrier, delivered, history, crashes,
                   resets>>

\* open_versioned_db finds the file corrupt and starts a new one.
BootQuarantined ==
    /\ ~up
    /\ resets < MaxResets
    /\ resets' = resets + 1
    /\ up' = TRUE
    /\ estimate' = 0
    /\ row' = [m \in Msg |-> NoRow] /\ nextId' = 1
    /\ dropped' = dropped \cup Stored \cup Buried
    /\ UNCHANGED <<stop, flags, cycle, pub, retrier, delivered, used, accepted, counted,
                   refusals, crashes, faults>>

-----------------------------------------------------------------------------

WorkerStep(w) ==
    \/ SendSucceeds(w) \/ SendFails(w)
    \/ NoteSent(w) \/ Judge(w) \/ Close(w)
    \/ \E m \in Msg : Enqueue(w, m) \/ EnqueueFails(w, m)
    \/ Trip(w) \/ EnqueuedAll(w)
    \/ Commit(w) \/ Count(w)

RetrierStep ==
    \/ Fetch
    \/ BatchSent \/ BatchFails
    \/ RetrierJudges \/ RetrierCloses
    \/ \E m \in Msg : \/ RowSent(m)
                      \/ \E failure \in Failure : RowFailsForNow(m, failure)
                                                  \/ RowFails(m, failure)
    \/ BreakOff
    \/ DeleteSent

Next ==
    \/ BeginCycle \/ EndCycle \/ Stop
    \/ \E ms \in SUBSET Msg : PruneDeadLetter(ms)
    \/ \E w \in Worker : WorkerStep(w) \/ (\E items \in SUBSET Msg : StartPoll(w, items))
    \/ RetrierStep
    \/ \E m \in Msg : Due(m)
    \/ Crash \/ Boot \/ BootQuarantined

Spec == Init /\ [][Next]_vars

\* The threads keep running (the retrier's loop survives any exception, every
\* broker call has a timeout), time passes, a stopped process exits and is
\* started again, and the broker is not down for good: a row that is tried
\* again and again is either taken in the end or refused each time.
Fairness ==
    /\ \A w \in Worker : WF_vars(WorkerStep(w))
    /\ WF_vars(RetrierStep)
    /\ \A m \in Msg : WF_vars(Due(m))
    /\ SF_vars(\E m \in Msg : RowSent(m) \/ RowFails(m, "refused"))
    /\ WF_vars(Crash /\ stop)
    /\ WF_vars(Boot)

FairSpec == Spec /\ Fairness

-----------------------------------------------------------------------------
(* Properties *)

\* Where a message can be without being lost by the gateway.
Safe == delivered \cup Stored \cup Buried \cup dropped

\* A reading whose change flag was cleared (_commit_published) is at the broker,
\* in the outbox or in the dead letters, unless its file was found corrupt or
\* the retention of the dead letters is over: no mix of partial deliveries,
\* failing inserts and deletes, a full outbox and restarts loses it.
NothingLost == accepted \subseteq Safe

\* The estimate that guards the limit and the breaker is the number of rows, as
\* long as SQLite has not raised.
EstimateIsExact == up /\ faults = 0 => estimate = Cardinality(Stored)

\* The outbox never outgrows its limit, however many workers fill it at once.
OutboxBounded == faults = 0 => Cardinality(Stored) <= MaxPending

\* A message becomes a dead letter only when the broker refused it the full
\* number of times; an outage alone never gets it there (outbox.py, guarantees
\* in its header; jetstream_publisher.JetStreamNotReadyError).
BuriedWasRefused == \A m \in Buried : refusals[m] >= MaxRetries

\* Liveness: a stored message is delivered, refused for good, or its file lost.
EveryRowLeaves == \A m \in Msg : m \in Stored ~> m \notin Stored

\* Liveness: an open breaker closes, also when the outbox was emptied without
\* a successful send and nobody publishes while it is open (notify_outbox_idle).
BreakerCloses == full ~> ~full

-----------------------------------------------------------------------------
(* Why nothing is lost: the inductive invariants *)

\* A batch is safe from the moment its call or its last insert succeeded, and
\* item by item while it is being stored without a failure.
BatchIsSafe(w) ==
    /\ pub[w].pc \in {"sent", "judging", "closing", "committing"} => pub[w].items \subseteq Safe
    /\ pub[w].pc = "enqueueing" /\ ~pub[w].fatal => pub[w].items \subseteq pub[w].todo \cup Safe
    /\ pub[w].pc = "tripping" => pub[w].fatal

\* What the retrier is about to delete is delivered.
SentIsDelivered == sent \subseteq delivered

BatchesAreSafe == SentIsDelivered /\ \A w \in Worker : BatchIsSafe(w)

SafetyInvariant == BatchesAreSafe /\ NothingLost

\* Over the HTTP path a row has been charged at most as often as refused.
RefusalInvariant ==
    HttpPath => /\ \A m \in Msg : row[m].retries <= refusals[m]
                /\ BuriedWasRefused

-----------------------------------------------------------------------------
(* Refinement *)

Contract == INSTANCE TelemetryContract WITH stored <- Stored, buried <- Buried

\* The telemetry plane implements its contract.
ContractSpec == Contract!Spec

=============================================================================
