-------------------------- MODULE CommandDelivery --------------------------
(***************************************************************************)
(* The command plane of the gateway: how a physical command (a DNP3 CROB)  *)
(* reaches a device at most once and how its result reaches the backend at *)
(* least once.                                                             *)
(*                                                                         *)
(* Three actors of the process share the journal (CommandLedger):          *)
(*   - the command-poll thread, main._run_command_poll: send ACKs, GET     *)
(*     /pending, queue, look up and reserve, execute, record, send ACKs,   *)
(*     deliver results;                                                    *)
(*   - the HTTP handlers of POST /operate, health_server._handle_operate;  *)
(*   - start-up and the periodic maintenance of the main thread.             *)
(* Every journal call of the code is a step of its own, so the actors      *)
(* interleave between them, the process may die between them, and a call   *)
(* may raise.  A turn handles its commands in any order (the code: in the  *)
(* order of the queue).  Commands carry created_at (the default            *)
(* COMMAND_REQUIRE_TIMESTAMP=true), so a stale one is rejected.            *)
(* The backend and the network are external: the backend may offer any     *)
(* command at any time, a request or its response may be lost.             *)
(***************************************************************************)
EXTENDS CommandLedger, FiniteSets, FiniteSetsExt

CONSTANTS
    Id,             \* command ids
    NoId,
    Handler,        \* HTTP threads that may serve /operate
    OldBackend,     \* the backend still sends commands with the config
    MaxSeen,        \* state.MAX_SEEN_COMMAND_IDS
    AckBatch,       \* main._COMMAND_ACK_BATCH
    ResultBatch,    \* main._COMMAND_RESULT_BATCH
    MaxCrashes,     \* bound on process deaths (model only)
    MaxFaults,      \* bound on journal calls that raise (model only)
    MaxResets       \* bound on quarantined journals (model only)

ASSUME DeliveryAssumption ==
    /\ IsFiniteSet(Id)
    /\ NoId \notin Id
    /\ OldBackend \in BOOLEAN
    /\ {MaxSeen, AckBatch, ResultBatch} \subseteq Nat \ {0}
    /\ {MaxCrashes, MaxFaults, MaxResets} \subseteq Nat

VARIABLES
    \* durable
    ledger,         \* Id -> Row
    \* the process
    up,             \* start-up is complete
    queue,          \* GatewayState._pending_commands
    seen,           \* GatewayState._seen_command_ids
    pc,             \* the poll thread's next step
    taken,          \* commands of this turn not looked up yet
    missed,         \* the command kayitli_jeton has just not found
    fresh,          \* ids reserved in this turn, not executed yet
    results,        \* Id -> result of this turn, not recorded yet
    op,             \* Handler -> the /operate request it serves
    \* the backend and the world
    lease,          \* Id -> delivery token of the backend's current lease
    accepted,       \* ids whose delivery ACK the backend accepted
    reported,       \* Id -> results the backend received
    expired,        \* ids older than COMMAND_MAX_AGE_SEC
    \* what happened since the journal in use was created (history)
    crobs,          \* Id -> CROBs sent
    verdict,        \* Id -> what the device made of the last CROB
    refused,        \* ids in a result POST that the backend refused for good
    pruned,         \* ids whose row the maintenance deleted
    \* bounds
    crashes, faults, resets

durable  == <<ledger>>
stateVars == <<queue, seen>>
pollVars == <<pc, taken, missed, fresh, results>>
backendVars == <<lease, accepted, reported, expired>>
history  == <<crobs, verdict, refused, pruned>>
bounds   == <<crashes, faults, resets>>
vars == <<ledger, up, queue, seen, pc, taken, missed, fresh, results, op, lease,
          accepted, reported, expired, crobs, verdict, refused, pruned, crashes,
          faults, resets>>

Command == [id : Id, token : Token \cup {NoToken}]

Reply == {"none", "ok", "not_ok", "pending", "unavailable"}

RequestFields == [pc     : {"idle", "operating", "recording", "answering", "replied"},
                  id     : Id \cup {NoId},
                  result : Outcome \cup {"none"},
                  reply  : Reply]

Request == {req \in RequestFields :
               /\ req.pc = "idle" <=> req.id = NoId
               /\ req.pc = "recording" => req.result # "none"}

NoRequest == [pc |-> "idle", id |-> NoId, result |-> "none", reply |-> "none"]

NoResults == [id \in Id |-> "none"]

TypeOK ==
    /\ ledger \in [Id -> Row]
    /\ up \in BOOLEAN
    /\ queue \subseteq Command
    /\ seen \subseteq Id
    /\ pc \in {"acks", "fetch", "take", "dispatch", "execute", "record", "acks_again", "deliver"}
    /\ taken \subseteq Command
    /\ missed \subseteq Command
    /\ fresh \subseteq Id
    /\ results \in [Id -> Outcome \cup {"none"}]
    /\ op \in [Handler -> Request]
    /\ lease \in [Id -> Token \cup {NoToken}]
    /\ accepted \subseteq Id
    /\ reported \in [Id -> SUBSET Result]
    /\ expired \subseteq Id
    /\ crobs \in [Id -> Nat]
    /\ verdict \in [Id -> {"none", "ok", "failed"}]
    /\ refused \subseteq Id
    /\ pruned \subseteq Id
    /\ crashes \in Nat /\ faults \in Nat /\ resets \in Nat

\* The process has just started and the journal is new.
Init ==
    /\ ledger = [id \in Id |-> EmptyRow]
    /\ up = TRUE
    /\ queue = {} /\ seen = {}
    /\ pc = "acks" /\ taken = {} /\ missed = {} /\ fresh = {} /\ results = NoResults
    /\ op = [h \in Handler |-> NoRequest]
    /\ lease \in [Id -> Token \cup {NoToken}]
    /\ accepted = {} /\ reported = [id \in Id |-> {}] /\ expired = {}
    /\ crobs = [id \in Id |-> 0]
    /\ verdict = [id \in Id |-> "none"]
    /\ refused = {}
    /\ pruned = {}
    /\ crashes = 0 /\ faults = 0 /\ resets = 0

-----------------------------------------------------------------------------
(* Helpers *)

\* The journal after a statement was run for each id of a batch.
AcksMarked(ids) ==
    [id \in Id |-> IF id \in ids THEN MarkAckDelivered(ledger[id]) ELSE ledger[id]]

ResultsMarked(ids) ==
    [id \in Id |-> IF id \in ids THEN MarkDelivered(ledger[id]) ELSE ledger[id]]

\* The first n of the due rows. Ties of received_at/completed_at leave the
\* order open, and no property depends on it: any n of them.
Batches(due, n) ==
    kSubset(IF Cardinality(due) < n THEN Cardinality(due) ELSE n, due)

\* A journal call raises. When its COMMIT did, the statement is still in the
\* open transaction, which nothing rolls back and the next COMMIT includes.
JournalRaises == faults < MaxFaults /\ faults' = faults + 1

Requeued(cmd) ==
    IF cmd.token = NoToken
      THEN ledger
      ELSE [ledger EXCEPT ![cmd.id] = AckYenidenKuyrukla(@)]

Dispatched(id, token) == [ledger EXCEPT ![id] = StartDispatch(@, token)]

Settled(id, result) == [ledger EXCEPT ![id] = RecordResult(@, result)]

\* A new id is queued and remembered; the window forgets its oldest ids.
QueueCommands(offer) ==
    LET new == offer \ seen
        all == seen \cup new
    IN  /\ queue' = queue \cup {[id |-> id, token |-> lease[id]] : id \in new}
        /\ \E kept \in Batches(all, MaxSeen) :
              /\ new \subseteq kept \/ kept \subseteq new
              /\ seen' = kept

\* The device receives a CROB unless the command is rejected before it.
Drive(id, outcome) ==
    IF outcome = "rejected"
      THEN UNCHANGED <<crobs, verdict>>
      ELSE /\ crobs' = [crobs EXCEPT ![id] = @ + 1]
           /\ verdict' = [verdict EXCEPT ![id] = outcome]

-----------------------------------------------------------------------------
(* The command-poll thread *)

\* An exception of a turn is counted and the loop starts over: what the turn
\* held in its local variables is gone.
AbandonTurn ==
    /\ pc' = "acks"
    /\ taken' = {} /\ missed' = {} /\ fresh' = {} /\ results' = NoResults

AcksDue == {id \in Id : AckDue(ledger[id])}

\* Where _deliver_delivery_acks returns to: it is called before the poll and
\* after the turn's results are recorded.
AfterAcks == IF pc = "acks" THEN "fetch" ELSE "deliver"

InAcks == up /\ pc \in {"acks", "acks_again"}

\* Nothing is due, or the POST fails: whatever the error, the rows stay due.
AcksNotSent ==
    /\ InAcks
    /\ pc' = AfterAcks
    /\ UNCHANGED <<durable, up, stateVars, taken, missed, fresh, results, op,
                   backendVars, history, bounds>>

\* A mistake: rows are marked when nothing is left behind the batch, so that a
\* full batch is sent again and again and those behind it never.
AcksSentMarkedLast ==
    /\ InAcks
    /\ AcksDue # {}
    /\ \E batch \in Batches(AcksDue, AckBatch) :
          /\ accepted' = accepted \cup {id \in batch : ledger[id].token = lease[id]}
          /\ ledger' = IF batch = AcksDue THEN AcksMarked(batch) ELSE ledger
    /\ pc' = AfterAcks
    /\ UNCHANGED <<up, stateVars, taken, missed, fresh, results, op, lease, reported,
                   expired, history, bounds>>

\* The backend accepts the ACKs whose token is its current lease. It answers
\* with counts only, so a 2xx marks every row of the batch, rejected or not.
\* The response may be lost, and marking a row may raise (and is swallowed).
AcksSent ==
    /\ InAcks
    /\ AcksDue # {}
    /\ \E batch \in Batches(AcksDue, AckBatch) :
          /\ accepted' = accepted \cup {id \in batch : ledger[id].token = lease[id]}
          /\ \/ ledger' = AcksMarked(batch) /\ UNCHANGED faults
             \/ UNCHANGED <<ledger, faults>>
             \/ /\ JournalRaises
                /\ \E marked \in SUBSET batch : ledger' = AcksMarked(marked)
    /\ pc' = AfterAcks
    /\ UNCHANGED <<up, stateVars, taken, missed, fresh, results, op, lease, reported,
                   expired, history, crashes, resets>>

FetchFails ==
    /\ up /\ pc = "fetch"
    /\ pc' = "acks"
    /\ UNCHANGED <<durable, up, stateVars, taken, missed, fresh, results, op,
                   backendVars, history, bounds>>

\* fetch_pending_commands, then apply_pending_poll under the state lock.
FetchPendingCommands(offer) ==
    /\ up /\ pc = "fetch"
    /\ QueueCommands(offer)
    /\ pc' = "take"
    /\ UNCHANGED <<durable, up, taken, missed, fresh, results, op, backendVars,
                   history, bounds>>

TakePendingCommands ==
    /\ up /\ pc = "take"
    /\ taken' = queue
    /\ queue' = {}
    /\ pc' = "dispatch"
    /\ UNCHANGED <<durable, up, seen, missed, fresh, results, op, backendVars,
                   history, bounds>>

\* kayitli_jeton: a recorded id is not executed again. Its ACK is queued again
\* when the command carries a token; an id that is not recorded is reserved next.
LookUp(cmd) ==
    /\ up /\ pc = "dispatch"
    /\ missed = {} /\ cmd \in taken
    /\ taken' = taken \ {cmd}
    /\ \/ /\ Recorded(ledger[cmd.id])
          /\ ledger' = Requeued(cmd)
          /\ UNCHANGED missed
       \/ /\ ~Recorded(ledger[cmd.id])
          /\ missed' = {cmd}
          /\ UNCHANGED ledger
    /\ UNCHANGED <<up, stateVars, pc, fresh, results, op, backendVars, history, bounds>>

\* A mistake: the intent is not written before the command is executed.
ReserveWithoutIntent(cmd) ==
    /\ up /\ pc = "dispatch"
    /\ cmd \in missed
    /\ missed' = {}
    /\ fresh' = fresh \cup {cmd.id}
    /\ UNCHANGED <<durable, up, stateVars, pc, taken, results, op, backendVars, history,
                   bounds>>

\* start_dispatch: an /operate request may have recorded the id in between.
Reserve(cmd) ==
    /\ up /\ pc = "dispatch"
    /\ cmd \in missed
    /\ missed' = {}
    /\ ledger' = Dispatched(cmd.id, cmd.token)
    /\ fresh' = IF Recorded(ledger[cmd.id]) THEN fresh ELSE fresh \cup {cmd.id}
    /\ UNCHANGED <<up, stateVars, pc, taken, results, op, backendVars, history, bounds>>

AllReserved ==
    /\ up /\ pc = "dispatch"
    /\ taken = {} /\ missed = {}
    /\ pc' = "execute"
    /\ UNCHANGED <<durable, up, stateVars, taken, missed, fresh, results, op,
                   backendVars, history, bounds>>

\* _execute_pending_commands for one command: device lookup, freshness,
\* authorization, operate_device. A stale command is always rejected.
Execute(id, outcome) ==
    /\ up /\ pc = "execute"
    /\ id \in fresh
    /\ id \in expired => outcome = "rejected"
    /\ fresh' = fresh \ {id}
    /\ results' = [results EXCEPT ![id] = outcome]
    /\ Drive(id, outcome)
    /\ UNCHANGED <<durable, up, stateVars, pc, taken, missed, op, backendVars,
                   refused, pruned, bounds>>

AllExecuted ==
    /\ up /\ pc = "execute"
    /\ fresh = {}
    /\ pc' = "record"
    /\ UNCHANGED <<durable, up, stateVars, taken, missed, fresh, results, op,
                   backendVars, history, bounds>>

Record(id) ==
    /\ up /\ pc = "record"
    /\ results[id] # "none"
    /\ ledger' = Settled(id, results[id])
    /\ results' = [results EXCEPT ![id] = "none"]
    /\ UNCHANGED <<up, stateVars, pc, taken, missed, fresh, op, backendVars, history, bounds>>

AllRecorded ==
    /\ up /\ pc = "record"
    /\ results = NoResults
    /\ pc' = "acks_again"
    /\ UNCHANGED <<durable, up, stateVars, taken, missed, fresh, results, op,
                   backendVars, history, bounds>>

\* A journal call of the turn raises. The commands it took from the queue are
\* not put back; the ids it reserved stay in dispatching.
TurnFails ==
    /\ up
    /\ \/ /\ pc = "dispatch" /\ missed = {}
          /\ \E cmd \in taken : ledger' \in {ledger, Requeued(cmd)}
       \/ /\ pc = "dispatch"
          /\ \E cmd \in missed : ledger' \in {ledger, Dispatched(cmd.id, cmd.token)}
       \/ /\ pc = "record"
          /\ \E id \in Id : /\ results[id] # "none"
                            /\ ledger' \in {ledger, Settled(id, results[id])}
       \/ pc = "deliver" /\ UNCHANGED ledger
    /\ JournalRaises
    /\ AbandonTurn
    /\ UNCHANGED <<up, stateVars, op, backendVars, history, crashes, resets>>

ResultsDue == {id \in Id : ResultDue(ledger[id])}

NoResultsDue ==
    /\ up /\ pc = "deliver"
    /\ ResultsDue = {}
    /\ pc' = "acks"
    /\ UNCHANGED <<durable, up, stateVars, taken, missed, fresh, results, op,
                   backendVars, history, bounds>>

Receive(batch) ==
    reported' = [id \in Id |-> IF id \in batch
                                 THEN reported[id] \cup {ledger[id].result}
                                 ELSE reported[id]]

\* report_command_results succeeds; marking a row may raise and is swallowed.
ResultsDelivered ==
    /\ up /\ pc = "deliver"
    /\ ResultsDue # {}
    /\ \E batch \in Batches(ResultsDue, ResultBatch) :
          /\ Receive(batch)
          /\ \/ ledger' = ResultsMarked(batch) /\ UNCHANGED faults
             \/ /\ JournalRaises
                /\ \E marked \in SUBSET batch : ledger' = ResultsMarked(marked)
    /\ pc' = "acks"
    /\ UNCHANGED <<up, stateVars, taken, missed, fresh, results, op, lease, accepted,
                   expired, history, crashes, resets>>

\* How a result POST fails: the network (before or after the backend handled
\* it), a temporary HTTP status, or a status that refuses it for good.
Failure == {"network", "busy", "refused"}

\* errors.is_transient of the CommandResultDeliveryError: it looks at the HTTP
\* status, and a network failure carries none (http_status=None).
IsTransient(failure) == failure = "busy"

\* A mistake: the failure before the last one is enough.
CountFailureTooSoon(row) ==
    LET bumped == BumpDeliveryFailure(row)
    IN  IF bumped.failures >= MaxPermanentFailures - 1
          THEN MarkDeliveryDeadLetter(bumped)
          ELSE bumped

\* A permanent failure counts against each row of the batch; a row that has
\* failed often enough is given up on.
CountFailure(row) ==
    LET bumped == BumpDeliveryFailure(row)
    IN  IF bumped.failures >= MaxPermanentFailures
          THEN MarkDeliveryDeadLetter(bumped)
          ELSE bumped

FailuresCounted(ids) ==
    [id \in Id |-> IF id \in ids THEN CountFailure(ledger[id]) ELSE ledger[id]]

\* The backend may have received a batch whose response the network lost.
\* bump_delivery_failure and mark_delivery_dead_letter commit one by one: when
\* one raises, a part of the batch is counted, a part of that given up on.
ResultsFail(failure) ==
    /\ up /\ pc = "deliver"
    /\ ResultsDue # {}
    /\ \E batch \in Batches(ResultsDue, ResultBatch) :
          /\ \/ UNCHANGED reported
             \/ failure = "network" /\ Receive(batch)
          /\ refused' = IF failure = "refused" THEN refused \cup batch ELSE refused
          /\ \/ /\ IsTransient(failure)
                /\ UNCHANGED <<ledger, faults>>
             \/ /\ ~IsTransient(failure)
                /\ ledger' = FailuresCounted(batch)
                /\ UNCHANGED faults
             \/ /\ ~IsTransient(failure)
                /\ JournalRaises
                /\ \E counted \in SUBSET batch :
                      \/ ledger' = FailuresCounted(counted)
                      \/ \E last \in batch \ counted :
                            ledger' = [FailuresCounted(counted)
                                         EXCEPT ![last] = BumpDeliveryFailure(@)]
    /\ pc' = "acks"
    /\ UNCHANGED <<up, stateVars, taken, missed, fresh, results, op, lease, accepted,
                   expired, crobs, verdict, pruned, crashes, resets>>

-----------------------------------------------------------------------------
(* POST /operate *)

Idle(h) == op[h].pc \in {"idle", "replied"}

\* start_dispatch(command_id), with no token. The checks before it leave no
\* trace; a stale request is among those they turn away (a handler does not
\* stall between check and call for as long as rows are retained).
OperateRequest(h, id) ==
    /\ up /\ Idle(h)
    /\ id \notin expired
    /\ ledger' = Dispatched(id, NoToken)
    /\ op' = [op EXCEPT ![h] =
                [NoRequest EXCEPT
                   !.pc = IF Recorded(ledger[id]) THEN "answering" ELSE "operating",
                   !.id = id]]
    /\ UNCHANGED <<up, stateVars, pollVars, backendVars, history, bounds>>

\* A mistake: a duplicate of a completed command is answered with ok.
OperateDuplicateOptimistic(h) ==
    /\ up /\ op[h].pc = "answering"
    /\ op' = [op EXCEPT ![h].pc = "replied",
                        ![h].reply = IF ResultDue(ledger[op[h].id]) THEN "ok" ELSE "pending"]
    /\ UNCHANGED <<durable, up, stateVars, pollVars, backendVars, history, bounds>>

\* A duplicate is answered from pending_results: as pending when that holds no
\* result for it or cannot be read.
OperateDuplicate(h) ==
    /\ up /\ op[h].pc = "answering"
    /\ \E reply \in {"ok", "not_ok", "pending"} :
          /\ \/ /\ UNCHANGED faults
                /\ reply = IF ~ResultDue(ledger[op[h].id]) THEN "pending"
                           ELSE IF ledger[op[h].id].result = "ok" THEN "ok"
                           ELSE "not_ok"
             \/ JournalRaises /\ reply = "pending"
          /\ op' = [op EXCEPT ![h].pc = "replied", ![h].reply = reply]
    /\ UNCHANGED <<durable, up, stateVars, pollVars, backendVars, history, crashes, resets>>

\* The journal cannot be reached: 503, the command is not executed.
OperateUnavailable(h, id) ==
    /\ up /\ Idle(h)
    /\ id \notin expired
    /\ JournalRaises
    /\ op' = [op EXCEPT ![h] = [NoRequest EXCEPT !.pc = "replied", !.id = id,
                                                 !.reply = "unavailable"]]
    /\ ledger' \in {ledger, Dispatched(id, NoToken)}
    /\ UNCHANGED <<up, stateVars, pollVars, backendVars, history, crashes, resets>>

OperateDevice(h, outcome) ==
    /\ up /\ op[h].pc = "operating"
    /\ op' = [op EXCEPT ![h].pc = "recording", ![h].result = outcome]
    /\ Drive(op[h].id, outcome)
    /\ UNCHANGED <<durable, up, stateVars, pollVars, backendVars, refused, pruned, bounds>>

\* _ledger_record swallows an exception; the reply is sent either way.
OperateReply(h) ==
    /\ up /\ op[h].pc = "recording"
    /\ \/ /\ ledger' = Settled(op[h].id, op[h].result)
          /\ UNCHANGED faults
       \/ JournalRaises /\ ledger' \in {ledger, Settled(op[h].id, op[h].result)}
    /\ op' = [op EXCEPT ![h].pc = "replied",
                        ![h].reply = IF op[h].result = "ok" THEN "ok" ELSE "not_ok"]
    /\ UNCHANGED <<up, stateVars, pollVars, backendVars, history, crashes, resets>>

-----------------------------------------------------------------------------
(* Process and maintenance *)

\* The config thread queues commands of an old backend's config response.
ConfigUpdate(offer) ==
    /\ OldBackend
    /\ up
    /\ QueueCommands(offer)
    /\ UNCHANGED <<durable, up, pollVars, op, backendVars, history, bounds>>

\* Death or shutdown: everything that is not in the journal is gone.
Crash ==
    /\ up
    /\ crashes < MaxCrashes
    /\ crashes' = crashes + 1
    /\ up' = FALSE
    /\ queue' = {} /\ seen' = {}
    /\ AbandonTurn
    /\ op' = [h \in Handler |-> NoRequest]
    /\ UNCHANGED <<durable, backendVars, history, faults, resets>>

\* A mistake: the previous process's dispatching rows are left alone.
BootWithoutRecovery ==
    /\ ~up
    /\ up' = TRUE
    /\ UNCHANGED <<durable, stateVars, pollVars, op, backendVars, history, bounds>>

\* CommandLedger.__init__ finds the file sound, then recover_unknown_results,
\* before the reader exists and before any thread is started.
Boot ==
    /\ ~up
    /\ up' = TRUE
    /\ ledger' = [id \in Id |-> RecoverUnknownResult(ledger[id])]
    /\ UNCHANGED <<stateVars, pollVars, op, backendVars, history, bounds>>

\* CommandLedger.__init__ quarantines a corrupt file and starts a new journal
\* with a new epoch. History is counted per journal.
BootQuarantined ==
    /\ ~up
    /\ resets < MaxResets
    /\ resets' = resets + 1
    /\ up' = TRUE
    /\ ledger' = [id \in Id |-> EmptyRow]
    /\ crobs' = [id \in Id |-> 0]
    /\ verdict' = [id \in Id |-> "none"]
    /\ refused' = {}
    /\ pruned' = {}
    /\ UNCHANGED <<stateVars, pollVars, op, backendVars, crashes, faults>>

\* prune of the six-hourly maintenance. A row is old enough only when its command
\* is long stale: retention is longer than the maximum age of a command.
PruneLedger(old) ==
    /\ up
    /\ old # {}
    /\ \A id \in old : Prunable(ledger[id]) /\ id \in expired
    /\ ledger' = [id \in Id |-> IF id \in old THEN EmptyRow ELSE ledger[id]]
    /\ pruned' = pruned \cup old
    /\ UNCHANGED <<up, stateVars, pollVars, op, backendVars, crobs, verdict, refused,
                   bounds>>

-----------------------------------------------------------------------------
(* The backend and time *)

ReLease(id, token) ==
    /\ id \notin accepted
    /\ lease[id] \notin {token, NoToken}
    /\ lease' = [lease EXCEPT ![id] = token]
    /\ UNCHANGED <<durable, up, stateVars, pollVars, op, accepted, reported, expired,
                   history, bounds>>

Expire(id) ==
    /\ id \notin expired
    /\ expired' = expired \cup {id}
    /\ UNCHANGED <<durable, up, stateVars, pollVars, op, lease, accepted, reported,
                   history, bounds>>

-----------------------------------------------------------------------------

PollStep ==
    \/ AcksNotSent \/ AcksSent
    \/ FetchFails \/ \E offer \in SUBSET Id : FetchPendingCommands(offer)
    \/ TakePendingCommands
    \/ \E cmd \in taken : LookUp(cmd)
    \/ \E cmd \in missed : Reserve(cmd)
    \/ AllReserved
    \/ \E id \in fresh, outcome \in Outcome : Execute(id, outcome)
    \/ AllExecuted
    \/ \E id \in Id : Record(id)
    \/ AllRecorded
    \/ TurnFails
    \/ NoResultsDue \/ ResultsDelivered
    \/ \E failure \in Failure : ResultsFail(failure)

HandlerStep(h) ==
    \/ \E outcome \in Outcome : OperateDevice(h, outcome)
    \/ OperateReply(h)
    \/ OperateDuplicate(h)

Next ==
    \/ PollStep
    \/ \E h \in Handler :
          \/ HandlerStep(h)
          \/ \E id \in Id : OperateRequest(h, id) \/ OperateUnavailable(h, id)
    \/ \E offer \in SUBSET Id : ConfigUpdate(offer)
    \/ Crash \/ Boot \/ BootQuarantined
    \/ \E old \in SUBSET Id : PruneLedger(old)
    \/ \E id \in Id : Expire(id) \/ (\E token \in Token : ReLease(id, token))

Spec == Init /\ [][Next]_vars

\* The service manager restarts the process; its threads keep running (each
\* loop survives any exception); the network and the backend are not down for
\* good, so a request that is tried again and again is answered in the end.  The
\* answer to results may be a refusal every time (or what passes for one).
Fairness ==
    /\ WF_vars(Boot)
    /\ WF_vars(PollStep)
    /\ \A h \in Handler : WF_vars(HandlerStep(h))
    /\ SF_vars(\E offer \in SUBSET Id : FetchPendingCommands(offer))
    /\ SF_vars(AcksSent /\ UNCHANGED faults /\ ledger' # ledger)
    /\ SF_vars(/\ ResultsDelivered \/ \E failure \in Failure :
                                       ResultsFail(failure) /\ ~IsTransient(failure)
               /\ UNCHANGED faults)

FairSpec == Spec /\ Fairness

-----------------------------------------------------------------------------
(* Properties *)

\* No command id is driven twice: neither a redelivery by the backend, nor a
\* retry of /operate, nor both at once, nor a restart between any two steps,
\* nor the pruning of old rows makes the gateway send a second CROB (as long
\* as the journal is not lost: history counts from its creation).
AtMostOneCrob == \A id \in Id : crobs[id] <= 1

\* The intent is durable before the device hears of it: a CROB goes out only
\* while the journal says dispatching, whatever happened since the id was
\* reserved (command_ledger.py, "start_dispatch returns before a CROB is sent").
JournalBeforeCrob ==
    [][\A id \in Id : crobs'[id] > crobs[id] => ledger[id].state = "dispatching"]_vars

\* What a result says of a command, by what the device saw of it.
TrueOf(id, result) ==
    /\ result = "rejected" => crobs[id] = 0
    /\ result \in {"ok", "failed"} => crobs[id] = 1 /\ verdict[id] = result

\* What the journal says of a command is what the device did: a rejected
\* command was not driven, an ok or failed one was driven with that verdict.
ResultIsTrue == \A id \in Id \ pruned : TrueOf(id, ledger[id].result)

\* A result leaves the queue only when the backend has it, or when it was
\* refused (as far as is_transient can tell) the full number of times.
NoResultLost ==
    \A id \in Id :
       /\ ledger[id].delivery = "delivered" => ledger[id].result \in reported[id]
       /\ ledger[id].delivery = "dead_letter" => ledger[id].failures >= MaxPermanentFailures

\* The HTTP caller is told ok only when the device accepted this command.
OperateReplyIsTrue ==
    \A h \in Handler :
       op[h].reply = "ok" => verdict[op[h].id] = "ok"

\* Liveness: a reserved command gets a result, by execution or by recovery.
EveryDispatchSettles ==
    \A id \in Id : ledger[id].state = "dispatching" ~> ledger[id].state # "dispatching"

\* Liveness: a result reaches the backend or the dead letters (or its journal is
\* lost): temporary failures end some day, and a batch that is refused each time
\* it is sent does not stay either.
EveryResultLeaves ==
    \A id \in Id : ResultDue(ledger[id]) ~> ~ResultDue(ledger[id])

\* Liveness: the backend is told that a command was taken over. No ACK waits for
\* ever: neither behind others when a batch cannot hold all of them, nor because
\* the backend rejects it (its lease has moved on), nor because a restart forgot
\* which commands were seen, so that each redelivery puts an ACK back (as long as
\* the window of seen ids holds the commands that are alive).
EveryAckLeaves ==
    \A id \in Id : AckDue(ledger[id]) ~> ~AckDue(ledger[id])

\* A result is given up on only when the backend did refuse it (the docstring
\* of main._deliver_ledger_results: a network failure is temporary and is
\* tried again as it is).
DeadLetterWasRefused ==
    \A id \in Id :
       ledger[id].delivery = "dead_letter" => id \in refused

-----------------------------------------------------------------------------
(* Why a command is driven at most once: the inductive invariant *)

PollOwns(id) == id \in fresh \/ results[id] # "none"

RequestOwns(h, id) == op[h].pc \in {"operating", "recording"} /\ op[h].id = id

\* Whoever inserted the row of an id owns it until the result is recorded: the
\* poll turn or one /operate request, never two of them, and only while the
\* row is in dispatching. Nobody owns a command while the process is down.
OneOwner ==
    /\ \A id \in Id :
          /\ id \in fresh => results[id] = "none"
          /\ PollOwns(id) => up /\ ledger[id].state = "dispatching"
          /\ \A h \in Handler :
                RequestOwns(h, id) =>
                   /\ up
                   /\ ledger[id].state = "dispatching"
                   /\ ~PollOwns(id)
                   /\ \A g \in Handler : RequestOwns(g, id) => g = h

\* An owner that has not driven its command is the first to have it: nothing
\* was driven unless the row is still there or was pruned, and a pruned id is
\* stale, which is all that keeps its redelivery from driving it again.
NotYetDriven ==
    /\ pruned \subseteq expired
    /\ \A id \in Id :
          /\ crobs[id] > 0 => Recorded(ledger[id]) \/ id \in pruned
          /\ id \in fresh => crobs[id] = 0 \/ id \in pruned
          /\ \A h \in Handler :
                RequestOwns(h, id) /\ op[h].pc = "operating"
                   => crobs[id] = 0 /\ id \notin pruned

CommandInvariant == OneOwner /\ NotYetDriven /\ AtMostOneCrob

\* A result is true from the moment its owner holds it until the journal has
\* it, and stays true of a row that is not pruned.
TruthInvariant ==
    \A id \in Id \ pruned :
       /\ TrueOf(id, ledger[id].result)
       /\ TrueOf(id, results[id])
       /\ \A h \in Handler :
             RequestOwns(h, id) /\ op[h].pc = "recording" => TrueOf(id, op[h].result)

-----------------------------------------------------------------------------
(* Refinement of the contract *)

phase == [id \in Id |->
            IF ledger[id].state = "absent" THEN "absent"
            ELSE IF ledger[id].state = "dispatching" THEN "accepted"
            ELSE IF ledger[id].delivery = "delivered" THEN "closed"
            ELSE "settled"]

answer == [id \in Id |-> ledger[id].result]

Contract == INSTANCE CommandContract
              WITH truth <- verdict, forgotten <- pruned

\* The command plane implements its contract.
ContractSpec == Contract!Spec

=============================================================================
