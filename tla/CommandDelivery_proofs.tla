----------------------- MODULE CommandDelivery_proofs -----------------------
(***************************************************************************)
(* Proofs about the command plane, for every set of command ids, handlers  *)
(* and tokens and every bound: its state is well-typed, no command is      *)
(* driven twice or before its intent is durable, the journal and the       *)
(* replies of /operate tell the truth, no delivered result is lost, the    *)
(* plane implements its contract, no reserved command is abandoned unless  *)
(* the journal fails, and no command the backend calls accepted is dropped.*)
(***************************************************************************)
EXTENDS CommandDelivery, TLAPS

-----------------------------------------------------------------------------
(* What the statements of the journal do to a row *)

\* Every statement of the journal leaves a well-typed row.
LEMMA RowsStayRows ==
    ASSUME NEW row \in Row
    PROVE  /\ \A token \in Token \cup {NoToken} : StartDispatch(row, token) \in Row
           /\ AckYenidenKuyrukla(row) \in Row
           /\ MarkAckDelivered(row) \in Row
           /\ \A result \in Result : RecordResult(row, result) \in Row
           /\ MarkDelivered(row) \in Row
           /\ BumpDeliveryFailure(row) \in Row
           /\ MarkDeliveryDeadLetter(row) \in Row
           /\ EmptyRow \in Row
<1>1. \A token \in Token \cup {NoToken} : StartDispatch(row, token) \in Row
  BY DEF StartDispatch, EmptyRow, Columns, Row
<1>2. AckYenidenKuyrukla(row) \in Row
  BY DEF AckYenidenKuyrukla, Columns, Row
<1>3. MarkAckDelivered(row) \in Row
  BY DEF MarkAckDelivered, Columns, Row
<1>4. \A result \in Result : RecordResult(row, result) \in Row
  BY DEF RecordResult, Columns, Row, Result, Outcome
<1>5. MarkDelivered(row) \in Row /\ MarkDeliveryDeadLetter(row) \in Row
  BY DEF MarkDelivered, MarkDeliveryDeadLetter, Columns, Row
<1>6. BumpDeliveryFailure(row) \in Row
  BY DEF BumpDeliveryFailure, Columns, Row
<1>7. EmptyRow \in Row
  BY DEF EmptyRow, Columns, Row
<1> QED
  BY <1>1, <1>2, <1>3, <1>4, <1>5, <1>6, <1>7

\* Counting a delivery failure and recovering after a restart do, too.
LEMMA CompoundRowsStayRows ==
    ASSUME NEW row \in Row
    PROVE  CountFailure(row) \in Row /\ RecoverUnknownResult(row) \in Row
<1>1. BumpDeliveryFailure(row) \in Row
  BY RowsStayRows
<1>2. MarkDeliveryDeadLetter(BumpDeliveryFailure(row)) \in Row
  BY <1>1, RowsStayRows
<1>3. CountFailure(row) \in Row
  BY <1>1, <1>2 DEF CountFailure
<1>4. RecoverUnknownResult(row) \in Row
  BY RowsStayRows DEF RecoverUnknownResult, Result
<1> QED
  BY <1>3, <1>4

\* The statements about ACKs and deliveries leave state and result of a row.
LEMMA RowStates ==
    ASSUME NEW row \in Row,
           NEW new \in {AckYenidenKuyrukla(row), MarkAckDelivered(row), MarkDelivered(row),
                        BumpDeliveryFailure(row), MarkDeliveryDeadLetter(row)}
    PROVE  new.state = row.state /\ new.result = row.result
<1> QED
  BY DEF AckYenidenKuyrukla, MarkAckDelivered, MarkDelivered, BumpDeliveryFailure,
         MarkDeliveryDeadLetter, Columns, Row

\* The failure counters of a delivery leave state and result of a row.
LEMMA CountFailureState ==
    ASSUME NEW row \in Row
    PROVE  /\ CountFailure(row).state = row.state
           /\ CountFailure(row).result = row.result
<1> DEFINE bumped == BumpDeliveryFailure(row)
<1>1. bumped \in Row
  BY RowsStayRows
<1>2. bumped.state = row.state /\ bumped.result = row.result
  BY RowStates
<1>3. /\ MarkDeliveryDeadLetter(bumped).state = bumped.state
      /\ MarkDeliveryDeadLetter(bumped).result = bumped.result
  BY <1>1, RowStates
<1> QED
  BY <1>2, <1>3 DEF CountFailure

-----------------------------------------------------------------------------
(* Type correctness *)

\* A batch is a part of what is due.
LEMMA BatchesArePart ==
    ASSUME NEW due, NEW n, NEW batch \in Batches(due, n)
    PROVE  batch \subseteq due
<1> QED
  BY DEF Batches, kSubset

\* Queueing a polled command (_queue_command_unsafe) keeps the window typed.
LEMMA QueueCommandsTyped ==
    ASSUME TypeOK, NEW offer \in SUBSET Id, QueueCommands(offer)
    PROVE  queue' \subseteq Command /\ seen' \subseteq Id
<1> DEFINE new == offer \ seen
           all == seen \cup new
<1>1. PICK kept \in Batches(all, MaxSeen) : seen' = kept
  BY DEF QueueCommands
<1>2. seen' \subseteq Id
  BY <1>1, BatchesArePart DEF TypeOK
<1>3. \A id \in new : [id |-> id, token |-> lease[id]] \in Command
  BY DEF TypeOK, Command
<1>4. queue' \subseteq Command
  BY <1>3 DEF QueueCommands, TypeOK
<1> QED
  BY <1>2, <1>4

\* Driving a command adds an attempt with its verdict to the history.
LEMMA DriveTyped ==
    ASSUME TypeOK, NEW id \in Id, NEW outcome \in Outcome, Drive(id, outcome)
    PROVE  crobs' \in [Id -> Nat] /\ verdict' \in [Id -> {"none", "ok", "failed"}]
<1> QED
  BY DEF TypeOK, Drive, Outcome

\* The counter of raising journal calls stays a number.
LEMMA FaultsTyped ==
    ASSUME TypeOK, JournalRaises
    PROVE  faults' \in Nat
<1> QED
  BY DEF TypeOK, JournalRaises

\* The journal after a statement was run for every id of a batch.
LEMMA JournalsTyped ==
    ASSUME TypeOK, NEW ids
    PROVE  /\ AcksMarked(ids) \in [Id -> Row]
           /\ ResultsMarked(ids) \in [Id -> Row]
           /\ FailuresCounted(ids) \in [Id -> Row]
<1>1. ledger \in [Id -> Row]
  BY DEF TypeOK
<1>2. AcksMarked(ids) \in [Id -> Row]
  BY <1>1, RowsStayRows DEF AcksMarked
<1>3. ResultsMarked(ids) \in [Id -> Row]
  BY <1>1, RowsStayRows DEF ResultsMarked
<1>4. FailuresCounted(ids) \in [Id -> Row]
  BY <1>1, CompoundRowsStayRows DEF FailuresCounted
<1> QED
  BY <1>2, <1>3, <1>4

\* What the backend receives are results.
LEMMA ReceiveTyped ==
    ASSUME TypeOK, NEW batch, batch \subseteq ResultsDue, Receive(batch)
    PROVE  reported' \in [Id -> SUBSET Result]
<1>1. \A id \in batch : ledger[id].result \in Result
  BY DEF ResultsDue, ResultDue, TypeOK, Row, Columns
<1> QED
  BY <1>1 DEF TypeOK, Receive

\* The journal after a statement was run for one id.
LEMMA StatementsTyped ==
    ASSUME TypeOK
    PROVE  /\ \A cmd \in Command : Requeued(cmd) \in [Id -> Row]
           /\ \A id \in Id, token \in Token \cup {NoToken} :
                 Dispatched(id, token) \in [Id -> Row]
           /\ \A id \in Id, result \in Result : Settled(id, result) \in [Id -> Row]
<1>1. ledger \in [Id -> Row]
  BY DEF TypeOK
<1>2. \A cmd \in Command : Requeued(cmd) \in [Id -> Row]
  BY <1>1, RowsStayRows DEF Requeued, Command
<1>3. \A id \in Id, token \in Token \cup {NoToken} : Dispatched(id, token) \in [Id -> Row]
  BY <1>1, RowsStayRows DEF Dispatched
<1>4. \A id \in Id, result \in Result : Settled(id, result) \in [Id -> Row]
  BY <1>1, RowsStayRows DEF Settled
<1> QED
  BY <1>2, <1>3, <1>4

\* The process starts with well-typed state.
LEMMA InitTyped == Init => TypeOK
<1> SUFFICES ASSUME Init PROVE TypeOK
  OBVIOUS
<1>1. EmptyRow \in Row
  BY DEF EmptyRow, Columns, Row
<1>2. NoRequest \in Request
  BY DEF NoRequest, Request, RequestFields, Reply
<1> QED
  BY <1>1, <1>2 DEF Init, TypeOK, NoResults

\* Every step of the command-poll thread keeps the types.
LEMMA PollStepTyped == TypeOK /\ PollStep => TypeOK'
<1> SUFFICES ASSUME TypeOK, PollStep PROVE TypeOK'
  OBVIOUS
<1> USE DEF durable, stateVars, pollVars, backendVars, history, bounds
<1>1. CASE AcksNotSent
  BY <1>1 DEF TypeOK, AcksNotSent, AfterAcks
<1>2. CASE AcksSent
  <2>1. PICK batch \in Batches(AcksDue, AckBatch) :
           /\ accepted' = accepted \cup {id \in batch : ledger[id].token = lease[id]}
           /\ \/ ledger' = AcksMarked(batch) /\ UNCHANGED faults
              \/ UNCHANGED <<ledger, faults>>
              \/ /\ JournalRaises
                 /\ \E marked \in SUBSET batch : ledger' = AcksMarked(marked)
    BY <1>2 DEF AcksSent
  <2>2. accepted' \subseteq Id
    BY <2>1, BatchesArePart DEF AcksDue, TypeOK
  <2>3. ledger' \in [Id -> Row]
    BY <2>1, JournalsTyped DEF TypeOK
  <2>4. faults' \in Nat
    BY <2>1, FaultsTyped DEF TypeOK
  <2> QED
    BY <1>2, <2>2, <2>3, <2>4 DEF TypeOK, AcksSent, AfterAcks
<1>3. CASE FetchFails
  BY <1>3 DEF TypeOK, FetchFails
<1>4. CASE \E offer \in SUBSET Id : FetchPendingCommands(offer)
  BY <1>4, QueueCommandsTyped DEF TypeOK, FetchPendingCommands
<1>5. CASE TakePendingCommands
  BY <1>5 DEF TypeOK, TakePendingCommands
<1>6. CASE \E cmd \in taken : LookUp(cmd)
  <2>1. PICK cmd \in taken : LookUp(cmd)
    BY <1>6
  <2>2. cmd.id \in Id /\ cmd \in Command
    BY DEF TypeOK, Command
  <2>3. ledger' \in [Id -> Row]
    BY <2>1, <2>2, StatementsTyped DEF TypeOK, LookUp
  <2> QED
    BY <2>1, <2>2, <2>3 DEF TypeOK, LookUp
<1>7. CASE \E cmd \in missed : Reserve(cmd)
  <2>1. PICK cmd \in missed : Reserve(cmd)
    BY <1>7
  <2>2. cmd.id \in Id /\ cmd.token \in Token \cup {NoToken}
    BY DEF TypeOK, Command
  <2>3. ledger' \in [Id -> Row]
    BY <2>1, <2>2, StatementsTyped DEF TypeOK, Reserve
  <2>4. fresh' \subseteq Id
    BY <2>1, <2>2 DEF TypeOK, Reserve
  <2> QED
    BY <2>1, <2>3, <2>4 DEF TypeOK, Reserve
<1>8. CASE AllReserved
  BY <1>8 DEF TypeOK, AllReserved
<1>9. CASE \E id \in fresh, outcome \in Outcome : Execute(id, outcome)
  <2>1. PICK id \in fresh, outcome \in Outcome : Execute(id, outcome)
    BY <1>9
  <2>2. crobs' \in [Id -> Nat] /\ verdict' \in [Id -> {"none", "ok", "failed"}]
    BY <2>1, DriveTyped DEF Execute, TypeOK
  <2> QED
    BY <2>1, <2>2 DEF TypeOK, Execute
<1>10. CASE AllExecuted
  BY <1>10 DEF TypeOK, AllExecuted
<1>11. CASE \E id \in Id : Record(id)
  <2>1. PICK id \in Id : Record(id)
    BY <1>11
  <2>2. results[id] \in Result
    BY <2>1 DEF TypeOK, Record, Result
  <2>3. ledger' \in [Id -> Row]
    BY <2>1, <2>2, StatementsTyped DEF TypeOK, Record
  <2>4. results' \in [Id -> Outcome \cup {"none"}]
    BY <2>1 DEF TypeOK, Record
  <2> QED
    BY <2>1, <2>3, <2>4 DEF TypeOK, Record
<1>12. CASE AllRecorded
  BY <1>12 DEF TypeOK, AllRecorded
<1>13. CASE TurnFails
  <2>1. \A cmd \in taken \cup missed : /\ cmd \in Command /\ cmd.id \in Id
                                        /\ cmd.token \in Token \cup {NoToken}
    BY DEF TypeOK, Command
  <2>2. \A id \in Id : results[id] # "none" => results[id] \in Result
    BY DEF TypeOK, Result
  <2>3. ledger' \in [Id -> Row]
    BY <1>13, <2>1, <2>2, StatementsTyped DEF TurnFails, TypeOK
  <2>4. results' \in [Id -> Outcome \cup {"none"}]
    BY <1>13 DEF TurnFails, AbandonTurn, NoResults
  <2>5. faults' \in Nat
    BY <1>13, FaultsTyped DEF TurnFails
  <2> QED
    BY <1>13, <2>3, <2>4, <2>5 DEF TypeOK, TurnFails, AbandonTurn
<1>14. CASE NoResultsDue
  BY <1>14 DEF TypeOK, NoResultsDue
<1>15. CASE ResultsDelivered
  <2>1. PICK batch \in Batches(ResultsDue, ResultBatch) :
           /\ Receive(batch)
           /\ \/ ledger' = ResultsMarked(batch) /\ UNCHANGED faults
              \/ /\ JournalRaises
                 /\ \E marked \in SUBSET batch : ledger' = ResultsMarked(marked)
    BY <1>15 DEF ResultsDelivered
  <2>2. reported' \in [Id -> SUBSET Result]
    BY <2>1, BatchesArePart, ReceiveTyped
  <2>3. ledger' \in [Id -> Row]
    BY <2>1, JournalsTyped DEF TypeOK
  <2>4. faults' \in Nat
    BY <2>1, FaultsTyped DEF TypeOK
  <2> QED
    BY <1>15, <2>2, <2>3, <2>4 DEF TypeOK, ResultsDelivered
<1>16. CASE \E failure \in Failure : ResultsFail(failure)
  <2>1. PICK failure \in Failure : ResultsFail(failure)
    BY <1>16
  <2>2. PICK batch \in Batches(ResultsDue, ResultBatch) :
           /\ \/ UNCHANGED reported
              \/ failure = "network" /\ Receive(batch)
           /\ refused' = IF failure = "refused" THEN refused \cup batch ELSE refused
           /\ \/ UNCHANGED <<ledger, faults>>
              \/ ledger' = FailuresCounted(batch) /\ UNCHANGED faults
              \/ /\ JournalRaises
                 /\ \E counted \in SUBSET batch :
                       \/ ledger' = FailuresCounted(counted)
                       \/ \E last \in batch \ counted :
                             ledger' = [FailuresCounted(counted)
                                          EXCEPT ![last] = BumpDeliveryFailure(@)]
    BY <2>1 DEF ResultsFail
  <2>3. batch \subseteq ResultsDue /\ batch \subseteq Id
    BY BatchesArePart DEF ResultsDue
  <2>4. reported' \in [Id -> SUBSET Result]
    BY <2>2, <2>3, ReceiveTyped DEF TypeOK
  <2>5. \A counted \in SUBSET batch, last \in batch :
           [FailuresCounted(counted) EXCEPT ![last] = BumpDeliveryFailure(@)]
              \in [Id -> Row]
    BY <2>3, JournalsTyped, RowsStayRows
  <2>6. ledger' \in [Id -> Row]
    BY <2>2, <2>5, JournalsTyped DEF TypeOK
  <2>7. faults' \in Nat
    BY <2>2, FaultsTyped DEF TypeOK
  <2>8. refused' \subseteq Id
    BY <2>2, <2>3 DEF TypeOK
  <2> QED
    BY <2>1, <2>4, <2>6, <2>7, <2>8 DEF TypeOK, ResultsFail
<1> QED
  BY <1>1, <1>2, <1>3, <1>4, <1>5, <1>6, <1>7, <1>8, <1>9, <1>10, <1>11, <1>12,
     <1>13, <1>14, <1>15, <1>16 DEF PollStep

\* Every step of an /operate request keeps the types.
LEMMA HandlerStepTyped ==
    ASSUME TypeOK, NEW h \in Handler,
           \/ HandlerStep(h)
           \/ \E id \in Id : OperateRequest(h, id) \/ OperateUnavailable(h, id)
    PROVE  TypeOK'
<1> USE DEF durable, stateVars, pollVars, backendVars, history, bounds
<1>1. CASE \E outcome \in Outcome : OperateDevice(h, outcome)
  <2>1. PICK outcome \in Outcome : OperateDevice(h, outcome)
    BY <1>1
  <2>2. op[h] \in Request /\ op[h].pc = "operating" /\ op[h].id \in Id
    BY <2>1 DEF TypeOK, OperateDevice, Request, RequestFields
  <2>3. crobs' \in [Id -> Nat] /\ verdict' \in [Id -> {"none", "ok", "failed"}]
    BY <2>1, <2>2, DriveTyped DEF OperateDevice
  <2>4. [op[h] EXCEPT !.pc = "recording", !.result = outcome] \in Request
    BY <2>2, DeliveryAssumption DEF Request, RequestFields, Outcome
  <2>5. op' = [op EXCEPT ![h] = [op[h] EXCEPT !.pc = "recording", !.result = outcome]]
    BY <2>1, <2>2 DEF OperateDevice, TypeOK
  <2>6. op' \in [Handler -> Request]
    BY <2>4, <2>5 DEF TypeOK
  <2> QED
    BY <2>1, <2>3, <2>6 DEF TypeOK, OperateDevice
<1>2. CASE OperateReply(h)
  <2>1. /\ op[h] \in Request /\ op[h].pc = "recording"
        /\ op[h].id \in Id /\ op[h].result \in Result
    BY <1>2 DEF TypeOK, OperateReply, Request, RequestFields, Result
  <2>2. ledger' \in [Id -> Row]
    BY <1>2, <2>1, StatementsTyped DEF OperateReply, TypeOK
  <2> DEFINE answer1 == IF op[h].result = "ok" THEN "ok" ELSE "not_ok"
  <2>3. [op[h] EXCEPT !.pc = "replied", !.reply = answer1] \in Request
    BY <2>1, DeliveryAssumption DEF Request, RequestFields, Reply
  <2>4. op' = [op EXCEPT ![h] = [op[h] EXCEPT !.pc = "replied", !.reply = answer1]]
    BY <1>2, <2>1 DEF OperateReply, TypeOK
  <2>5. op' \in [Handler -> Request]
    BY <2>3, <2>4 DEF TypeOK
  <2>6. faults' \in Nat
    BY <1>2, FaultsTyped DEF OperateReply, TypeOK
  <2> QED
    BY <1>2, <2>2, <2>5, <2>6 DEF TypeOK, OperateReply
<1>3. CASE \E id \in Id : OperateRequest(h, id)
  <2>1. PICK id \in Id : OperateRequest(h, id)
    BY <1>3
  <2>2. ledger' \in [Id -> Row]
    BY <2>1, StatementsTyped DEF OperateRequest
  <2>3. \A step \in {"answering", "operating"} :
           [NoRequest EXCEPT !.pc = step, !.id = id] \in Request
    BY DeliveryAssumption DEF NoRequest, Request, RequestFields, Reply
  <2>4. op' \in [Handler -> Request]
    BY <2>1, <2>3 DEF TypeOK, OperateRequest
  <2> QED
    BY <2>1, <2>2, <2>4 DEF TypeOK, OperateRequest
<1>4. CASE \E id \in Id : OperateUnavailable(h, id)
  <2>1. PICK id \in Id : OperateUnavailable(h, id)
    BY <1>4
  <2>2. [NoRequest EXCEPT !.pc = "replied", !.id = id, !.reply = "unavailable"]
           \in Request
    BY DeliveryAssumption DEF NoRequest, Request, RequestFields, Reply
  <2>3. op' \in [Handler -> Request]
    BY <2>1, <2>2 DEF TypeOK, OperateUnavailable
  <2>4. faults' \in Nat
    BY <2>1, FaultsTyped DEF OperateUnavailable
  <2>5. ledger \in [Id -> Row] /\ Dispatched(id, NoToken) \in [Id -> Row]
    BY StatementsTyped DEF TypeOK
  <2>6. ledger' \in [Id -> Row]
    BY <2>1, <2>5 DEF OperateUnavailable
  <2> QED
    BY <2>1, <2>3, <2>4, <2>6 DEF TypeOK, OperateUnavailable
<1>5. CASE OperateDuplicate(h)
  <2>1. PICK reply \in {"ok", "not_ok", "pending"} :
           op' = [op EXCEPT ![h].pc = "replied", ![h].reply = reply]
    BY <1>5 DEF OperateDuplicate
  <2>2. op[h] \in Request /\ op[h].pc = "answering"
    BY <1>5 DEF OperateDuplicate, TypeOK
  <2>3. [op[h] EXCEPT !.pc = "replied", !.reply = reply] \in Request
    BY <2>2, DeliveryAssumption DEF Request, RequestFields, Reply
  <2>4. op' = [op EXCEPT ![h] = [op[h] EXCEPT !.pc = "replied", !.reply = reply]]
    BY <2>1, <2>2 DEF TypeOK
  <2>5. op' \in [Handler -> Request]
    BY <2>3, <2>4 DEF TypeOK
  <2>6. faults' \in Nat
    BY <1>5, FaultsTyped DEF OperateDuplicate, TypeOK
  <2> QED
    BY <1>5, <2>5, <2>6 DEF TypeOK, OperateDuplicate
<1> QED
  BY <1>1, <1>2, <1>3, <1>4, <1>5 DEF HandlerStep

\* So do the config thread, the process, the maintenance, the backend and time.
LEMMA EnvironmentStepTyped ==
    ASSUME TypeOK,
           \/ \E offer \in SUBSET Id : ConfigUpdate(offer)
           \/ Crash \/ Boot \/ BootQuarantined
           \/ \E old \in SUBSET Id : PruneLedger(old)
           \/ \E id \in Id : Expire(id) \/ (\E token \in Token : ReLease(id, token))
    PROVE  TypeOK'
<1> USE DEF durable, stateVars, pollVars, backendVars, history, bounds
<1>1. EmptyRow \in Row /\ NoRequest \in Request
  BY DEF EmptyRow, Row, Columns, NoRequest, Request, RequestFields, Reply
<1>2. CASE \E offer \in SUBSET Id : ConfigUpdate(offer)
  BY <1>2, QueueCommandsTyped DEF TypeOK, ConfigUpdate
<1>3. CASE Crash
  <2>1. op' \in [Handler -> Request]
    BY <1>1, <1>3 DEF Crash
  <2>2. results' \in [Id -> Outcome \cup {"none"}]
    BY <1>3 DEF Crash, AbandonTurn, NoResults
  <2>3. crashes' \in Nat
    BY <1>3 DEF Crash, TypeOK
  <2> QED
    BY <1>3, <2>1, <2>2, <2>3 DEF TypeOK, Crash, AbandonTurn
<1>4. CASE Boot
  BY <1>4, CompoundRowsStayRows DEF TypeOK, Boot
<1>5. CASE BootQuarantined
  BY <1>1, <1>5 DEF TypeOK, BootQuarantined
<1>6. CASE \E old \in SUBSET Id : PruneLedger(old)
  BY <1>1, <1>6 DEF TypeOK, PruneLedger
<1>7. CASE \E id \in Id : Expire(id)
  BY <1>7 DEF TypeOK, Expire
<1>8. CASE \E id \in Id, token \in Token : ReLease(id, token)
  BY <1>8 DEF TypeOK, ReLease
<1> QED
  BY <1>2, <1>3, <1>4, <1>5, <1>6, <1>7, <1>8

\* No step of the command plane breaks the types.
LEMMA NextTyped == TypeOK /\ [Next]_vars => TypeOK'
<1> SUFFICES ASSUME TypeOK, [Next]_vars PROVE TypeOK'
  OBVIOUS
<1>1. CASE PollStep
  BY <1>1, PollStepTyped
<1>2. CASE \E h \in Handler :
              \/ HandlerStep(h)
              \/ \E id \in Id : OperateRequest(h, id) \/ OperateUnavailable(h, id)
  BY <1>2, HandlerStepTyped
<1>3. CASE \/ \E offer \in SUBSET Id : ConfigUpdate(offer)
           \/ Crash \/ Boot \/ BootQuarantined
           \/ \E old \in SUBSET Id : PruneLedger(old)
           \/ \E id \in Id : Expire(id) \/ (\E token \in Token : ReLease(id, token))
  BY <1>3, EnvironmentStepTyped
<1>4. CASE UNCHANGED vars
  BY <1>4 DEF TypeOK, vars
<1> QED
  BY <1>1, <1>2, <1>3, <1>4 DEF Next

\* Type correctness: every reachable state of the command plane is well-typed,
\* a completed row of the journal and a driven request always with a result.
THEOREM TypeCorrect == Spec => []TypeOK
<1> QED
  BY InitTyped, NextTyped, PTL DEF Spec

-----------------------------------------------------------------------------
(* A command is driven at most once *)

IInv == TypeOK /\ CommandInvariant

\* What the journal says of a row: where it stands and its result.
SameStatus(row, new) == new.state = row.state /\ new.result = row.result

\* No row is inserted, completed or deleted.
StatesKept == \A id \in Id : SameStatus(ledger[id], ledger'[id])

\* Statements that keep state and result of every row of a batch.
LEMMA JournalsKeepStates ==
    ASSUME TypeOK, NEW ids
    PROVE  \A id \in Id :
              /\ SameStatus(ledger[id], AcksMarked(ids)[id])
              /\ SameStatus(ledger[id], ResultsMarked(ids)[id])
              /\ SameStatus(ledger[id], FailuresCounted(ids)[id])
<1>1. \A id \in Id : ledger[id] \in Row
  BY DEF TypeOK
<1>2. \A id \in Id : SameStatus(ledger[id], AcksMarked(ids)[id])
  BY <1>1, RowStates DEF AcksMarked, SameStatus
<1>3. \A id \in Id : SameStatus(ledger[id], ResultsMarked(ids)[id])
  BY <1>1, RowStates DEF ResultsMarked, SameStatus
<1>4. \A id \in Id : SameStatus(ledger[id], FailuresCounted(ids)[id])
  BY <1>1, CountFailureState DEF FailuresCounted, SameStatus
<1> QED
  BY <1>2, <1>3, <1>4

\* INSERT OR IGNORE: a recorded row stays as it is, an absent one is inserted.
LEMMA DispatchedRows ==
    ASSUME TypeOK, NEW id \in Id, NEW token \in Token \cup {NoToken}
    PROVE  /\ \A other \in Id \ {id} : Dispatched(id, token)[other] = ledger[other]
           /\ Recorded(ledger[id]) => Dispatched(id, token) = ledger
           /\ ~Recorded(ledger[id]) => /\ Dispatched(id, token)[id].state = "dispatching"
                                       /\ Dispatched(id, token)[id].result = "none"
<1>1. ledger \in [Id -> Row]
  BY DEF TypeOK
<1> QED
  BY <1>1 DEF Dispatched, StartDispatch, EmptyRow

\* Recording completes the row; no other row is touched.
LEMMA SettledRows ==
    ASSUME TypeOK, NEW id \in Id, NEW result
    PROVE  /\ \A other \in Id \ {id} : Settled(id, result)[other] = ledger[other]
           /\ Recorded(ledger[id]) => Settled(id, result)[id].state = "completed"
           /\ Settled(id, result)[id].result \in {ledger[id].result, result}
<1>1. ledger \in [Id -> Row]
  BY DEF TypeOK
<1>2. \A row \in Row : /\ Recorded(row) => RecordResult(row, result).state = "completed"
                       /\ RecordResult(row, result).result \in {row.result, result}
  BY DEF RecordResult, Row, Columns
<1> QED
  BY <1>1, <1>2 DEF Settled

\* Requeueing an ACK (ack_yeniden_kuyrukla) keeps state and result of all rows.
LEMMA RequeuedRows ==
    ASSUME TypeOK, NEW cmd \in Command
    PROVE  \A id \in Id : SameStatus(ledger[id], Requeued(cmd)[id])
<1>1. ledger \in [Id -> Row] /\ cmd.id \in Id
  BY DEF TypeOK, Command
<1> QED
  BY <1>1, RowStates DEF Requeued, SameStatus

\* A step after which no command has a new owner keeps the invariant.
LEMMA FewerOwnersKeepInvariant ==
    ASSUME IInv, UNCHANGED <<up, crobs, pruned, expired>>,
           fresh' \subseteq fresh,
           \A id \in Id : results'[id] \in {results[id], "none"},
           \A id \in Id, h \in Handler :
              RequestOwns(h, id)' => RequestOwns(h, id) /\ op'[h].pc = op[h].pc,
           \A id \in Id :
              /\ Recorded(ledger[id]) => Recorded(ledger'[id])
              /\ PollOwns(id)' \/ (\E h \in Handler : RequestOwns(h, id)')
                    => ledger'[id].state = ledger[id].state
    PROVE  CommandInvariant'
<1>1. OneOwner'
  BY DEF IInv, CommandInvariant, OneOwner, PollOwns
<1>2. NotYetDriven'
  BY DEF IInv, CommandInvariant, NotYetDriven
<1>3. AtMostOneCrob'
  BY DEF IInv, CommandInvariant, AtMostOneCrob
<1> QED
  BY <1>1, <1>2, <1>3 DEF CommandInvariant

\* A step that neither changes who owns a command nor drives one keeps the
\* invariant: most steps of the command plane are of this kind.
LEMMA BystanderKeepsInvariant ==
    ASSUME IInv, StatesKept, expired \subseteq expired',
           UNCHANGED <<up, fresh, results, op, crobs, pruned>>
    PROVE  CommandInvariant'
<1>1. OneOwner'
  BY DEF IInv, CommandInvariant, OneOwner, PollOwns, RequestOwns, StatesKept, SameStatus
<1>2. NotYetDriven'
  BY DEF IInv, CommandInvariant, NotYetDriven, RequestOwns, StatesKept, SameStatus, Recorded
<1>3. AtMostOneCrob'
  BY DEF IInv, CommandInvariant, AtMostOneCrob
<1> QED
  BY <1>1, <1>2, <1>3 DEF CommandInvariant

\* The steps of the poll thread that own nothing anew.
PollBystander ==
    \/ AcksNotSent \/ AcksSent \/ FetchFails \/ TakePendingCommands
    \/ \E offer \in SUBSET Id : FetchPendingCommands(offer)
    \/ \E cmd \in taken : LookUp(cmd)
    \/ AllReserved \/ AllExecuted \/ AllRecorded
    \/ NoResultsDue \/ ResultsDelivered
    \/ \E failure \in Failure : ResultsFail(failure)

\* The poll steps that neither reserve, nor drive, nor record are bystanders.
LEMMA PollBystanderSteps ==
    ASSUME TypeOK, PollBystander
    PROVE  /\ StatesKept
           /\ UNCHANGED <<up, fresh, results, op, expired, crobs, verdict, pruned>>
<1> USE DEF durable, stateVars, pollVars, backendVars, history, bounds
<1>1. UNCHANGED <<up, fresh, results, op, expired, crobs, verdict, pruned>>
  BY DEF PollBystander, AcksNotSent, AcksSent, FetchFails, TakePendingCommands,
         FetchPendingCommands, LookUp, AllReserved, AllExecuted, AllRecorded,
         NoResultsDue, ResultsDelivered, ResultsFail
<1>2. StatesKept
  <2>1. CASE AcksSent
    BY <2>1, JournalsKeepStates DEF AcksSent, StatesKept, SameStatus
  <2>2. CASE ResultsDelivered
    BY <2>2, JournalsKeepStates DEF ResultsDelivered, StatesKept
  <2>3. CASE \E failure \in Failure : ResultsFail(failure)
    <3>1. PICK counted, last :
             \/ UNCHANGED ledger
             \/ ledger' = FailuresCounted(counted)
             \/ ledger' = [FailuresCounted(counted)
                             EXCEPT ![last] = BumpDeliveryFailure(@)]
      BY <2>3 DEF ResultsFail
    <3>2. \A id \in Id : FailuresCounted(counted)[id] \in Row
      BY JournalsTyped
    <3>3. \A id \in Id :
             SameStatus(ledger[id], BumpDeliveryFailure(FailuresCounted(counted)[id]))
      BY <3>2, RowStates, JournalsKeepStates DEF SameStatus
    <3>4. DOMAIN FailuresCounted(counted) = Id
      BY DEF FailuresCounted
    <3>5. CASE UNCHANGED ledger
      BY <3>5 DEF StatesKept, SameStatus
    <3>6. CASE ledger' = FailuresCounted(counted)
      BY <3>6, JournalsKeepStates DEF StatesKept
    <3>7. CASE ledger' = [FailuresCounted(counted)
                             EXCEPT ![last] = BumpDeliveryFailure(@)]
      <4>1. \A id \in Id : \/ ledger'[id] = FailuresCounted(counted)[id]
                           \/ ledger'[id] = BumpDeliveryFailure(FailuresCounted(counted)[id])
        BY <3>4, <3>7
      <4> QED
        BY <4>1, <3>3, JournalsKeepStates DEF StatesKept
    <3> QED
      BY <3>1, <3>5, <3>6, <3>7
  <2>4. CASE \E cmd \in taken : LookUp(cmd)
    <3>1. PICK cmd \in taken : LookUp(cmd)
      BY <2>4
    <3>2. cmd \in Command
      BY DEF TypeOK
    <3>3. ledger' \in {ledger, Requeued(cmd)}
      BY <3>1 DEF LookUp
    <3> QED
      BY <3>2, <3>3, RequeuedRows DEF StatesKept, SameStatus
  <2> QED
    BY <2>1, <2>2, <2>3, <2>4
       DEF PollBystander, StatesKept, SameStatus, AcksNotSent, FetchFails,
           TakePendingCommands, FetchPendingCommands, AllReserved, AllExecuted,
           AllRecorded, NoResultsDue
<1> QED
  BY <1>1, <1>2

\* Hence these poll steps keep the invariant.
LEMMA PollBystanders == ASSUME IInv, PollBystander PROVE CommandInvariant'
<1> QED
  BY PollBystanderSteps, BystanderKeepsInvariant DEF IInv

\* The poll turn comes to own an id by inserting its row, drives it once while
\* it owns it, and gives it up when it completes the row.
LEMMA PollOwners ==
    ASSUME IInv,
           \/ \E cmd \in missed : Reserve(cmd)
           \/ \E id \in fresh, outcome \in Outcome : Execute(id, outcome)
           \/ \E id \in Id : Record(id)
           \/ TurnFails
    PROVE  CommandInvariant'
<1> USE DEF durable, stateVars, pollVars, backendVars, history, bounds
<1>0. TypeOK /\ OneOwner /\ NotYetDriven /\ AtMostOneCrob
  BY DEF IInv, CommandInvariant
<1>1. CASE \E cmd \in missed : Reserve(cmd)
  <2>1. PICK cmd \in missed : Reserve(cmd)
    BY <1>1
  <2>2. cmd.id \in Id /\ cmd.token \in Token \cup {NoToken} /\ ledger \in [Id -> Row]
    BY <1>0 DEF TypeOK, Command
  <2>3. CASE Recorded(ledger[cmd.id])
    <3>1. UNCHANGED <<ledger, fresh>>
      BY <1>0, <2>1, <2>2, <2>3, DispatchedRows DEF Reserve
    <3> QED
      BY <2>1, <3>1, BystanderKeepsInvariant DEF Reserve, StatesKept, SameStatus
  <2>4. CASE ~Recorded(ledger[cmd.id])
    <3>1. /\ ledger'[cmd.id].state = "dispatching"
          /\ \A id \in Id \ {cmd.id} : ledger'[id] = ledger[id]
          /\ fresh' = fresh \cup {cmd.id}
      BY <1>0, <2>1, <2>2, <2>4, DispatchedRows DEF Reserve
    <3>2. UNCHANGED <<up, results, op, crobs, pruned, expired>> /\ up
      BY <2>1 DEF Reserve
    <3>3. ~PollOwns(cmd.id) /\ \A h \in Handler : ~RequestOwns(h, cmd.id)
      BY <1>0, <2>2, <2>4 DEF OneOwner, Recorded
    <3>4. OneOwner'
      BY <1>0, <3>1, <3>2, <3>3 DEF OneOwner, PollOwns, RequestOwns
    <3>5. crobs[cmd.id] = 0 \/ cmd.id \in pruned
      BY <1>0, <2>2, <2>4 DEF NotYetDriven, TypeOK
    <3>6. NotYetDriven'
      BY <1>0, <3>1, <3>2, <3>5 DEF NotYetDriven, RequestOwns, Recorded
    <3>7. AtMostOneCrob'
      BY <1>0, <3>2 DEF AtMostOneCrob
    <3> QED
      BY <3>4, <3>6, <3>7 DEF CommandInvariant
  <2> QED
    BY <2>3, <2>4
<1>2. CASE \E id \in fresh, outcome \in Outcome : Execute(id, outcome)
  <2>1. PICK id \in fresh, outcome \in Outcome : Execute(id, outcome)
    BY <1>2
  <2>2. /\ id \in Id
        /\ fresh' = fresh \ {id}
        /\ results' = [results EXCEPT ![id] = outcome]
        /\ results \in [Id -> Outcome \cup {"none"}]
        /\ UNCHANGED <<ledger, up, op, pruned, expired>>
        /\ outcome # "none"
    BY <1>0, <2>1 DEF Execute, TypeOK, Outcome
  <2>3. /\ PollOwns(id)
        /\ \A other \in Id : PollOwns(other)' <=> PollOwns(other)
    BY <2>2 DEF PollOwns
  <2>4. OneOwner'
    BY <1>0, <2>2, <2>3 DEF OneOwner, RequestOwns, PollOwns
  <2>5. \A other \in Id \ {id} : crobs'[other] = crobs[other]
    BY <1>0, <2>1 DEF Execute, Drive, TypeOK
  <2>6. CASE id \in pruned
    <3>1. UNCHANGED crobs
      BY <1>0, <2>1, <2>6 DEF NotYetDriven, Execute, Drive
    <3>2. NotYetDriven' /\ AtMostOneCrob'
      BY <1>0, <2>2, <3>1 DEF NotYetDriven, AtMostOneCrob, RequestOwns
    <3> QED
      BY <2>4, <3>2 DEF CommandInvariant
  <2>7. CASE id \notin pruned
    <3>1. crobs[id] = 0 /\ crobs \in [Id -> Nat]
      BY <1>0, <2>2, <2>7 DEF NotYetDriven, TypeOK
    <3>2. crobs'[id] \in {0, 1}
      <4>1. UNCHANGED crobs \/ crobs' = [crobs EXCEPT ![id] = @ + 1]
        BY <2>1 DEF Execute, Drive
      <4>2. id \in Id
        BY <2>2
      <4> QED
        BY <3>1, <4>1, <4>2
    <3>3. AtMostOneCrob'
      BY <1>0, <2>5, <3>2 DEF AtMostOneCrob
    <3>4. Recorded(ledger[id]) /\ \A h \in Handler : ~RequestOwns(h, id)
      BY <1>0, <2>2, <2>3 DEF OneOwner, Recorded
    <3>5. NotYetDriven'
      BY <1>0, <2>2, <2>5, <3>4 DEF NotYetDriven, RequestOwns
    <3> QED
      BY <2>4, <3>3, <3>5 DEF CommandInvariant
  <2> QED
    BY <2>6, <2>7
<1>3. CASE \E id \in Id : Record(id)
  <2>1. PICK id \in Id : Record(id)
    BY <1>3
  <2>2. /\ results' = [results EXCEPT ![id] = "none"]
        /\ results \in [Id -> Outcome \cup {"none"}]
        /\ ledger \in [Id -> Row]
        /\ \A other \in Id \ {id} : ledger'[other] = ledger[other]
        /\ UNCHANGED <<up, fresh, op, crobs, pruned, expired>>
    BY <1>0, <2>1, SettledRows DEF Record, TypeOK
  <2>3. PollOwns(id) /\ ledger[id].state = "dispatching"
    BY <1>0, <2>1 DEF Record, PollOwns, OneOwner
  <2>4. ledger'[id].state = "completed"
    BY <1>0, <2>1, <2>3, SettledRows DEF Record, Recorded
  <2>5. ~PollOwns(id)' /\ \A h \in Handler : ~RequestOwns(h, id)
    BY <1>0, <2>1, <2>2, <2>3 DEF OneOwner, PollOwns, Record
  <2>6. OneOwner'
    BY <1>0, <2>2, <2>5 DEF OneOwner, PollOwns, RequestOwns
  <2>7. NotYetDriven'
    BY <1>0, <2>2, <2>4 DEF NotYetDriven, RequestOwns, Recorded
  <2>8. AtMostOneCrob'
    BY <1>0, <2>2 DEF AtMostOneCrob
  <2> QED
    BY <2>6, <2>7, <2>8 DEF CommandInvariant
<1>4. CASE TurnFails
  <2>1. /\ fresh' = {} /\ results' = NoResults
        /\ UNCHANGED <<up, op, crobs, pruned, expired>>
    BY <1>4 DEF TurnFails, AbandonTurn
  <2>2. /\ \A id \in Id : Recorded(ledger[id]) => Recorded(ledger'[id])
        /\ \A id \in Id, h \in Handler :
              RequestOwns(h, id) => ledger'[id].state = ledger[id].state
    <3>1. CASE \E cmd \in taken : ledger' \in {ledger, Requeued(cmd)}
      BY <1>0, <3>1, RequeuedRows DEF TypeOK, SameStatus, Recorded
    <3>2. CASE \E cmd \in missed : ledger' \in {ledger, Dispatched(cmd.id, cmd.token)}
      <4>1. PICK cmd \in missed : ledger' \in {ledger, Dispatched(cmd.id, cmd.token)}
        BY <3>2
      <4>2. cmd.id \in Id /\ cmd.token \in Token \cup {NoToken}
        BY <1>0 DEF TypeOK, Command
      <4>3. \A h \in Handler : RequestOwns(h, cmd.id) => Recorded(ledger[cmd.id])
        BY <1>0, <4>2 DEF OneOwner, Recorded
      <4> QED
        BY <1>0, <4>1, <4>2, <4>3, DispatchedRows DEF Recorded
    <3>3. CASE \E id \in Id : /\ results[id] # "none"
                              /\ ledger' \in {ledger, Settled(id, results[id])}
      <4>1. PICK id \in Id : /\ results[id] # "none"
                             /\ ledger' \in {ledger, Settled(id, results[id])}
        BY <3>3
      <4>2. Recorded(ledger[id]) /\ \A h \in Handler : ~RequestOwns(h, id)
        BY <1>0, <4>1 DEF OneOwner, PollOwns, Recorded
      <4> QED
        BY <1>0, <4>1, <4>2, SettledRows DEF Recorded
    <3> QED
      BY <1>4, <3>1, <3>2, <3>3 DEF TurnFails
  <2>3. \A id \in Id : ~PollOwns(id)'
    BY <2>1 DEF PollOwns, NoResults
  <2>4. \A id \in Id, h \in Handler : RequestOwns(h, id)' <=> RequestOwns(h, id)
    BY <2>1 DEF RequestOwns
  <2> QED
    BY <2>1, <2>2, <2>3, <2>4, FewerOwnersKeepInvariant DEF NoResults
<1> QED
  BY <1>1, <1>2, <1>3, <1>4

\* An /operate request comes to own an id the same way.
LEMMA HandlerOwners ==
    ASSUME IInv, NEW h \in Handler,
           \/ HandlerStep(h)
           \/ \E id \in Id : OperateRequest(h, id) \/ OperateUnavailable(h, id)
    PROVE  CommandInvariant'
<1> USE DEF durable, stateVars, pollVars, backendVars, history, bounds
<1>0. TypeOK /\ OneOwner /\ NotYetDriven /\ AtMostOneCrob
  BY DEF IInv, CommandInvariant
<1>a. op \in [Handler -> Request] /\ ledger \in [Id -> Row]
  BY <1>0 DEF TypeOK
<1>1. CASE \E outcome \in Outcome : OperateDevice(h, outcome)
  <2>1. PICK outcome \in Outcome : OperateDevice(h, outcome)
    BY <1>1
  <2>2. PICK id \in Id : op[h].id = id /\ op[h].pc = "operating"
    BY <1>a, <2>1 DEF OperateDevice, Request, RequestFields
  <2>3. UNCHANGED <<ledger, up, fresh, results, pruned, expired>>
    BY <2>1 DEF OperateDevice
  <2>4. /\ op'[h].pc = "recording" /\ op'[h].id = id
        /\ \A g \in Handler \ {h} : op'[g] = op[g]
    BY <1>a, <2>1, <2>2 DEF OperateDevice, Request, RequestFields
  <2>5. RequestOwns(h, id)
    BY <2>2 DEF RequestOwns
  <2>6. \A g \in Handler, other \in Id : RequestOwns(g, other)' <=> RequestOwns(g, other)
    BY <2>2, <2>4 DEF RequestOwns
  <2>7. OneOwner'
    BY <1>0, <2>3, <2>6 DEF OneOwner, PollOwns
  <2>8. crobs[id] = 0 /\ crobs \in [Id -> Nat]
    BY <1>0, <2>2, <2>5 DEF NotYetDriven, TypeOK
  <2>9. /\ crobs'[id] \in {0, 1}
        /\ \A other \in Id \ {id} : crobs'[other] = crobs[other]
    <3>1. UNCHANGED crobs \/ crobs' = [crobs EXCEPT ![id] = @ + 1]
      BY <2>1, <2>2 DEF OperateDevice, Drive
    <3> QED
      BY <2>2, <2>8, <3>1
  <2>10. AtMostOneCrob'
    BY <1>0, <2>9 DEF AtMostOneCrob
  <2>11. /\ Recorded(ledger[id]) /\ ~PollOwns(id)
         /\ \A g \in Handler \ {h} : ~RequestOwns(g, id)
    BY <1>0, <2>2, <2>5 DEF OneOwner, Recorded
  <2>12. NotYetDriven'
    BY <1>0, <2>2, <2>3, <2>4, <2>9, <2>11 DEF NotYetDriven, RequestOwns, PollOwns
  <2> QED
    BY <2>7, <2>10, <2>12 DEF CommandInvariant
<1>2. CASE OperateReply(h)
  <2>1. PICK id \in Id : op[h].id = id /\ op[h].pc = "recording" /\ RequestOwns(h, id)
    BY <1>a, <1>2 DEF OperateReply, Request, RequestFields, RequestOwns
  <2>2. /\ UNCHANGED <<up, fresh, results, crobs, pruned, expired>>
        /\ op'[h].pc = "replied"
        /\ \A g \in Handler \ {h} : op'[g] = op[g]
    BY <1>a, <1>2 DEF OperateReply, Request, RequestFields
  <2>3. ledger' \in {ledger, Settled(id, op[h].result)}
    BY <1>2, <2>1 DEF OperateReply
  <2>4. /\ Recorded(ledger[id]) /\ ~PollOwns(id)
        /\ \A g \in Handler \ {h} : ~RequestOwns(g, id)
    BY <1>0, <2>1 DEF OneOwner, Recorded
  <2>5. /\ \A other \in Id \ {id} : ledger'[other] = ledger[other]
        /\ Recorded(ledger'[id])
    BY <1>0, <2>3, <2>4, SettledRows DEF Recorded
  <2>6. \A g \in Handler, other \in Id :
           RequestOwns(g, other)' => RequestOwns(g, other) /\ op'[g].pc = op[g].pc /\ g # h
    BY <2>2 DEF RequestOwns
  <2>7. \A other \in Id : PollOwns(other)' <=> PollOwns(other)
    BY <2>2 DEF PollOwns
  <2> QED
    BY <2>2, <2>4, <2>5, <2>6, <2>7, FewerOwnersKeepInvariant
<1>3. CASE \E id \in Id : OperateRequest(h, id)
  <2>1. PICK id \in Id : OperateRequest(h, id)
    BY <1>3
  <2>2. /\ UNCHANGED <<up, fresh, results, crobs, pruned, expired>> /\ up
        /\ \A g \in Handler \ {h} : op'[g] = op[g]
        /\ op'[h].pc = IF Recorded(ledger[id]) THEN "answering" ELSE "operating"
        /\ op'[h].id = id
        /\ ledger' = Dispatched(id, NoToken)
        /\ id \notin expired
    BY <1>a, <2>1 DEF OperateRequest, NoRequest
  <2>3. \A other \in Id : ~RequestOwns(h, other)
    BY <2>1 DEF OperateRequest, Idle, RequestOwns
  <2>4. CASE Recorded(ledger[id])
    <3>1. UNCHANGED ledger
      BY <1>0, <2>2, <2>4, DispatchedRows
    <3>2. \A g \in Handler, other \in Id :
             RequestOwns(g, other)' => RequestOwns(g, other) /\ op'[g].pc = op[g].pc
      BY <2>2, <2>4 DEF RequestOwns
    <3> QED
      BY <2>2, <3>1, <3>2, FewerOwnersKeepInvariant
  <2>5. CASE ~Recorded(ledger[id])
    <3>1. /\ ledger'[id].state = "dispatching"
          /\ \A other \in Id \ {id} : ledger'[other] = ledger[other]
      BY <1>0, <2>2, <2>5, DispatchedRows
    <3>2. op'[h].pc = "operating" /\ op'[h].id = id
      BY <2>2, <2>5
    <3>3. ~PollOwns(id) /\ \A g \in Handler : ~RequestOwns(g, id)
      BY <1>0, <2>5 DEF OneOwner, Recorded
    <3>4. OneOwner'
      BY <1>0, <2>2, <2>3, <3>1, <3>2, <3>3 DEF OneOwner, PollOwns, RequestOwns
    <3>5. id \notin pruned /\ crobs[id] = 0
      BY <1>0, <2>2, <2>5 DEF NotYetDriven, TypeOK
    <3>6. NotYetDriven'
      BY <1>0, <2>2, <2>3, <3>1, <3>2, <3>5 DEF NotYetDriven, RequestOwns, Recorded
    <3>7. AtMostOneCrob'
      BY <1>0, <2>2 DEF AtMostOneCrob
    <3> QED
      BY <3>4, <3>6, <3>7 DEF CommandInvariant
  <2> QED
    BY <2>4, <2>5
<1>4. CASE \E id \in Id : OperateUnavailable(h, id)
  <2>1. PICK id \in Id : OperateUnavailable(h, id)
    BY <1>4
  <2>2. /\ UNCHANGED <<up, fresh, results, crobs, pruned, expired>>
        /\ \A g \in Handler \ {h} : op'[g] = op[g]
        /\ op'[h].pc = "replied"
        /\ ledger' \in {ledger, Dispatched(id, NoToken)}
    BY <1>a, <2>1 DEF OperateUnavailable, NoRequest
  <2>3. /\ \A other \in Id : Recorded(ledger[other]) => ledger'[other] = ledger[other]
        /\ \A other \in Id : ledger'[other] # ledger[other] => other = id
    BY <1>0, <2>2, DispatchedRows
  <2>4. \A g \in Handler, other \in Id :
           RequestOwns(g, other)' => RequestOwns(g, other) /\ op'[g].pc = op[g].pc
    BY <2>2 DEF RequestOwns
  <2>5. \A other \in Id : PollOwns(other)' <=> PollOwns(other)
    BY <2>2 DEF PollOwns
  <2>6. \A other \in Id, g \in Handler :
           PollOwns(other) \/ RequestOwns(g, other) => Recorded(ledger[other])
    BY <1>0 DEF OneOwner, Recorded
  <2> QED
    BY <2>2, <2>3, <2>4, <2>5, <2>6, FewerOwnersKeepInvariant
<1>5. CASE OperateDuplicate(h)
  <2>1. /\ UNCHANGED <<ledger, up, fresh, results, crobs, pruned, expired>>
        /\ \A g \in Handler \ {h} : op'[g] = op[g]
        /\ op'[h].pc = "replied"
    BY <1>a, <1>5 DEF OperateDuplicate, Request, RequestFields
  <2>2. \A g \in Handler, other \in Id :
           RequestOwns(g, other)' => RequestOwns(g, other) /\ op'[g].pc = op[g].pc
    BY <2>1 DEF RequestOwns
  <2> QED
    BY <2>1, <2>2, FewerOwnersKeepInvariant
<1> QED
  BY <1>1, <1>2, <1>3, <1>4, <1>5 DEF HandlerStep

\* Nobody owns a command over a crash or a restart; a pruned row had no owner.
LEMMA EnvironmentOwners ==
    ASSUME IInv,
           \/ \E offer \in SUBSET Id : ConfigUpdate(offer)
           \/ Crash \/ Boot \/ BootQuarantined
           \/ \E old \in SUBSET Id : PruneLedger(old)
           \/ \E id \in Id : Expire(id) \/ (\E token \in Token : ReLease(id, token))
    PROVE  CommandInvariant'
<1> USE DEF durable, stateVars, pollVars, backendVars, history, bounds
<1>0. TypeOK /\ OneOwner /\ NotYetDriven /\ AtMostOneCrob
  BY DEF IInv, CommandInvariant
<1>1. CASE \/ \E offer \in SUBSET Id : ConfigUpdate(offer)
           \/ \E id \in Id : Expire(id) \/ (\E token \in Token : ReLease(id, token))
  <2>1. /\ UNCHANGED <<ledger, up, fresh, results, op, crobs, pruned>>
        /\ expired \subseteq expired'
    BY <1>1 DEF ConfigUpdate, Expire, ReLease
  <2> QED
    BY <2>1, BystanderKeepsInvariant DEF StatesKept, SameStatus
<1>2. CASE Crash
  <2>1. /\ fresh' = {} /\ results' = NoResults /\ op' = [h \in Handler |-> NoRequest]
        /\ UNCHANGED <<ledger, crobs, pruned, expired>>
    BY <1>2 DEF Crash, AbandonTurn
  <2>2. OneOwner'
    BY <2>1 DEF OneOwner, PollOwns, RequestOwns, NoResults, NoRequest
  <2>3. NotYetDriven' /\ AtMostOneCrob'
    BY <1>0, <2>1 DEF NotYetDriven, AtMostOneCrob, RequestOwns, NoRequest
  <2> QED
    BY <2>2, <2>3 DEF CommandInvariant
<1>3. CASE Boot
  <2>1. /\ UNCHANGED <<fresh, results, op, crobs, pruned, expired>> /\ ~up
        /\ ledger' = [id \in Id |-> RecoverUnknownResult(ledger[id])]
    BY <1>3 DEF Boot
  <2>2. \A id \in Id : ~PollOwns(id) /\ \A h \in Handler : ~RequestOwns(h, id)
    BY <1>0, <2>1 DEF OneOwner
  <2>3. \A id \in Id : Recorded(ledger[id]) => Recorded(ledger'[id])
    <3>1. \A row \in Row : Recorded(row) => Recorded(RecoverUnknownResult(row))
      BY DEF Recorded, RecoverUnknownResult, RecordResult, Row, Columns
    <3> QED
      BY <1>0, <2>1, <3>1 DEF TypeOK
  <2>4. OneOwner'
    BY <2>1, <2>2 DEF OneOwner, PollOwns, RequestOwns
  <2>5. NotYetDriven' /\ AtMostOneCrob'
    BY <1>0, <2>1, <2>3 DEF NotYetDriven, AtMostOneCrob, RequestOwns
  <2> QED
    BY <2>4, <2>5 DEF CommandInvariant
<1>4. CASE BootQuarantined
  <2>1. /\ UNCHANGED <<fresh, results, op, expired>> /\ ~up
        /\ crobs' = [id \in Id |-> 0] /\ pruned' = {}
    BY <1>4 DEF BootQuarantined
  <2>2. \A id \in Id : ~PollOwns(id) /\ \A h \in Handler : ~RequestOwns(h, id)
    BY <1>0, <2>1 DEF OneOwner
  <2>3. OneOwner'
    BY <2>1, <2>2 DEF OneOwner, PollOwns, RequestOwns
  <2>4. NotYetDriven' /\ AtMostOneCrob'
    BY <2>1, <2>2 DEF NotYetDriven, AtMostOneCrob, RequestOwns, PollOwns
  <2> QED
    BY <2>3, <2>4 DEF CommandInvariant
<1>5. CASE \E old \in SUBSET Id : PruneLedger(old)
  <2>1. PICK old \in SUBSET Id : PruneLedger(old)
    BY <1>5
  <2>2. /\ UNCHANGED <<up, fresh, results, op, crobs, expired>>
        /\ \A id \in Id \ old : ledger'[id] = ledger[id]
        /\ pruned' = pruned \cup old /\ old \subseteq expired
        /\ \A id \in old : ledger[id].state = "completed"
    BY <1>0, <2>1 DEF PruneLedger, Prunable, TypeOK
  <2>3. \A id \in old : ~PollOwns(id) /\ \A h \in Handler : ~RequestOwns(h, id)
    BY <1>0, <2>2 DEF OneOwner
  <2>4. OneOwner'
    BY <1>0, <2>2, <2>3 DEF OneOwner, PollOwns, RequestOwns
  <2>5. NotYetDriven' /\ AtMostOneCrob'
    BY <1>0, <2>2, <2>3 DEF NotYetDriven, AtMostOneCrob, RequestOwns
  <2> QED
    BY <2>4, <2>5 DEF CommandInvariant
<1> QED
  BY <1>1, <1>2, <1>3, <1>4, <1>5

\* The invariant holds when the process first starts.
LEMMA InitInvariant == Init => IInv
<1> SUFFICES ASSUME Init PROVE CommandInvariant
  BY InitTyped DEF IInv
<1>1. OneOwner
  BY DEF Init, OneOwner, PollOwns, RequestOwns, NoResults, NoRequest
<1>2. NotYetDriven /\ AtMostOneCrob
  BY DEF Init, NotYetDriven, AtMostOneCrob, RequestOwns, NoRequest
<1> QED
  BY <1>1, <1>2 DEF CommandInvariant

\* The invariant is inductive.
LEMMA NextInvariant == IInv /\ [Next]_vars => IInv'
<1> SUFFICES ASSUME IInv, [Next]_vars PROVE CommandInvariant'
  BY NextTyped DEF IInv
<1>1. CASE PollStep
  BY <1>1, PollBystanders, PollOwners DEF PollStep, PollBystander
<1>2. CASE \E h \in Handler :
              \/ HandlerStep(h)
              \/ \E id \in Id : OperateRequest(h, id) \/ OperateUnavailable(h, id)
  BY <1>2, HandlerOwners
<1>3. CASE \/ \E offer \in SUBSET Id : ConfigUpdate(offer)
           \/ Crash \/ Boot \/ BootQuarantined
           \/ \E old \in SUBSET Id : PruneLedger(old)
           \/ \E id \in Id : Expire(id) \/ (\E token \in Token : ReLease(id, token))
  BY <1>3, EnvironmentOwners
<1>4. CASE UNCHANGED vars
  BY <1>4, BystanderKeepsInvariant DEF vars, StatesKept, SameStatus
<1> QED
  BY <1>1, <1>2, <1>3, <1>4 DEF Next

\* Every command has at most one owner, and an owner that has not driven its
\* command is the first to have it.
THEOREM CommandInvariantHolds == Spec => []CommandInvariant
<1>1. IInv => CommandInvariant
  BY DEF IInv
<1> QED
  BY <1>1, InitInvariant, NextInvariant, PTL DEF Spec

\* However many redeliveries, retries, handler threads, crashes and failing
\* journal calls there are, a command id is driven at most once per journal.
THEOREM DrivenAtMostOnce == Spec => []AtMostOneCrob
<1>1. IInv => AtMostOneCrob
  BY DEF IInv, CommandInvariant
<1> QED
  BY <1>1, InitInvariant, NextInvariant, PTL DEF Spec

-----------------------------------------------------------------------------
(* The journal knows of a command before the device does *)

\* Only the two steps that call operate_device send a CROB.
LEMMA WhoDrives ==
    ASSUME TypeOK, [Next]_vars, NEW id \in Id, crobs'[id] > crobs[id]
    PROVE  \/ id \in fresh
           \/ \E h \in Handler : RequestOwns(h, id)
<1> USE DEF durable, stateVars, pollVars, backendVars, history, bounds
<1>0. crobs \in [Id -> Nat]
  BY DEF TypeOK
<1>1. crobs' # crobs /\ ~(crobs'[id] = 0) /\ crobs'[id] # crobs[id]
  BY <1>0
<1>2. CASE \E cmd \in fresh, outcome \in Outcome : Execute(cmd, outcome)
  BY <1>0, <1>1, <1>2 DEF Execute, Drive
<1>3. CASE \E h \in Handler, outcome \in Outcome : OperateDevice(h, outcome)
  <2>1. PICK h \in Handler, outcome \in Outcome : OperateDevice(h, outcome)
    BY <1>3
  <2>2. op[h].id = id
    BY <1>0, <1>1, <2>1 DEF OperateDevice, Drive
  <2> QED
    BY <2>1, <2>2 DEF RequestOwns, OperateDevice
<1>4. CASE PollBystander
  BY <1>1, <1>4, PollBystanderSteps
<1>5. CASE \/ \E cmd \in missed : Reserve(cmd)
           \/ \E cmd \in Id : Record(cmd)
           \/ TurnFails
  BY <1>1, <1>5 DEF Reserve, Record, TurnFails
<1>6. CASE \E h \in Handler :
              \/ OperateReply(h) \/ OperateDuplicate(h)
              \/ \E cmd \in Id : OperateRequest(h, cmd) \/ OperateUnavailable(h, cmd)
  BY <1>1, <1>6 DEF OperateReply, OperateDuplicate, OperateRequest, OperateUnavailable
<1>7. CASE \/ \E offer \in SUBSET Id : ConfigUpdate(offer)
           \/ Crash \/ Boot \/ BootQuarantined
           \/ \E old \in SUBSET Id : PruneLedger(old)
           \/ \E cmd \in Id : Expire(cmd) \/ (\E token \in Token : ReLease(cmd, token))
  BY <1>1, <1>7
     DEF ConfigUpdate, Crash, Boot, BootQuarantined, PruneLedger, Expire, ReLease
<1>8. CASE UNCHANGED vars
  BY <1>1, <1>8 DEF vars
<1> QED
  BY <1>2, <1>3, <1>4, <1>5, <1>6, <1>7, <1>8
     DEF Next, PollStep, PollBystander, HandlerStep

\* A CROB goes out only while the journal on disk says dispatching.
THEOREM JournalledBeforeDriven == Spec => JournalBeforeCrob
<1> DEFINE Before ==
             \A id \in Id : crobs'[id] > crobs[id] => ledger[id].state = "dispatching"
<1>1. IInv /\ [Next]_vars => [Before]_vars
  <2> SUFFICES ASSUME IInv, [Next]_vars, NEW id \in Id, crobs'[id] > crobs[id]
               PROVE  ledger[id].state = "dispatching"
    OBVIOUS
  <2>1. \/ id \in fresh
        \/ \E h \in Handler : RequestOwns(h, id)
    BY WhoDrives DEF IInv
  <2> QED
    BY <2>1 DEF IInv, CommandInvariant, OneOwner, PollOwns
<1> QED
  BY <1>1, InitInvariant, NextInvariant, PTL DEF Spec, JournalBeforeCrob

-----------------------------------------------------------------------------
(* What the journal says of a command is what the device did *)

TInv == IInv /\ TruthInvariant

\* A step that neither drives nor records keeps what is known to be true.
LEMMA BystanderKeepsTruth ==
    ASSUME TInv, StatesKept, UNCHANGED <<results, op, crobs, verdict, pruned>>
    PROVE  TruthInvariant'
<1> QED
  BY DEF TInv, TruthInvariant, TrueOf, RequestOwns, StatesKept, SameStatus

\* The poll thread drives with the verdict it holds and records that verdict.
LEMMA PollOwnersTruth ==
    ASSUME TInv,
           \/ \E cmd \in missed : Reserve(cmd)
           \/ \E id \in fresh, outcome \in Outcome : Execute(id, outcome)
           \/ \E id \in Id : Record(id)
           \/ TurnFails
    PROVE  TruthInvariant'
<1> USE DEF durable, stateVars, pollVars, backendVars, history, bounds
<1>0. TypeOK /\ OneOwner /\ NotYetDriven /\ TruthInvariant
  BY DEF TInv, IInv, CommandInvariant
<1>a. ledger \in [Id -> Row] /\ results \in [Id -> Outcome \cup {"none"}]
  BY <1>0 DEF TypeOK
<1>1. CASE \E cmd \in missed : Reserve(cmd)
  <2>1. PICK cmd \in missed : Reserve(cmd)
    BY <1>1
  <2>2. cmd.id \in Id /\ cmd.token \in Token \cup {NoToken}
    BY <1>0 DEF TypeOK, Command
  <2>3. \A id \in Id : ledger'[id].result \in {ledger[id].result, "none"}
    BY <1>0, <2>1, <2>2, DispatchedRows DEF Reserve
  <2>4. UNCHANGED <<results, op, crobs, verdict, pruned>>
    BY <2>1 DEF Reserve
  <2> QED
    BY <1>0, <2>3, <2>4 DEF TruthInvariant, TrueOf, RequestOwns
<1>2. CASE \E id \in fresh, outcome \in Outcome : Execute(id, outcome)
  <2>1. PICK id \in fresh, outcome \in Outcome : Execute(id, outcome)
    BY <1>2
  <2>2. /\ id \in Id
        /\ results' = [results EXCEPT ![id] = outcome]
        /\ UNCHANGED <<ledger, op, pruned>>
    BY <1>0, <2>1 DEF Execute, TypeOK
  <2>3. \A other \in Id \ {id} : crobs'[other] = crobs[other] /\ verdict'[other] = verdict[other]
    BY <1>0, <2>1 DEF Execute, Drive, TypeOK
  <2>4. id \notin pruned => crobs[id] = 0
    BY <1>0, <2>1, <2>2 DEF NotYetDriven
  <2>5. id \notin pruned => TrueOf(id, outcome)'
    <3>1. CASE outcome = "rejected"
      BY <2>1, <2>4, <3>1 DEF Execute, Drive, TrueOf
    <3>2. CASE outcome # "rejected"
      <4>1. /\ crobs' = [crobs EXCEPT ![id] = @ + 1]
            /\ verdict' = [verdict EXCEPT ![id] = outcome]
        BY <2>1, <3>2 DEF Execute, Drive
      <4>2. crobs \in [Id -> Nat] /\ verdict \in [Id -> {"none", "ok", "failed"}]
        BY <1>0 DEF TypeOK
      <4> QED
        BY <2>2, <2>4, <3>2, <4>1, <4>2 DEF TrueOf
    <3> QED
      BY <3>1, <3>2
  <2>6. ledger[id].result = "none" /\ \A h \in Handler : ~RequestOwns(h, id)
    BY <1>0, <1>a, <2>1, <2>2 DEF OneOwner, PollOwns, Row, Columns
  <2> QED
    BY <1>0, <1>a, <2>2, <2>3, <2>5, <2>6 DEF TruthInvariant, TrueOf, RequestOwns
<1>3. CASE \E id \in Id : Record(id)
  <2>1. PICK id \in Id : Record(id)
    BY <1>3
  <2>2. /\ results' = [results EXCEPT ![id] = "none"]
        /\ \A other \in Id \ {id} : ledger'[other] = ledger[other]
        /\ ledger'[id].result \in {ledger[id].result, results[id]}
        /\ UNCHANGED <<op, crobs, verdict, pruned>>
    BY <1>0, <1>a, <2>1, SettledRows DEF Record
  <2> QED
    BY <1>0, <1>a, <2>2 DEF TruthInvariant, TrueOf, RequestOwns
<1>4. CASE TurnFails
  <2>1. results' = NoResults /\ UNCHANGED <<op, crobs, verdict, pruned>>
    BY <1>4 DEF TurnFails, AbandonTurn
  <2>2. \A id \in Id : ledger'[id].result \in {ledger[id].result, results[id], "none"}
    <3>1. CASE \E cmd \in taken : ledger' \in {ledger, Requeued(cmd)}
      BY <1>0, <3>1, RequeuedRows DEF TypeOK, SameStatus
    <3>2. CASE \E cmd \in missed : ledger' \in {ledger, Dispatched(cmd.id, cmd.token)}
      <4>1. PICK cmd \in missed : ledger' \in {ledger, Dispatched(cmd.id, cmd.token)}
        BY <3>2
      <4>2. cmd.id \in Id /\ cmd.token \in Token \cup {NoToken}
        BY <1>0 DEF TypeOK, Command
      <4> QED
        BY <1>0, <4>1, <4>2, DispatchedRows
    <3>3. CASE \E id \in Id : ledger' \in {ledger, Settled(id, results[id])}
      BY <1>0, <3>3, SettledRows
    <3> QED
      BY <1>4, <3>1, <3>2, <3>3 DEF TurnFails
  <2> QED
    BY <1>0, <2>1, <2>2 DEF TruthInvariant, TrueOf, RequestOwns, NoResults
<1> QED
  BY <1>1, <1>2, <1>3, <1>4

\* So does an /operate request.
LEMMA HandlerOwnersTruth ==
    ASSUME TInv, NEW h \in Handler,
           \/ HandlerStep(h)
           \/ \E id \in Id : OperateRequest(h, id) \/ OperateUnavailable(h, id)
    PROVE  TruthInvariant'
<1> USE DEF durable, stateVars, pollVars, backendVars, history, bounds
<1>0. TypeOK /\ OneOwner /\ NotYetDriven /\ TruthInvariant
  BY DEF TInv, IInv, CommandInvariant
<1>a. op \in [Handler -> Request] /\ ledger \in [Id -> Row]
  BY <1>0 DEF TypeOK
<1>1. CASE \E outcome \in Outcome : OperateDevice(h, outcome)
  <2>1. PICK outcome \in Outcome : OperateDevice(h, outcome)
    BY <1>1
  <2>2. PICK id \in Id : op[h].id = id /\ op[h].pc = "operating"
    BY <1>a, <2>1 DEF OperateDevice, Request, RequestFields
  <2>3. /\ UNCHANGED <<ledger, results, pruned>>
        /\ op'[h].pc = "recording" /\ op'[h].id = id /\ op'[h].result = outcome
        /\ \A g \in Handler \ {h} : op'[g] = op[g]
    BY <1>a, <2>1, <2>2 DEF OperateDevice, Request, RequestFields
  <2>4. RequestOwns(h, id)
    BY <2>2 DEF RequestOwns
  <2>5. \A other \in Id \ {id} : crobs'[other] = crobs[other] /\ verdict'[other] = verdict[other]
    BY <1>0, <2>1, <2>2 DEF OperateDevice, Drive, TypeOK
  <2>6. crobs[id] = 0 /\ id \notin pruned
    BY <1>0, <2>2, <2>4 DEF NotYetDriven
  <2>7. TrueOf(id, outcome)'
    <3>1. CASE outcome = "rejected"
      BY <2>1, <2>6, <3>1 DEF OperateDevice, Drive, TrueOf
    <3>2. CASE outcome # "rejected"
      <4>1. /\ crobs' = [crobs EXCEPT ![id] = @ + 1]
            /\ verdict' = [verdict EXCEPT ![id] = outcome]
        BY <2>1, <2>2, <3>2 DEF OperateDevice, Drive
      <4>2. crobs \in [Id -> Nat] /\ verdict \in [Id -> {"none", "ok", "failed"}]
        BY <1>0 DEF TypeOK
      <4> QED
        BY <2>6, <3>2, <4>1, <4>2 DEF TrueOf
    <3> QED
      BY <3>1, <3>2
  <2>8. /\ ledger[id].result = "none" /\ results[id] = "none"
        /\ \A g \in Handler \ {h} : ~RequestOwns(g, id)
    BY <1>0, <1>a, <2>4 DEF OneOwner, PollOwns, Row, Columns
  <2> QED
    BY <1>0, <2>3, <2>5, <2>7, <2>8 DEF TruthInvariant, TrueOf, RequestOwns
<1>2. CASE OperateReply(h)
  <2>1. PICK id \in Id : op[h].id = id /\ op[h].pc = "recording" /\ RequestOwns(h, id)
    BY <1>a, <1>2 DEF OperateReply, Request, RequestFields, RequestOwns
  <2>2. /\ UNCHANGED <<results, crobs, verdict, pruned>>
        /\ op'[h].pc = "replied"
        /\ \A g \in Handler \ {h} : op'[g] = op[g]
    BY <1>a, <1>2 DEF OperateReply, Request, RequestFields
  <2>3. /\ \A other \in Id \ {id} : ledger'[other].result = ledger[other].result
        /\ ledger'[id].result \in {ledger[id].result, op[h].result}
    <3>1. ledger' \in {ledger, Settled(id, op[h].result)}
      BY <1>2, <2>1 DEF OperateReply
    <3> QED
      BY <1>0, <3>1, SettledRows
  <2> QED
    BY <1>0, <2>1, <2>2, <2>3 DEF TruthInvariant, TrueOf, RequestOwns
<1>3. CASE \E id \in Id : OperateRequest(h, id)
  <2>1. PICK id \in Id : OperateRequest(h, id)
    BY <1>3
  <2>2. \A other \in Id : ledger'[other].result \in {ledger[other].result, "none"}
    <3>1. ledger' \in {ledger, Dispatched(id, NoToken)}
      BY <2>1 DEF OperateRequest
    <3>2. \A other \in Id :
             Dispatched(id, NoToken)[other].result \in {ledger[other].result, "none"}
      BY <1>0, DispatchedRows
    <3> QED
      BY <3>1, <3>2
  <2>3. op'[h].pc # "recording" /\ \A g \in Handler \ {h} : op'[g] = op[g]
    BY <1>a, <2>1 DEF OperateRequest, NoRequest
  <2>4. UNCHANGED <<results, crobs, verdict, pruned>>
    BY <2>1 DEF OperateRequest
  <2> QED
    BY <1>0, <2>2, <2>3, <2>4 DEF TruthInvariant, TrueOf, RequestOwns
<1>4. CASE \E id \in Id : OperateUnavailable(h, id)
  <2>1. PICK id \in Id : OperateUnavailable(h, id)
    BY <1>4
  <2>2. \A other \in Id : ledger'[other].result \in {ledger[other].result, "none"}
    <3>1. ledger' \in {ledger, Dispatched(id, NoToken)}
      BY <2>1 DEF OperateUnavailable
    <3>2. \A other \in Id :
             Dispatched(id, NoToken)[other].result \in {ledger[other].result, "none"}
      BY <1>0, DispatchedRows
    <3> QED
      BY <3>1, <3>2
  <2>3. op'[h].pc # "recording" /\ \A g \in Handler \ {h} : op'[g] = op[g]
    BY <1>a, <2>1 DEF OperateUnavailable, NoRequest
  <2>4. UNCHANGED <<results, crobs, verdict, pruned>>
    BY <2>1 DEF OperateUnavailable
  <2> QED
    BY <1>0, <2>2, <2>3, <2>4 DEF TruthInvariant, TrueOf, RequestOwns
<1>5. CASE OperateDuplicate(h)
  <2>1. op'[h].pc # "recording" /\ \A g \in Handler \ {h} : op'[g] = op[g]
    BY <1>a, <1>5 DEF OperateDuplicate, Request, RequestFields
  <2>2. UNCHANGED <<ledger, results, crobs, verdict, pruned>>
    BY <1>5 DEF OperateDuplicate
  <2> QED
    BY <1>0, <2>1, <2>2 DEF TruthInvariant, TrueOf, RequestOwns
<1> QED
  BY <1>1, <1>2, <1>3, <1>4, <1>5 DEF HandlerStep

\* A crash forgets verdicts; the restart records only what is known: nothing.
LEMMA EnvironmentTruth ==
    ASSUME TInv,
           \/ \E offer \in SUBSET Id : ConfigUpdate(offer)
           \/ Crash \/ Boot \/ BootQuarantined
           \/ \E old \in SUBSET Id : PruneLedger(old)
           \/ \E id \in Id : Expire(id) \/ (\E token \in Token : ReLease(id, token))
    PROVE  TruthInvariant'
<1> USE DEF durable, stateVars, pollVars, backendVars, history, bounds
<1>0. TypeOK /\ OneOwner /\ TruthInvariant
  BY DEF TInv, IInv, CommandInvariant
<1>1. CASE \/ \E offer \in SUBSET Id : ConfigUpdate(offer)
           \/ \E id \in Id : Expire(id) \/ (\E token \in Token : ReLease(id, token))
  BY <1>1, BystanderKeepsTruth
     DEF ConfigUpdate, Expire, ReLease, StatesKept, SameStatus
<1>2. CASE Crash
  <2>1. /\ results' = NoResults /\ op' = [h \in Handler |-> NoRequest]
        /\ UNCHANGED <<ledger, crobs, verdict, pruned>>
    BY <1>2 DEF Crash, AbandonTurn
  <2> QED
    BY <1>0, <2>1 DEF TruthInvariant, TrueOf, RequestOwns, NoResults, NoRequest
<1>3. CASE Boot
  <2>1. UNCHANGED <<results, op, crobs, verdict, pruned>>
    BY <1>3 DEF Boot
  <2>2. \A row \in Row : RecoverUnknownResult(row).result \in {row.result, "unknown"}
    BY DEF RecoverUnknownResult, RecordResult, Row, Columns
  <2>3. \A id \in Id : ledger'[id].result \in {ledger[id].result, "unknown"}
    BY <1>0, <1>3, <2>2 DEF Boot, TypeOK
  <2> QED
    BY <1>0, <2>1, <2>3 DEF TruthInvariant, TrueOf, RequestOwns
<1>4. CASE BootQuarantined
  <2>1. /\ UNCHANGED <<results, op>> /\ ~up
        /\ \A id \in Id : ledger'[id].result = "none"
    BY <1>4 DEF BootQuarantined, EmptyRow
  <2>2. \A id \in Id : ~PollOwns(id) /\ \A h \in Handler : ~RequestOwns(h, id)
    BY <1>0, <2>1 DEF OneOwner
  <2> QED
    BY <2>1, <2>2 DEF TruthInvariant, TrueOf, RequestOwns, PollOwns
<1>5. CASE \E old \in SUBSET Id : PruneLedger(old)
  <2>1. /\ UNCHANGED <<results, op, crobs, verdict>> /\ pruned \subseteq pruned'
        /\ \A id \in Id : ledger'[id].result \in {ledger[id].result, "none"}
    BY <1>0, <1>5 DEF PruneLedger, EmptyRow, TypeOK
  <2> QED
    BY <1>0, <2>1 DEF TruthInvariant, TrueOf, RequestOwns
<1> QED
  BY <1>1, <1>2, <1>3, <1>4, <1>5

\* The truth invariant is inductive.
LEMMA NextTruth == TInv /\ [Next]_vars => TInv'
<1> SUFFICES ASSUME TInv, [Next]_vars PROVE TruthInvariant'
  BY NextInvariant DEF TInv
<1>1. CASE PollBystander
  BY <1>1, PollBystanderSteps, BystanderKeepsTruth DEF TInv, IInv
<1>2. CASE PollStep /\ ~PollBystander
  BY <1>2, PollOwnersTruth DEF PollStep, PollBystander
<1>3. CASE \E h \in Handler :
              \/ HandlerStep(h)
              \/ \E id \in Id : OperateRequest(h, id) \/ OperateUnavailable(h, id)
  BY <1>3, HandlerOwnersTruth
<1>4. CASE \/ \E offer \in SUBSET Id : ConfigUpdate(offer)
           \/ Crash \/ Boot \/ BootQuarantined
           \/ \E old \in SUBSET Id : PruneLedger(old)
           \/ \E id \in Id : Expire(id) \/ (\E token \in Token : ReLease(id, token))
  BY <1>4, EnvironmentTruth
<1>5. CASE UNCHANGED vars
  BY <1>5, BystanderKeepsTruth DEF vars, StatesKept, SameStatus
<1> QED
  BY <1>1, <1>2, <1>3, <1>4, <1>5 DEF Next

\* A command the journal calls rejected was not driven, one it calls ok or
\* failed was driven once, with that verdict of the device.
THEOREM JournalTellsTheTruth == Spec => []ResultIsTrue
<1>1. Init => TInv
  <2>1. Init => TruthInvariant
    BY DEF Init, TruthInvariant, TrueOf, RequestOwns, EmptyRow, NoResults, NoRequest
  <2> QED
    BY <2>1, InitInvariant DEF TInv
<1>2. TInv => ResultIsTrue
  BY DEF TInv, TruthInvariant, ResultIsTrue
<1> QED
  BY <1>1, <1>2, NextTruth, PTL DEF Spec

-----------------------------------------------------------------------------
(* A result leaves the queue only when it arrived or was given up on *)

\* What NoResultLost says of one row, and of what the backend got of it.
RowNotLost(row, got) ==
    /\ row.delivery = "delivered" => row.result \in got
    /\ row.delivery = "dead_letter" => row.failures >= MaxPermanentFailures

\* The statements that have no part in the delivery keep a row safe: a new or a
\* newly recorded result waits, an ACK is another column.
LEMMA OtherStatementsLoseNothing ==
    ASSUME NEW row \in Row, NEW got, RowNotLost(row, got)
    PROVE  /\ \A token \in Token \cup {NoToken} : RowNotLost(StartDispatch(row, token), got)
           /\ RowNotLost(AckYenidenKuyrukla(row), got)
           /\ RowNotLost(MarkAckDelivered(row), got)
           /\ \A result \in Result : RowNotLost(RecordResult(row, result), got)
           /\ RowNotLost(RecoverUnknownResult(row), got)
           /\ RowNotLost(EmptyRow, got)
<1> USE DEF RowNotLost, Row, Columns
<1>1. RowNotLost(EmptyRow, got)
  BY DEF EmptyRow
<1>2. \A token \in Token \cup {NoToken} : RowNotLost(StartDispatch(row, token), got)
  BY DEF StartDispatch, EmptyRow
<1>3. RowNotLost(AckYenidenKuyrukla(row), got)
  BY DEF AckYenidenKuyrukla
<1>4. RowNotLost(MarkAckDelivered(row), got)
  BY DEF MarkAckDelivered
<1>5. \A result \in Result : RowNotLost(RecordResult(row, result), got)
  BY DEF RecordResult
<1>6. RowNotLost(RecoverUnknownResult(row), got)
  BY <1>5 DEF RecoverUnknownResult, Result
<1> QED
  BY <1>1, <1>2, <1>3, <1>4, <1>5, <1>6

\* The statements of the delivery, of a row that waits to be delivered: it is
\* marked when the backend has its result, and given up on at the limit.
LEMMA DeliveriesLoseNothing ==
    ASSUME NEW row \in Row, NEW got, row.delivery = "pending"
    PROVE  /\ RowNotLost(row, got)
           /\ RowNotLost(MarkDelivered(row), got \cup {row.result})
           /\ RowNotLost(BumpDeliveryFailure(row), got)
           /\ RowNotLost(CountFailure(row), got)
<1> DEFINE bumped == BumpDeliveryFailure(row)
<1> USE DEF RowNotLost, Row, Columns
<1>1. RowNotLost(row, got)
  OBVIOUS
<1>2. RowNotLost(MarkDelivered(row), got \cup {row.result})
  BY DEF MarkDelivered
<1>3. bumped \in Row /\ bumped.delivery = "pending"
  BY RowsStayRows DEF BumpDeliveryFailure
<1>4. RowNotLost(bumped, got)
  BY <1>3
<1>5. MarkDeliveryDeadLetter(bumped).delivery = "dead_letter"
      /\ MarkDeliveryDeadLetter(bumped).failures = bumped.failures
  BY <1>3 DEF MarkDeliveryDeadLetter
<1>6. ASSUME bumped.failures >= MaxPermanentFailures
      PROVE  RowNotLost(CountFailure(row), got)
  <2>1. CountFailure(row) = MarkDeliveryDeadLetter(bumped)
    BY <1>6 DEF CountFailure
  <2> QED
    BY <1>4, <1>5, <1>6, <2>1
<1>7. ASSUME ~(bumped.failures >= MaxPermanentFailures)
      PROVE  RowNotLost(CountFailure(row), got)
  <2>1. CountFailure(row) = bumped
    BY <1>7 DEF CountFailure
  <2> QED
    BY <1>4, <2>1
<1> QED
  BY <1>1, <1>2, <1>4, <1>6, <1>7

\* The rows of a step, one by one.
NotLost(id) == RowNotLost(ledger[id], reported[id])

\* A step that delivers nothing: each row sees at most one statement that has no
\* part in it.
LEMMA OtherStepsLoseNothing ==
    ASSUME TypeOK, NEW id \in Id, NotLost(id), UNCHANGED reported,
           \/ ledger'[id] \in {ledger[id], AckYenidenKuyrukla(ledger[id]),
                               MarkAckDelivered(ledger[id]),
                               RecoverUnknownResult(ledger[id]), EmptyRow}
           \/ \E token \in Token \cup {NoToken} : ledger'[id] = StartDispatch(ledger[id], token)
           \/ \E result \in Result : ledger'[id] = RecordResult(ledger[id], result)
    PROVE  NotLost(id)'
<1>1. ledger[id] \in Row
  BY DEF TypeOK
<1>2. RowNotLost(ledger'[id], reported[id])
  BY <1>1, OtherStatementsLoseNothing DEF NotLost
<1> QED
  BY <1>2 DEF NotLost

\* The end of a delivery: received and marked, received and not marked, or
\* failed and counted.
LEMMA DeliveryStepsLoseNothing ==
    ASSUME TypeOK, NEW id \in Id, NotLost(id),
           ResultsDelivered \/ \E failure \in Failure : ResultsFail(failure)
    PROVE  NotLost(id)'
<1>0. ledger \in [Id -> Row] /\ ledger[id] \in Row /\ reported \in [Id -> SUBSET Result]
  BY DEF TypeOK
<1>1. PICK batch \in Batches(ResultsDue, ResultBatch) :
        /\ UNCHANGED reported \/ Receive(batch)
        /\ \/ ledger' = ledger
           \/ /\ Receive(batch)
              /\ \E marked \in SUBSET batch : ledger' = ResultsMarked(marked)
           \/ \E counted \in SUBSET batch : ledger' = FailuresCounted(counted)
           \/ \E counted \in SUBSET batch : \E last \in batch \ counted :
                 ledger' = [FailuresCounted(counted) EXCEPT ![last] = BumpDeliveryFailure(@)]
  BY DEF ResultsDelivered, ResultsFail
<1>2. batch \subseteq ResultsDue
  BY <1>1, BatchesArePart
<1>3. /\ reported[id] \subseteq reported'[id]
      /\ id \in batch /\ Receive(batch) => reported'[id] = reported[id] \cup {ledger[id].result}
  BY <1>0, <1>1 DEF Receive
<1>4. id \in batch => ledger[id].delivery = "pending"
  BY <1>2 DEF ResultsDue, ResultDue
<1>5. RowNotLost(ledger[id], reported'[id])
  BY <1>3 DEF NotLost, RowNotLost
<1>6. CASE ledger' = ledger
  BY <1>5, <1>6 DEF NotLost
<1>7. ASSUME Receive(batch), NEW marked \in SUBSET batch, ledger' = ResultsMarked(marked)
      PROVE  NotLost(id)'
  <2>1. CASE id \in marked
    BY <1>0, <1>3, <1>4, <1>7, <2>1, DeliveriesLoseNothing DEF ResultsMarked, NotLost
  <2>2. CASE id \notin marked
    BY <1>5, <1>7, <2>2 DEF ResultsMarked, NotLost
  <2> QED
    BY <2>1, <2>2
<1>8. ASSUME NEW counted \in SUBSET batch
      PROVE  RowNotLost(FailuresCounted(counted)[id], reported'[id])
  <2>1. CASE id \in counted
    BY <1>0, <1>4, <2>1, DeliveriesLoseNothing DEF FailuresCounted
  <2>2. CASE id \notin counted
    BY <1>5, <2>2 DEF FailuresCounted
  <2> QED
    BY <2>1, <2>2
<1>9. ASSUME NEW counted \in SUBSET batch, NEW last \in batch \ counted,
             ledger' = [FailuresCounted(counted) EXCEPT ![last] = BumpDeliveryFailure(@)]
      PROVE  NotLost(id)'
  <2>1. CASE id = last
    <3>1. FailuresCounted(counted)[id] = ledger[id]
      BY <1>9, <2>1 DEF FailuresCounted
    <3>2. ledger'[id] = BumpDeliveryFailure(ledger[id])
      BY <1>9, <2>1, <3>1 DEF FailuresCounted
    <3> QED
      BY <1>0, <1>4, <1>9, <2>1, <3>2, DeliveriesLoseNothing DEF NotLost
  <2>2. CASE id # last
    <3>1. ledger'[id] = FailuresCounted(counted)[id]
      BY <1>9, <2>2 DEF FailuresCounted
    <3> QED
      BY <1>8, <3>1 DEF NotLost
  <2> QED
    BY <2>1, <2>2
<1> QED
  BY <1>1, <1>6, <1>7, <1>8, <1>9 DEF NotLost

\* One row in a step that delivers nothing.
PlainRow(id) ==
    \/ ledger'[id] \in {ledger[id], AckYenidenKuyrukla(ledger[id]),
                        MarkAckDelivered(ledger[id]),
                        RecoverUnknownResult(ledger[id]), EmptyRow}
    \/ \E token \in Token \cup {NoToken} : ledger'[id] = StartDispatch(ledger[id], token)
    \/ \E result \in Result : ledger'[id] = RecordResult(ledger[id], result)

\* What the journal becomes by a statement on one row.
LEMMA PlainStatements ==
    ASSUME TypeOK, NEW id \in Id,
           \/ \E ids : ledger' = AcksMarked(ids)
           \/ \E cmd \in Command : ledger' \in {Requeued(cmd), Dispatched(cmd.id, cmd.token)}
           \/ \E other \in Id : ledger' = Dispatched(other, NoToken)
           \/ \E other \in Id, result \in Outcome : ledger' = Settled(other, result)
           \/ UNCHANGED ledger
    PROVE  PlainRow(id)
<1>0. ledger \in [Id -> Row]
  BY DEF TypeOK
<1>1. CASE \E ids : ledger' = AcksMarked(ids)
  BY <1>1 DEF AcksMarked, PlainRow
<1>2. CASE \E cmd \in Command : ledger' = Requeued(cmd)
  BY <1>0, <1>2 DEF Requeued, PlainRow
<1>3. CASE \E cmd \in Command : ledger' = Dispatched(cmd.id, cmd.token)
  <2>1. PICK cmd \in Command : ledger' = Dispatched(cmd.id, cmd.token)
    BY <1>3
  <2>2. cmd.token \in Token \cup {NoToken}
    BY DEF Command
  <2> QED
    BY <1>0, <2>1, <2>2 DEF Dispatched, PlainRow
<1>4. CASE \E other \in Id : ledger' = Dispatched(other, NoToken)
  BY <1>0, <1>4 DEF Dispatched, PlainRow
<1>5. CASE \E other \in Id, result \in Outcome : ledger' = Settled(other, result)
  BY <1>0, <1>5 DEF Settled, PlainRow, Result
<1>6. CASE UNCHANGED ledger
  BY <1>6 DEF PlainRow
<1> QED
  BY <1>1, <1>2, <1>3, <1>4, <1>5, <1>6

\* The other steps of the poll thread are plain for every row.
LEMMA PollStepsPlain ==
    ASSUME TypeOK, PollStep, NEW id \in Id,
           ~ResultsDelivered, ~\E failure \in Failure : ResultsFail(failure)
    PROVE  UNCHANGED reported /\ PlainRow(id)
<1> USE DEF backendVars, durable
<1>1. CASE AcksSent
  BY <1>1, PlainStatements DEF AcksSent
<1>2. CASE \E cmd \in taken : LookUp(cmd)
  BY <1>2, PlainStatements DEF LookUp, TypeOK
<1>3. CASE \E cmd \in missed : Reserve(cmd)
  BY <1>3, PlainStatements DEF Reserve, TypeOK
<1>4. CASE \E other \in Id : Record(other)
  <2>1. PICK other \in Id : Record(other)
    BY <1>4
  <2>2. results[other] \in Outcome
    BY <2>1 DEF Record, TypeOK
  <2> QED
    BY <2>1, <2>2, PlainStatements DEF Record
<1>5. CASE TurnFails
  <2>1. \/ UNCHANGED ledger
        \/ \E cmd \in Command : ledger' \in {Requeued(cmd), Dispatched(cmd.id, cmd.token)}
        \/ \E other \in Id : results[other] # "none" /\ ledger' = Settled(other, results[other])
    BY <1>5 DEF TurnFails, TypeOK
  <2>2. \A other \in Id : results[other] # "none" => results[other] \in Outcome
    BY DEF TypeOK
  <2>3. UNCHANGED reported
    BY <1>5 DEF TurnFails
  <2> QED
    BY <2>1, <2>2, <2>3, PlainStatements
<1>6. CASE \/ AcksNotSent \/ FetchFails
           \/ \E offer \in SUBSET Id : FetchPendingCommands(offer)
           \/ TakePendingCommands \/ AllReserved \/ AllExecuted \/ AllRecorded \/ NoResultsDue
           \/ \E cmd \in fresh, outcome \in Outcome : Execute(cmd, outcome)
  <2>1. UNCHANGED <<ledger, reported>>
    BY <1>6 DEF AcksNotSent, FetchFails, FetchPendingCommands, TakePendingCommands, AllReserved,
           AllExecuted, AllRecorded, NoResultsDue, Execute
  <2> QED
    BY <2>1, PlainStatements
<1> QED
  BY <1>1, <1>2, <1>3, <1>4, <1>5, <1>6 DEF PollStep

\* So are those of the requests, of start-up and of maintenance.
LEMMA OtherStepsPlain ==
    ASSUME TypeOK, [Next]_vars, ~PollStep, NEW id \in Id
    PROVE  UNCHANGED reported /\ PlainRow(id)
<1> USE DEF backendVars, durable
<1>1. CASE \E h \in Handler, other \in Id : OperateRequest(h, other) \/ OperateUnavailable(h, other)
  BY <1>1, PlainStatements DEF OperateRequest, OperateUnavailable
<1>2. CASE \E h \in Handler : OperateReply(h)
  <2>1. PICK h \in Handler : OperateReply(h)
    BY <1>2
  <2>2. op[h].id \in Id /\ op[h].result \in Outcome
    BY <2>1 DEF OperateReply, TypeOK, Request, RequestFields
  <2> QED
    BY <2>1, <2>2, PlainStatements DEF OperateReply
<1>3. CASE \E h \in Handler : OperateDuplicate(h) \/ \E outcome \in Outcome : OperateDevice(h, outcome)
  <2>1. UNCHANGED <<ledger, reported>>
    BY <1>3 DEF OperateDuplicate, OperateDevice
  <2> QED
    BY <2>1, PlainStatements
<1>4. CASE Boot \/ BootQuarantined \/ \E old \in SUBSET Id : PruneLedger(old)
  BY <1>4 DEF Boot, BootQuarantined, PruneLedger, PlainRow
<1>5. CASE \/ \E offer \in SUBSET Id : ConfigUpdate(offer)
           \/ Crash \/ UNCHANGED vars
           \/ \E other \in Id : Expire(other) \/ (\E token \in Token : ReLease(other, token))
  <2>1. UNCHANGED <<ledger, reported>>
    BY <1>5 DEF ConfigUpdate, Crash, Expire, ReLease, vars
  <2> QED
    BY <2>1, PlainStatements
<1> QED
  BY <1>1, <1>2, <1>3, <1>4, <1>5 DEF Next, HandlerStep

LEMMA NextLosesNothing == TypeOK /\ NoResultLost /\ [Next]_vars => NoResultLost'
<1> SUFFICES ASSUME TypeOK, NoResultLost, [Next]_vars, NEW id \in Id
             PROVE  NotLost(id)'
  BY DEF NoResultLost, NotLost, RowNotLost
<1>1. NotLost(id)
  BY DEF NoResultLost, NotLost, RowNotLost
<1>2. CASE ResultsDelivered \/ \E failure \in Failure : ResultsFail(failure)
  BY <1>1, <1>2, DeliveryStepsLoseNothing
<1>3. CASE ~ResultsDelivered /\ ~\E failure \in Failure : ResultsFail(failure)
  <2>1. UNCHANGED reported /\ PlainRow(id)
    BY <1>3, PollStepsPlain, OtherStepsPlain
  <2> QED
    BY <1>1, <2>1, OtherStepsLoseNothing DEF PlainRow
<1> QED
  BY <1>2, <1>3

\* Whatever part of a batch is sent, lost, marked or counted, and for any number
\* of results and any size of the batches: a result that is marked delivered is
\* at the backend, and one that was given up on has failed often enough.
THEOREM ResultsArrive == Spec => []NoResultLost
<1>1. Init => NoResultLost
  BY DEF Init, NoResultLost, EmptyRow
<1> QED
  BY <1>1, NextLosesNothing, TypeCorrect, PTL DEF Spec

-----------------------------------------------------------------------------
(* The contract is implemented *)

\* Where the contract sees the command of a row, and a row that stays there.
Place(row) == IF row.state = "absent" THEN "absent"
              ELSE IF row.state = "dispatching" THEN "accepted"
              ELSE IF row.delivery = "delivered" THEN "closed"
              ELSE "settled"

SamePlace(row, new) == Place(new) = Place(row) /\ new.result = row.result

\* The device has an opinion only of what was driven; and of a command that was
\* forgotten, only a rejection can still be on its way to the journal.
ForgottenInvariant ==
    /\ \A id \in Id : crobs[id] = 0 => verdict[id] = "none"
    /\ \A id \in pruned :
          /\ results[id] \in {"none", "rejected"}
          /\ \A h \in Handler : ~RequestOwns(h, id)

RefInv == TInv /\ ForgottenInvariant

\* A step that neither drives nor forgets, nor takes on a result.
LEMMA BystanderKeepsForgotten ==
    ASSUME RefInv, UNCHANGED <<crobs, verdict, pruned>>,
           \A id \in pruned : results'[id] \in {results[id], "none", "rejected"},
           \A h \in Handler, id \in pruned : RequestOwns(h, id)' => RequestOwns(h, id)
    PROVE  ForgottenInvariant'
<1> QED
  BY DEF RefInv, ForgottenInvariant

\* Driving a command, which counts it.
LEMMA DriveKeepsVerdicts ==
    ASSUME TypeOK, NEW id \in Id, NEW outcome, Drive(id, outcome), ForgottenInvariant
    PROVE  \A other \in Id : crobs'[other] = 0 => verdict'[other] = "none"
<1>1. crobs \in [Id -> Nat] /\ verdict \in [Id -> {"none", "ok", "failed"}]
  BY DEF TypeOK
<1>2. CASE outcome = "rejected"
  BY <1>2 DEF Drive, ForgottenInvariant
<1>3. CASE outcome # "rejected"
  <2>1. /\ crobs' = [crobs EXCEPT ![id] = @ + 1]
        /\ verdict' = [verdict EXCEPT ![id] = outcome]
    BY <1>3 DEF Drive
  <2>2. crobs'[id] # 0
    BY <1>1, <2>1
  <2>3. \A other \in Id \ {id} : crobs'[other] = crobs[other] /\ verdict'[other] = verdict[other]
    BY <1>1, <2>1
  <2> QED
    BY <2>2, <2>3 DEF ForgottenInvariant
<1> QED
  BY <1>2, <1>3

\* The steps of the poll thread.
LEMMA PollKeepsForgotten ==
    ASSUME RefInv, PollStep
    PROVE  ForgottenInvariant'
<1> USE DEF durable, stateVars, pollVars, backendVars, history, bounds
<1>0. TypeOK /\ NotYetDriven /\ ForgottenInvariant
  BY DEF RefInv, TInv, IInv, CommandInvariant
<1>a. pruned \subseteq Id /\ results \in [Id -> Outcome \cup {"none"}]
  BY <1>0 DEF TypeOK
<1>1. CASE PollBystander
  <2>1. UNCHANGED <<results, op, crobs, verdict, pruned>>
    BY <1>0, <1>1, PollBystanderSteps
  <2> QED
    BY <2>1, BystanderKeepsForgotten DEF RequestOwns
<1>2. CASE (\E cmd \in missed : Reserve(cmd)) \/ (\E id \in Id : Record(id)) \/ TurnFails
  <2>1. UNCHANGED <<op, crobs, verdict, pruned>>
    BY <1>2 DEF Reserve, Record, TurnFails
  <2>2. \A id \in pruned : results'[id] \in {results[id], "none"}
    BY <1>2, <1>a DEF Reserve, Record, TurnFails, AbandonTurn, NoResults
  <2> QED
    BY <2>1, <2>2, BystanderKeepsForgotten DEF RequestOwns
<1>3. CASE \E id \in fresh, outcome \in Outcome : Execute(id, outcome)
  <2>1. PICK id \in fresh, outcome \in Outcome : Execute(id, outcome)
    BY <1>3
  <2>2. /\ id \in Id /\ UNCHANGED <<op, pruned>> /\ Drive(id, outcome)
        /\ results' = [results EXCEPT ![id] = outcome]
        /\ id \in pruned => outcome = "rejected"
    BY <1>0, <2>1 DEF Execute, TypeOK, NotYetDriven
  <2>3. \A other \in Id : crobs'[other] = 0 => verdict'[other] = "none"
    BY <1>0, <2>2, DriveKeepsVerdicts
  <2>4. \A other \in pruned : results'[other] \in {"none", "rejected"}
    BY <1>0, <1>a, <2>2 DEF ForgottenInvariant
  <2> QED
    BY <1>0, <2>2, <2>3, <2>4 DEF ForgottenInvariant, RequestOwns
<1> QED
  BY <1>1, <1>2, <1>3 DEF PollStep, PollBystander

\* The other steps: no request owns what was forgotten, since it is stale.
LEMMA OthersKeepForgotten ==
    ASSUME RefInv, [Next]_vars, ~PollStep
    PROVE  ForgottenInvariant'
<1> USE DEF durable, stateVars, pollVars, backendVars, history, bounds
<1>0. TypeOK /\ OneOwner /\ NotYetDriven /\ ForgottenInvariant
  BY DEF RefInv, TInv, IInv, CommandInvariant
<1>a. op \in [Handler -> Request] /\ pruned \subseteq Id /\ pruned \subseteq expired
  BY <1>0 DEF TypeOK, NotYetDriven
<1>1. ASSUME NEW h \in Handler, NEW id \in Id, OperateRequest(h, id) \/ OperateUnavailable(h, id)
      PROVE  ForgottenInvariant'
  <2>1. UNCHANGED <<results, crobs, verdict, pruned>> /\ id \notin pruned
    BY <1>1, <1>a DEF OperateRequest, OperateUnavailable
  <2>2. op'[h].id = id /\ \A g \in Handler \ {h} : op'[g] = op[g]
    BY <1>1, <1>a DEF OperateRequest, OperateUnavailable, NoRequest
  <2> QED
    BY <2>1, <2>2, BystanderKeepsForgotten DEF RequestOwns
<1>2. ASSUME NEW h \in Handler, OperateReply(h) \/ OperateDuplicate(h)
      PROVE  ForgottenInvariant'
  <2>1. UNCHANGED <<results, crobs, verdict, pruned>>
    BY <1>2 DEF OperateReply, OperateDuplicate
  <2>2. op'[h].pc = "replied" /\ \A g \in Handler \ {h} : op'[g] = op[g]
    <3>1. op[h] \in RequestFields
      BY <1>a DEF Request
    <3> QED
      BY <1>2, <1>a, <3>1 DEF OperateReply, OperateDuplicate, RequestFields
  <2> QED
    BY <2>1, <2>2, BystanderKeepsForgotten DEF RequestOwns
<1>3. ASSUME NEW h \in Handler, NEW outcome \in Outcome, OperateDevice(h, outcome)
      PROVE  ForgottenInvariant'
  <2>1. /\ UNCHANGED <<results, pruned>> /\ op[h].pc = "operating" /\ Drive(op[h].id, outcome)
    BY <1>3 DEF OperateDevice
  <2>2. op[h].id \in Id
    BY <1>a, <2>1 DEF Request, RequestFields
  <2>3. \A other \in Id : crobs'[other] = 0 => verdict'[other] = "none"
    BY <1>0, <2>1, <2>2, DriveKeepsVerdicts
  <2>4. op'[h].id = op[h].id /\ \A g \in Handler \ {h} : op'[g] = op[g]
    <3>1. op[h] \in RequestFields
      BY <1>a DEF Request
    <3> QED
      BY <1>3, <1>a, <3>1 DEF OperateDevice, RequestFields
  <2>5. \A g \in Handler, id \in pruned : RequestOwns(g, id)' => RequestOwns(g, id)
    BY <2>1, <2>4 DEF RequestOwns
  <2> QED
    BY <1>0, <2>1, <2>3, <2>5 DEF ForgottenInvariant
<1>4. CASE \/ \E offer \in SUBSET Id : ConfigUpdate(offer)
           \/ Boot \/ UNCHANGED vars
           \/ \E id \in Id : Expire(id) \/ (\E token \in Token : ReLease(id, token))
  <2>1. UNCHANGED <<results, op, crobs, verdict, pruned>>
    BY <1>4 DEF ConfigUpdate, Boot, Expire, ReLease, vars
  <2> QED
    BY <2>1, BystanderKeepsForgotten DEF RequestOwns
<1>5. CASE Crash
  <2>1. /\ UNCHANGED <<crobs, verdict, pruned>> /\ results' = NoResults
        /\ op' = [h \in Handler |-> NoRequest]
    BY <1>5 DEF Crash, AbandonTurn
  <2> QED
    BY <1>a, <2>1, BystanderKeepsForgotten DEF RequestOwns, NoResults, NoRequest
<1>6. CASE BootQuarantined
  BY <1>6 DEF BootQuarantined, ForgottenInvariant
<1>7. ASSUME NEW old \in SUBSET Id, PruneLedger(old) PROVE ForgottenInvariant'
  <2>1. /\ UNCHANGED <<results, op, crobs, verdict>> /\ pruned' = pruned \cup old
        /\ \A id \in old : ledger[id].state = "completed"
    BY <1>7 DEF PruneLedger, Prunable
  <2>2. \A id \in old : results[id] = "none" /\ \A h \in Handler : ~RequestOwns(h, id)
    BY <1>0, <2>1 DEF OneOwner, PollOwns
  <2> QED
    BY <1>0, <2>1, <2>2 DEF ForgottenInvariant, RequestOwns
<1> QED
  BY <1>1, <1>2, <1>3, <1>4, <1>5, <1>6, <1>7 DEF Next, HandlerStep

\* What the statements of the journal do to the place of a row.
LEMMA RowMoves ==
    ASSUME NEW row \in Row
    PROVE  /\ SamePlace(row, AckYenidenKuyrukla(row))
           /\ SamePlace(row, MarkAckDelivered(row))
           /\ SamePlace(row, BumpDeliveryFailure(row))
           /\ ~Recorded(row) => Place(row) = "absent" /\ row.result = "none"
           /\ row.state = "dispatching" => Place(row) = "accepted"
           /\ ResultDue(row) => /\ Place(row) = "settled"
                                /\ Place(MarkDelivered(row)) = "closed"
                                /\ MarkDelivered(row).result = row.result
                                /\ SamePlace(row, CountFailure(row))
           /\ Prunable(row) => Place(row) = "closed"
           /\ Place(EmptyRow) = "absent" /\ EmptyRow.result = "none"
<1> USE DEF Place, SamePlace, Row, Columns
<1>1. SamePlace(row, AckYenidenKuyrukla(row)) /\ SamePlace(row, MarkAckDelivered(row))
  BY DEF AckYenidenKuyrukla, MarkAckDelivered
<1>2. SamePlace(row, BumpDeliveryFailure(row))
  BY DEF BumpDeliveryFailure
<1>3. ~Recorded(row) => Place(row) = "absent" /\ row.result = "none"
  BY DEF Recorded
<1>4. ASSUME ResultDue(row)
      PROVE  /\ Place(row) = "settled"
             /\ Place(MarkDelivered(row)) = "closed"
             /\ MarkDelivered(row).result = row.result
  BY <1>4 DEF ResultDue, MarkDelivered
<1>5. ASSUME ResultDue(row) PROVE SamePlace(row, CountFailure(row))
  <2> DEFINE bumped == BumpDeliveryFailure(row)
  <2>1. bumped \in Row /\ bumped.state = "completed" /\ bumped.result = row.result
        /\ bumped.delivery = "pending"
    BY <1>5, RowsStayRows DEF BumpDeliveryFailure, ResultDue
  <2>2. SamePlace(bumped, MarkDeliveryDeadLetter(bumped))
    BY <2>1 DEF MarkDeliveryDeadLetter
  <2> HIDE DEF bumped
  <2>3. CountFailure(row) \in {bumped, MarkDeliveryDeadLetter(bumped)}
    BY DEF CountFailure, bumped
  <2> QED
    BY <1>2, <2>2, <2>3 DEF bumped
<1>6. Prunable(row) => Place(row) = "closed"
  BY DEF Prunable
<1>7. Place(EmptyRow) = "absent" /\ EmptyRow.result = "none"
  BY DEF EmptyRow
<1> QED
  BY <1>1, <1>2, <1>3, <1>4, <1>5, <1>6, <1>7

\* The same of the statements that insert and complete a row.
LEMMA RowAdvances ==
    ASSUME NEW row \in Row, NEW token, NEW result
    PROVE  /\ ~Recorded(row) => /\ Place(StartDispatch(row, token)) = "accepted"
                                /\ StartDispatch(row, token).result = "none"
           /\ row.state = "dispatching" => /\ Place(RecordResult(row, result)) = "settled"
                                           /\ RecordResult(row, result).result = result
<1> USE DEF Place, Row, Columns
<1>1. ~Recorded(row) => /\ Place(StartDispatch(row, token)) = "accepted"
                        /\ StartDispatch(row, token).result = "none"
  BY DEF StartDispatch, EmptyRow
<1>2. row.state = "dispatching" => /\ Place(RecordResult(row, result)) = "settled"
                                   /\ RecordResult(row, result).result = result
  BY DEF RecordResult, Recorded
<1> QED
  BY <1>1, <1>2

\* The contract sees nothing of a step that leaves every row at its place.
LEMMA UnseenStep ==
    ASSUME \A id \in Id : SamePlace(ledger[id], ledger'[id]), UNCHANGED <<verdict, pruned>>
    PROVE  UNCHANGED Contract!vars
<1>1. phase' = phase
  BY DEF phase, SamePlace, Place
<1>2. answer' = answer
  BY DEF answer, SamePlace
<1> QED
  BY <1>1, <1>2 DEF Contract!vars

\* A statement that inserts the row of a command: the contract accepts it.
LEMMA DispatchMeetsContract ==
    ASSUME TypeOK, NEW id \in Id, NEW token \in Token \cup {NoToken},
           ledger' = Dispatched(id, token), UNCHANGED <<verdict, pruned>>
    PROVE  [Contract!Next]_(Contract!vars)
<1>1. ledger \in [Id -> Row]
  BY DEF TypeOK
<1>2. CASE Recorded(ledger[id])
  <2>1. ledger' = ledger
    BY <1>2, DispatchedRows
  <2> QED
    BY <2>1, UnseenStep DEF SamePlace
<1>3. CASE ~Recorded(ledger[id])
  <2>1. /\ \A other \in Id \ {id} : ledger'[other] = ledger[other]
        /\ Place(ledger[id]) = "absent" /\ ledger[id].result = "none"
        /\ Place(ledger'[id]) = "accepted" /\ ledger'[id].result = "none"
    BY <1>1, <1>3, DispatchedRows, RowMoves, RowAdvances DEF Dispatched
  <2>2. phase[id] = "absent" /\ phase' = [phase EXCEPT ![id] = "accepted"]
    BY <2>1 DEF phase, Place
  <2>3. answer' = answer
    BY <2>1 DEF answer
  <2>4. Contract!Accept(id)
    BY <2>2, <2>3 DEF Contract!Accept
  <2> QED
    BY <2>4 DEF Contract!Next
<1> QED
  BY <1>2, <1>3

\* Rows that are completed with an answer the contract allows.
LEMMA SettlingMeetsContract ==
    ASSUME NEW ids \in SUBSET Id, UNCHANGED <<verdict, pruned>>,
           \A id \in ids : /\ Place(ledger[id]) = "accepted" /\ Place(ledger'[id]) = "settled"
                           /\ ledger'[id].result \in Contract!Answers(id),
           \A id \in Id \ ids : SamePlace(ledger[id], ledger'[id])
    PROVE  [Contract!Next]_(Contract!vars)
<1>1. \A id \in ids : phase[id] = "accepted"
  BY DEF phase, Place
<1>2. phase' = [id \in Id |-> IF id \in ids THEN "settled" ELSE phase[id]]
  BY DEF phase, Place, SamePlace
<1>3. \A id \in Id : IF id \in ids THEN answer'[id] \in Contract!Answers(id)
                                   ELSE answer'[id] = answer[id]
  BY DEF answer, SamePlace
<1>4. Contract!Settle(ids)
  BY <1>1, <1>2, <1>3 DEF Contract!Settle
<1> QED
  BY <1>4 DEF Contract!Next

\* Recording one result (record_result) of a command that was reserved.
LEMMA RecordMeetsContract ==
    ASSUME TypeOK, NEW id \in Id, NEW result \in Contract!Answers(id),
           ledger[id].state = "dispatching",
           ledger' = Settled(id, result), UNCHANGED <<verdict, pruned>>
    PROVE  [Contract!Next]_(Contract!vars)
<1>1. ledger \in [Id -> Row]
  BY DEF TypeOK
<1>2. /\ Place(ledger[id]) = "accepted" /\ Place(ledger'[id]) = "settled"
      /\ ledger'[id].result = result
  BY <1>1, RowMoves, RowAdvances DEF Settled
<1>3. \A other \in Id \ {id} : SamePlace(ledger[other], ledger'[other])
  BY SettledRows DEF SamePlace
<1> DEFINE ids == {id}
<1>4. /\ ids \in SUBSET Id
      /\ \A x \in ids : /\ Place(ledger[x]) = "accepted" /\ Place(ledger'[x]) = "settled"
                        /\ ledger'[x].result \in Contract!Answers(x)
      /\ \A x \in Id \ ids : SamePlace(ledger[x], ledger'[x])
  BY <1>2, <1>3
<1> HIDE DEF ids
<1> QED
  BY <1>4, SettlingMeetsContract

\* What an owner is about to record is an answer the contract allows.
LEMMA OwnersHaveAnswers ==
    ASSUME RefInv, NEW id \in Id
    PROVE  /\ results[id] # "none" => results[id] \in Contract!Answers(id)
           /\ \A h \in Handler : RequestOwns(h, id) /\ op[h].pc = "recording"
                                    => op[h].result \in Contract!Answers(id)
<1>0. TypeOK /\ TruthInvariant /\ ForgottenInvariant
  BY DEF RefInv, TInv, IInv
<1>1. ASSUME NEW result \in Outcome,
             IF id \in pruned THEN result = "rejected" ELSE TrueOf(id, result)
      PROVE  result \in Contract!Answers(id)
  BY <1>0, <1>1 DEF TrueOf, ForgottenInvariant, Contract!Answers, Outcome
<1>2. ASSUME results[id] # "none" PROVE results[id] \in Contract!Answers(id)
  <2>1. results[id] \in Outcome
    BY <1>0, <1>2 DEF TypeOK
  <2>2. IF id \in pruned THEN results[id] = "rejected" ELSE TrueOf(id, results[id])
    BY <1>0, <1>2 DEF TruthInvariant, ForgottenInvariant
  <2> QED
    BY <1>1, <2>1, <2>2
<1>3. ASSUME NEW h \in Handler, RequestOwns(h, id), op[h].pc = "recording"
      PROVE  op[h].result \in Contract!Answers(id)
  <2>1. op[h].result \in Outcome
    BY <1>0, <1>3 DEF TypeOK, Request, RequestFields
  <2>2. id \notin pruned /\ TrueOf(id, op[h].result)
    BY <1>0, <1>3 DEF TruthInvariant, ForgottenInvariant
  <2> QED
    BY <1>1, <2>1, <2>2
<1> QED
  BY <1>2, <1>3

\* Driving a command that its owner has not driven yet.
LEMMA DriveMeetsContract ==
    ASSUME TypeOK, NEW id \in Id, NEW outcome \in Outcome, Drive(id, outcome),
           UNCHANGED <<ledger, pruned>>, ledger[id].state = "dispatching",
           outcome # "rejected" => verdict[id] = "none" /\ id \notin pruned
    PROVE  [Contract!Next]_(Contract!vars)
<1>1. phase' = phase /\ answer' = answer
  BY DEF phase, answer
<1>2. CASE outcome = "rejected"
  <2>1. verdict' = verdict
    BY <1>2 DEF Drive
  <2> QED
    BY <1>1, <2>1 DEF Contract!vars
<1>3. CASE outcome # "rejected"
  <2>1. verdict' = [verdict EXCEPT ![id] = outcome] /\ outcome \in {"ok", "failed"}
    BY <1>3 DEF Drive, Outcome
  <2>2. phase[id] = "accepted"
    BY DEF phase
  <2>3. Contract!Drive(id, outcome)
    BY <1>1, <1>3, <2>1, <2>2 DEF Contract!Drive
  <2> QED
    BY <2>1, <2>3 DEF Contract!Next
<1> QED
  BY <1>2, <1>3

\* Marking a batch of received results, or counting its failure.
LEMMA DeliveryMeetsContract ==
    ASSUME TypeOK, ResultsDelivered \/ (\E failure \in Failure : ResultsFail(failure))
    PROVE  [Contract!Next]_(Contract!vars)
<1> USE DEF history
<1>0. ledger \in [Id -> Row] /\ UNCHANGED <<verdict, pruned>>
  BY DEF TypeOK, ResultsDelivered, ResultsFail
<1>1. PICK batch \in SUBSET ResultsDue :
        \/ ledger' = ledger
        \/ \E marked \in SUBSET batch : ledger' = ResultsMarked(marked)
        \/ \E counted \in SUBSET batch : ledger' = FailuresCounted(counted)
        \/ \E counted \in SUBSET batch : \E last \in batch \ counted :
              ledger' = [FailuresCounted(counted) EXCEPT ![last] = BumpDeliveryFailure(@)]
  BY BatchesArePart DEF ResultsDelivered, ResultsFail
<1>2. \A id \in batch : id \in Id /\ ledger[id] \in Row /\ ResultDue(ledger[id])
  BY <1>0, <1>1 DEF ResultsDue
<1>3. CASE ledger' = ledger
  BY <1>0, <1>3, UnseenStep DEF SamePlace
<1>4. ASSUME NEW marked \in SUBSET batch, ledger' = ResultsMarked(marked)
      PROVE  [Contract!Next]_(Contract!vars)
  <2>1. /\ \A id \in marked : /\ Place(ledger[id]) = "settled" /\ Place(ledger'[id]) = "closed"
                              /\ ledger'[id].result = ledger[id].result
        /\ \A id \in Id \ marked : ledger'[id] = ledger[id]
    BY <1>2, <1>4, RowMoves DEF ResultsMarked
  <2>2. \A id \in marked : phase[id] = "settled"
    BY <1>2, <2>1 DEF phase, Place
  <2>3. phase' = [id \in Id |-> IF id \in marked THEN "closed" ELSE phase[id]]
    BY <2>1 DEF phase, Place
  <2>4. answer' = answer
    BY <2>1 DEF answer
  <2>5. marked \in SUBSET Id /\ Contract!Close(marked)
    BY <1>0, <1>2, <2>2, <2>3, <2>4 DEF Contract!Close
  <2> QED
    BY <2>5 DEF Contract!Next
<1>5. ASSUME NEW counted \in SUBSET batch
      PROVE  \A id \in Id : SamePlace(ledger[id], FailuresCounted(counted)[id])
  BY <1>0, <1>2, RowMoves DEF FailuresCounted, SamePlace
<1>6. ASSUME NEW counted \in SUBSET batch, ledger' = FailuresCounted(counted)
      PROVE  [Contract!Next]_(Contract!vars)
  BY <1>0, <1>5, <1>6, UnseenStep
<1>7. ASSUME NEW counted \in SUBSET batch, NEW last \in batch \ counted,
             ledger' = [FailuresCounted(counted) EXCEPT ![last] = BumpDeliveryFailure(@)]
      PROVE  [Contract!Next]_(Contract!vars)
  <2>1. FailuresCounted(counted)[last] = ledger[last]
    BY <1>2 DEF FailuresCounted
  <2>2. DOMAIN FailuresCounted(counted) = Id
    BY DEF FailuresCounted
  <2>3. /\ ledger'[last] = BumpDeliveryFailure(ledger[last])
        /\ \A id \in Id \ {last} : ledger'[id] = FailuresCounted(counted)[id]
    BY <1>2, <1>7, <2>1, <2>2
  <2>4. \A id \in Id : SamePlace(ledger[id], ledger'[id])
    BY <1>0, <1>5, <2>3, RowMoves
  <2> QED
    BY <1>0, <2>4, UnseenStep
<1> QED
  BY <1>1, <1>3, <1>4, <1>6, <1>7

\* Statements about ACKs, which the contract does not know.
LEMMA AcksUnseen ==
    ASSUME TypeOK, UNCHANGED <<verdict, pruned>>,
           \/ ledger' = ledger
           \/ \E ids : ledger' = AcksMarked(ids)
           \/ \E cmd \in Command : ledger' = Requeued(cmd)
    PROVE  [Contract!Next]_(Contract!vars)
<1>1. ledger \in [Id -> Row]
  BY DEF TypeOK
<1>2. ASSUME NEW ids, ledger' = AcksMarked(ids)
      PROVE  \A id \in Id : SamePlace(ledger[id], ledger'[id])
  BY <1>1, <1>2, RowMoves DEF AcksMarked, SamePlace
<1>3. ASSUME NEW cmd \in Command, ledger' = Requeued(cmd)
      PROVE  \A id \in Id : SamePlace(ledger[id], ledger'[id])
  BY <1>1, <1>3, RowMoves DEF Requeued, SamePlace
<1> QED
  BY <1>2, <1>3, UnseenStep DEF SamePlace

\* Every step of the poll thread meets the contract.
LEMMA PollMeetsContract ==
    ASSUME RefInv, PollStep
    PROVE  [Contract!Next]_(Contract!vars)
<1> USE DEF durable, stateVars, pollVars, backendVars, history, bounds
<1>0. TypeOK /\ OneOwner /\ NotYetDriven /\ ForgottenInvariant
  BY DEF RefInv, TInv, IInv, CommandInvariant
<1>a. fresh \subseteq Id /\ taken \subseteq Command /\ missed \subseteq Command
  BY <1>0 DEF TypeOK
<1>1. CASE ResultsDelivered \/ (\E failure \in Failure : ResultsFail(failure))
  BY <1>0, <1>1, DeliveryMeetsContract
<1>2. CASE AcksSent
  BY <1>0, <1>2, AcksUnseen DEF AcksSent
<1>3. CASE \E cmd \in taken : LookUp(cmd)
  BY <1>0, <1>a, <1>3, AcksUnseen DEF LookUp
<1>4. CASE \E cmd \in missed : Reserve(cmd)
  <2>1. PICK cmd \in missed : Reserve(cmd)
    BY <1>4
  <2>2. cmd.id \in Id /\ cmd.token \in Token \cup {NoToken}
    BY <1>a DEF Command
  <2> QED
    BY <1>0, <2>1, <2>2, DispatchMeetsContract DEF Reserve
<1>5. CASE \E id \in fresh, outcome \in Outcome : Execute(id, outcome)
  <2>1. PICK id \in fresh, outcome \in Outcome : Execute(id, outcome)
    BY <1>5
  <2>2. /\ id \in Id /\ Drive(id, outcome) /\ UNCHANGED <<ledger, pruned>>
        /\ id \in expired => outcome = "rejected"
    BY <1>a, <2>1 DEF Execute
  <2>3. outcome # "rejected" => verdict[id] = "none" /\ id \notin pruned
    BY <1>0, <2>1, <2>2 DEF NotYetDriven, ForgottenInvariant
  <2>4. ledger[id].state = "dispatching"
    BY <1>0, <2>1, <2>2 DEF OneOwner, PollOwns
  <2> QED
    BY <1>0, <2>2, <2>3, <2>4, DriveMeetsContract
<1>6. ASSUME NEW id \in Id, results[id] # "none", ledger' \in {ledger, Settled(id, results[id])},
             UNCHANGED <<verdict, pruned>>
      PROVE  [Contract!Next]_(Contract!vars)
  <2>1. results[id] \in Contract!Answers(id)
    BY <1>6, OwnersHaveAnswers
  <2>2. ledger[id].state = "dispatching"
    BY <1>0, <1>6 DEF OneOwner, PollOwns
  <2> QED
    BY <1>0, <1>6, <2>1, <2>2, RecordMeetsContract, AcksUnseen
<1>7. CASE \E id \in Id : Record(id)
  BY <1>6, <1>7 DEF Record
<1>8. CASE TurnFails
  <2>1. UNCHANGED <<verdict, pruned>>
    BY <1>8 DEF TurnFails
  <2>2. ASSUME NEW cmd \in missed, ledger' \in {ledger, Dispatched(cmd.id, cmd.token)}
        PROVE  [Contract!Next]_(Contract!vars)
    <3>1. cmd.id \in Id /\ cmd.token \in Token \cup {NoToken}
      BY <1>a DEF Command
    <3> QED
      BY <1>0, <2>1, <2>2, <3>1, DispatchMeetsContract, AcksUnseen
  <2>3. ASSUME NEW cmd \in taken, ledger' \in {ledger, Requeued(cmd)}
        PROVE  [Contract!Next]_(Contract!vars)
    BY <1>0, <1>a, <2>1, <2>3, AcksUnseen
  <2> QED
    BY <1>0, <1>6, <1>8, <2>1, <2>2, <2>3, AcksUnseen DEF TurnFails
<1>9. CASE \/ AcksNotSent \/ FetchFails \/ TakePendingCommands
           \/ \E offer \in SUBSET Id : FetchPendingCommands(offer)
           \/ AllReserved \/ AllExecuted \/ AllRecorded \/ NoResultsDue
  <2>1. UNCHANGED <<ledger, verdict, pruned>>
    BY <1>9 DEF AcksNotSent, FetchFails, FetchPendingCommands, TakePendingCommands,
           AllReserved, AllExecuted, AllRecorded, NoResultsDue
  <2> QED
    BY <1>0, <2>1, AcksUnseen
<1> QED
  BY <1>1, <1>2, <1>3, <1>4, <1>5, <1>7, <1>8, <1>9 DEF PollStep

\* So does every step of a request, of start-up and of maintenance.
LEMMA OthersMeetContract ==
    ASSUME RefInv, [Next]_vars, ~PollStep
    PROVE  [Contract!Next]_(Contract!vars)
<1> USE DEF durable, stateVars, pollVars, backendVars, history, bounds
<1>0. TypeOK /\ OneOwner /\ NotYetDriven /\ ForgottenInvariant
  BY DEF RefInv, TInv, IInv, CommandInvariant
<1>a. op \in [Handler -> Request] /\ ledger \in [Id -> Row]
  BY <1>0 DEF TypeOK
<1>1. ASSUME NEW h \in Handler, NEW id \in Id, OperateRequest(h, id) \/ OperateUnavailable(h, id)
      PROVE  [Contract!Next]_(Contract!vars)
  <2>1. ledger' \in {ledger, Dispatched(id, NoToken)} /\ UNCHANGED <<verdict, pruned>>
    BY <1>1 DEF OperateRequest, OperateUnavailable
  <2> QED
    BY <1>0, <2>1, DispatchMeetsContract, AcksUnseen
<1>2. ASSUME NEW h \in Handler, OperateReply(h)
      PROVE  [Contract!Next]_(Contract!vars)
  <2>1. /\ op[h].pc = "recording" /\ ledger' \in {ledger, Settled(op[h].id, op[h].result)}
        /\ UNCHANGED <<verdict, pruned>>
    BY <1>2 DEF OperateReply
  <2>2. op[h].id \in Id /\ RequestOwns(h, op[h].id)
    BY <1>a, <2>1 DEF Request, RequestFields, RequestOwns
  <2>3. op[h].result \in Contract!Answers(op[h].id)
    BY <2>1, <2>2, OwnersHaveAnswers
  <2>4. ledger[op[h].id].state = "dispatching"
    BY <1>0, <2>2 DEF OneOwner
  <2> QED
    BY <1>0, <2>1, <2>2, <2>3, <2>4, RecordMeetsContract, AcksUnseen
<1>3. ASSUME NEW h \in Handler, NEW outcome \in Outcome, OperateDevice(h, outcome)
      PROVE  [Contract!Next]_(Contract!vars)
  <2>1. /\ op[h].pc = "operating" /\ Drive(op[h].id, outcome) /\ UNCHANGED <<ledger, pruned>>
    BY <1>3 DEF OperateDevice
  <2>2. op[h].id \in Id /\ RequestOwns(h, op[h].id)
    BY <1>a, <2>1 DEF Request, RequestFields, RequestOwns
  <2>3. verdict[op[h].id] = "none" /\ op[h].id \notin pruned
    BY <1>0, <2>1, <2>2 DEF NotYetDriven, ForgottenInvariant
  <2>4. ledger[op[h].id].state = "dispatching"
    BY <1>0, <2>2 DEF OneOwner
  <2> QED
    BY <1>0, <2>1, <2>2, <2>3, <2>4, DriveMeetsContract
<1>4. CASE \/ \E h \in Handler : OperateDuplicate(h)
           \/ \E offer \in SUBSET Id : ConfigUpdate(offer)
           \/ Crash \/ UNCHANGED vars
           \/ \E id \in Id : Expire(id) \/ (\E token \in Token : ReLease(id, token))
  <2>1. UNCHANGED <<ledger, verdict, pruned>>
    BY <1>4 DEF OperateDuplicate, ConfigUpdate, Crash, Expire, ReLease, vars
  <2> QED
    BY <1>0, <2>1, AcksUnseen
<1>5. CASE Boot
  <2> DEFINE ids == {id \in Id : ledger[id].state = "dispatching"}
  <2>1. \A id \in ids : /\ Place(ledger[id]) = "accepted" /\ Place(ledger'[id]) = "settled"
                        /\ ledger'[id].result = "unknown"
    BY <1>a, <1>5, RowMoves, RowAdvances DEF Boot, RecoverUnknownResult
  <2>2. \A id \in ids : ledger'[id].result \in Contract!Answers(id)
    BY <2>1 DEF Contract!Answers
  <2>3. \A id \in Id \ ids : SamePlace(ledger[id], ledger'[id])
    BY <1>5 DEF Boot, RecoverUnknownResult, SamePlace
  <2>4. UNCHANGED <<verdict, pruned>>
    BY <1>5 DEF Boot
  <2> QED
    BY <2>1, <2>2, <2>3, <2>4, SettlingMeetsContract
<1>6. CASE BootQuarantined
  <2>1. phase' = [id \in Id |-> "absent"] /\ answer' = [id \in Id |-> "none"]
    BY <1>6 DEF BootQuarantined, phase, answer, EmptyRow
  <2>2. verdict' = [id \in Id |-> "none"] /\ pruned' = {}
    BY <1>6 DEF BootQuarantined
  <2> QED
    BY <2>1, <2>2 DEF Contract!Next, Contract!Reset
<1>7. ASSUME NEW old \in SUBSET Id, PruneLedger(old)
      PROVE  [Contract!Next]_(Contract!vars)
  <2>1. /\ \A id \in old : Prunable(ledger[id])
        /\ ledger' = [id \in Id |-> IF id \in old THEN EmptyRow ELSE ledger[id]]
        /\ pruned' = pruned \cup old /\ verdict' = verdict
    BY <1>7 DEF PruneLedger
  <2>2. \A id \in old : phase[id] = "closed"
    BY <1>a, <2>1 DEF phase, Prunable
  <2>3. /\ phase' = [id \in Id |-> IF id \in old THEN "absent" ELSE phase[id]]
        /\ answer' = [id \in Id |-> IF id \in old THEN "none" ELSE answer[id]]
    BY <2>1 DEF phase, answer, EmptyRow
  <2>4. Contract!Forget(old)
    BY <2>1, <2>2, <2>3 DEF Contract!Forget
  <2> QED
    BY <2>4 DEF Contract!Next
<1> QED
  BY <1>1, <1>2, <1>3, <1>4, <1>5, <1>6, <1>7 DEF Next, HandlerStep

\* The invariant that the refinement rests on.
LEMMA InitRef == Init => RefInv
<1> SUFFICES ASSUME Init PROVE RefInv
  OBVIOUS
<1>1. TruthInvariant
  BY DEF Init, TruthInvariant, TrueOf, RequestOwns, EmptyRow, NoResults, NoRequest
<1>2. ForgottenInvariant
  BY DEF Init, ForgottenInvariant
<1> QED
  BY <1>1, <1>2, InitInvariant DEF RefInv, TInv

LEMMA NextRef == RefInv /\ [Next]_vars => RefInv'
<1> QED
  BY NextTruth, PollKeepsForgotten, OthersKeepForgotten DEF RefInv

\* The command plane implements its contract, for any number of commands,
\* requests, crashes and failing calls: a command is driven only while it is
\* accepted, once, and what it is settled with is true and final
\* (CommandLedger, main._run_command_poll, health_server._handle_operate).
THEOREM PlaneKeepsContract == Spec => ContractSpec
<1>1. Init => Contract!Init
  BY DEF Init, Contract!Init, phase, answer, EmptyRow
<1>2. RefInv /\ [Next]_vars => [Contract!Next]_(Contract!vars)
  BY PollMeetsContract, OthersMeetContract
<1> QED
  BY <1>1, <1>2, InitRef, NextRef, PTL DEF Spec, ContractSpec, Contract!Spec

-----------------------------------------------------------------------------
(* The caller of /operate is told ok only when the device accepted *)

\* By the contract, a forgotten command is never answered by a verdict again.
ForgottenAnswers == \A id \in pruned : answer[id] \in {"none", "rejected", "unknown"}

LEMMA ContractForgets ==
    ASSUME TypeOK, ForgottenAnswers, [Contract!Next]_(Contract!vars)
    PROVE  ForgottenAnswers'
<1>0. pruned \subseteq Id
  BY DEF TypeOK
<1>1. CASE UNCHANGED Contract!vars
  BY <1>1 DEF ForgottenAnswers, Contract!vars
<1>2. ASSUME NEW id \in Id, Contract!Accept(id) \/ (\E v \in {"ok", "failed"} : Contract!Drive(id, v))
      PROVE  ForgottenAnswers'
  BY <1>2 DEF ForgottenAnswers, Contract!Accept, Contract!Drive
<1>3. ASSUME NEW ids \in SUBSET Id, Contract!Settle(ids) PROVE ForgottenAnswers'
  <2>1. pruned' = pruned
    BY <1>3 DEF Contract!Settle
  <2>2. ASSUME NEW id \in pruned PROVE answer'[id] \in {"none", "rejected", "unknown"}
    <3>1. answer'[id] \in Contract!Answers(id) \/ answer'[id] = answer[id]
      BY <1>0, <1>3, <2>2 DEF Contract!Settle
    <3> QED
      BY <2>2, <3>1 DEF ForgottenAnswers, Contract!Answers
  <2> QED
    BY <2>1, <2>2 DEF ForgottenAnswers
<1>4. ASSUME NEW ids \in SUBSET Id, Contract!Close(ids) PROVE ForgottenAnswers'
  BY <1>4 DEF ForgottenAnswers, Contract!Close
<1>5. ASSUME NEW ids \in SUBSET Id, Contract!Forget(ids) PROVE ForgottenAnswers'
  <2>1. /\ pruned' = pruned \cup ids
        /\ answer' = [id \in Id |-> IF id \in ids THEN "none" ELSE answer[id]]
    BY <1>5 DEF Contract!Forget
  <2>2. \A id \in pruned' : id \in Id /\ answer'[id] \in {"none", "rejected", "unknown"}
    BY <1>0, <2>1 DEF ForgottenAnswers
  <2> QED
    BY <2>2 DEF ForgottenAnswers
<1>6. CASE Contract!Reset
  BY <1>6 DEF ForgottenAnswers, Contract!Reset
<1> QED
  BY <1>1, <1>2, <1>3, <1>4, <1>5, <1>6 DEF Contract!Next

\* A reply stands while the process lives.
ReplyInvariant ==
    /\ OperateReplyIsTrue
    /\ ~up => \A h \in Handler : op[h].reply # "ok"

\* A device answers a command once: driving it takes back no reply.
LEMMA DriveKeepsReplies ==
    ASSUME TypeOK, ReplyInvariant, up, up' = up, NEW id \in Id, NEW outcome,
           Drive(id, outcome), outcome # "rejected" => verdict[id] = "none",
           \A h \in Handler : op'[h].id = op[h].id /\ op'[h].reply = op[h].reply
    PROVE  ReplyInvariant'
<1>1. verdict \in [Id -> {"none", "ok", "failed"}]
  BY DEF TypeOK
<1>2. CASE outcome = "rejected"
  BY <1>2 DEF Drive, ReplyInvariant, OperateReplyIsTrue
<1>3. CASE outcome # "rejected"
  <2>1. verdict' = [verdict EXCEPT ![id] = outcome] /\ verdict[id] = "none"
    BY <1>3 DEF Drive
  <2>2. ASSUME NEW h \in Handler, op[h].reply = "ok" PROVE verdict'[op[h].id] = "ok"
    <3>1. verdict[op[h].id] = "ok"
      BY <2>2 DEF ReplyInvariant, OperateReplyIsTrue
    <3>2. op[h].id # id
      BY <2>1, <3>1
    <3> QED
      BY <1>1, <2>1, <3>1, <3>2
  <2> QED
    BY <2>2 DEF ReplyInvariant, OperateReplyIsTrue
<1> QED
  BY <1>2, <1>3

\* The steps that answer a request.
LEMMA HandlersReplyTruly ==
    ASSUME RefInv, ForgottenAnswers, ReplyInvariant, NEW h \in Handler,
           OperateReply(h) \/ OperateDuplicate(h)
    PROVE  ReplyInvariant'
<1> USE DEF durable, stateVars, pollVars, backendVars, history, bounds
<1>0. TypeOK /\ TruthInvariant /\ ForgottenInvariant
  BY DEF RefInv, TInv, IInv
<1>1. /\ op \in [Handler -> Request] /\ op[h] \in RequestFields /\ op[h].pc # "idle"
      /\ op[h].id \in Id
  BY <1>0 DEF TypeOK, Request, RequestFields, OperateReply, OperateDuplicate
<1>2. /\ up /\ up' = up /\ UNCHANGED verdict
      /\ op'[h].id = op[h].id /\ \A g \in Handler \ {h} : op'[g] = op[g]
  BY <1>1 DEF OperateReply, OperateDuplicate, RequestFields
<1>3. op'[h].reply = "ok" => verdict[op[h].id] = "ok"
  <2>1. CASE OperateReply(h)
    <3>1. op'[h].reply = "ok" => op[h].result = "ok"
      BY <1>1, <2>1 DEF OperateReply, RequestFields
    <3>2. op[h].pc = "recording" /\ RequestOwns(h, op[h].id)
      BY <2>1 DEF OperateReply, RequestOwns
    <3>3. TrueOf(op[h].id, op[h].result)
      BY <1>0, <1>1, <3>2 DEF TruthInvariant, ForgottenInvariant
    <3> QED
      BY <3>1, <3>3 DEF TrueOf
  <2>2. CASE OperateDuplicate(h)
    <3>1. op'[h].reply = "ok" => ledger[op[h].id].result = "ok"
      BY <1>1, <2>2 DEF OperateDuplicate, RequestFields
    <3>2. ASSUME ledger[op[h].id].result = "ok" PROVE verdict[op[h].id] = "ok"
      <4>1. op[h].id \notin pruned
        BY <1>1, <3>2 DEF ForgottenAnswers, answer
      <4> QED
        BY <1>0, <1>1, <3>2, <4>1 DEF TruthInvariant, TrueOf
    <3> QED
      BY <3>1, <3>2
  <2> QED
    BY <2>1, <2>2
<1> QED
  BY <1>2, <1>3 DEF ReplyInvariant, OperateReplyIsTrue

\* Any step.
LEMMA NextRepliesTruly ==
    ASSUME RefInv, ForgottenAnswers, ReplyInvariant, [Next]_vars
    PROVE  ReplyInvariant'
<1> USE DEF durable, stateVars, pollVars, backendVars, history, bounds
<1>0. TypeOK /\ OneOwner /\ NotYetDriven /\ ForgottenInvariant
  BY DEF RefInv, TInv, IInv, CommandInvariant
<1>a. op \in [Handler -> Request] /\ fresh \subseteq Id
  BY <1>0 DEF TypeOK
<1>1. CASE UNCHANGED <<op, verdict>> /\ (up' \/ up' = up)
  BY <1>1 DEF ReplyInvariant, OperateReplyIsTrue
<1>2. CASE PollBystander
  BY <1>0, <1>1, <1>2, PollBystanderSteps
<1>3. CASE \/ \E cmd \in missed : Reserve(cmd)
           \/ \E id \in Id : Record(id)
           \/ TurnFails \/ Boot \/ UNCHANGED vars
           \/ \E offer \in SUBSET Id : ConfigUpdate(offer)
           \/ \E old \in SUBSET Id : PruneLedger(old)
           \/ \E id \in Id : Expire(id) \/ (\E token \in Token : ReLease(id, token))
  <2>1. UNCHANGED <<op, verdict>> /\ (up' \/ up' = up)
    BY <1>3, Zenon DEF Reserve, Record, TurnFails, Boot, vars, ConfigUpdate, PruneLedger,
                       Expire, ReLease
  <2> QED
    BY <1>1, <2>1
<1>4. ASSUME NEW id \in fresh, NEW outcome \in Outcome, Execute(id, outcome)
      PROVE  ReplyInvariant'
  <2>1. /\ id \in Id /\ up /\ UNCHANGED <<up, op>> /\ Drive(id, outcome)
        /\ id \in expired => outcome = "rejected"
    BY <1>a, <1>4 DEF Execute
  <2>2. outcome # "rejected" => verdict[id] = "none"
    BY <1>0, <1>4, <2>1 DEF NotYetDriven, ForgottenInvariant
  <2> QED
    BY <1>0, <2>1, <2>2, DriveKeepsReplies
<1>5. ASSUME NEW h \in Handler, NEW outcome \in Outcome, OperateDevice(h, outcome)
      PROVE  ReplyInvariant'
  <2>1. op[h].pc = "operating" /\ up /\ up' = up /\ Drive(op[h].id, outcome)
    BY <1>5 DEF OperateDevice
  <2>2. op[h].id \in Id /\ op[h] \in RequestFields /\ RequestOwns(h, op[h].id)
    BY <1>a, <2>1 DEF Request, RequestFields, RequestOwns
  <2>3. verdict[op[h].id] = "none"
    BY <1>0, <2>1, <2>2 DEF NotYetDriven, ForgottenInvariant
  <2>4. \A g \in Handler : op'[g].id = op[g].id /\ op'[g].reply = op[g].reply
    BY <1>5, <1>a, <2>2 DEF OperateDevice, RequestFields
  <2> QED
    BY <1>0, <2>1, <2>2, <2>3, <2>4, DriveKeepsReplies
<1>6. ASSUME NEW h \in Handler, NEW id \in Id, OperateRequest(h, id) \/ OperateUnavailable(h, id)
      PROVE  ReplyInvariant'
  <2>1. /\ up /\ up' = up /\ UNCHANGED verdict
        /\ op'[h].reply # "ok" /\ \A g \in Handler \ {h} : op'[g] = op[g]
    BY <1>6, <1>a DEF OperateRequest, OperateUnavailable, NoRequest
  <2> QED
    BY <2>1 DEF ReplyInvariant, OperateReplyIsTrue
<1>7. ASSUME NEW h \in Handler, OperateReply(h) \/ OperateDuplicate(h)
      PROVE  ReplyInvariant'
  BY <1>7, HandlersReplyTruly
<1>8. CASE Crash
  BY <1>8 DEF Crash, NoRequest, ReplyInvariant, OperateReplyIsTrue
<1>9. CASE BootQuarantined
  BY <1>9 DEF BootQuarantined, ReplyInvariant, OperateReplyIsTrue
<1> QED
  BY <1>2, <1>3, <1>4, <1>5, <1>6, <1>7, <1>8, <1>9
     DEF Next, PollStep, PollBystander, HandlerStep

\* A request is answered with ok only when the device accepted its command,
\* whether it drove the command itself or found the answer in the journal
\* (health_server._handle_operate).
THEOREM RepliesAreTrue == Spec => []OperateReplyIsTrue
<1> DEFINE Inv == RefInv /\ ForgottenAnswers /\ ReplyInvariant
<1>1. Init => Inv
  <2> SUFFICES ASSUME Init PROVE Inv
    OBVIOUS
  <2>1. ForgottenAnswers /\ ReplyInvariant
    BY DEF Init, ForgottenAnswers, ReplyInvariant, OperateReplyIsTrue, NoRequest
  <2> QED
    BY <2>1, InitRef
<1>2. Inv /\ [Next]_vars => Inv'
  BY NextRef, PollMeetsContract, OthersMeetContract, ContractForgets, NextRepliesTruly
     DEF RefInv, TInv, IInv
<1>3. Inv => OperateReplyIsTrue
  BY DEF ReplyInvariant
<1> QED
  BY <1>1, <1>2, <1>3, PTL DEF Spec

-----------------------------------------------------------------------------
(* A dispatching row without an owner: what leaves one, what settles one *)

Owned(id) == PollOwns(id) \/ \E h \in Handler : RequestOwns(h, id)

\* Nobody of this process will write the result of the row.
Orphan(id) == up /\ ledger[id].state = "dispatching" /\ ~Owned(id)

OrphanSteps(id) ==
    /\ Orphan(id)' => Orphan(id) \/ faults' > faults
    /\ Orphan(id) => Orphan(id)' \/ ~up'

\* A journal call that raises is counted.
LEMMA FaultsGrow == ASSUME TypeOK, JournalRaises PROVE faults' > faults
<1> QED
  BY DEF TypeOK, JournalRaises

\* A step that leaves the state of a row and its owners alone.
LEMMA SameOwners ==
    ASSUME NEW id \in Id, up' = up, ledger'[id].state = ledger[id].state,
           PollOwns(id)' <=> PollOwns(id),
           \A h \in Handler : RequestOwns(h, id)' <=> RequestOwns(h, id)
    PROVE  OrphanSteps(id)
<1>1. Owned(id)' <=> Owned(id)
  BY DEF Owned
<1> QED
  BY <1>1 DEF OrphanSteps, Orphan

\* The row of an id that start_dispatch leaves in dispatching was recorded
\* before and is as it was, or is new.
LEMMA DispatchOutcomes ==
    ASSUME TypeOK, NEW id \in Id, NEW new \in Id, NEW token \in Token \cup {NoToken},
           ledger' = Dispatched(new, token)
    PROVE  \/ ledger'[id].state = ledger[id].state
           \/ id = new /\ ledger[id].state = "absent" /\ ledger'[id].state = "dispatching"
<1> QED
  BY DispatchedRows DEF Recorded

\* The poll thread: it owns what it inserts and settles what it owns, and it
\* lets go of a row only when a journal call raises.
LEMMA PollOrphans ==
    ASSUME IInv, PollStep, NEW id \in Id
    PROVE  OrphanSteps(id)
<1> USE DEF durable, stateVars, pollVars, backendVars, history, bounds
<1>0. TypeOK /\ OneOwner
  BY DEF IInv, CommandInvariant
<1>a. /\ ledger \in [Id -> Row] /\ results \in [Id -> Outcome \cup {"none"}]
      /\ fresh \subseteq Id /\ missed \subseteq Command /\ taken \subseteq Command
  BY <1>0 DEF TypeOK
<1>b. Owned(id) => ledger[id].state = "dispatching"
  BY <1>0 DEF OneOwner, Owned
<1>1. CASE PollBystander
  <2>1. StatesKept /\ UNCHANGED <<up, fresh, results, op>>
    BY <1>0, <1>1, PollBystanderSteps
  <2> QED
    BY <2>1, SameOwners DEF StatesKept, SameStatus, PollOwns, RequestOwns
<1>2. CASE \E cmd \in missed : Reserve(cmd)
  <2>1. PICK cmd \in missed : Reserve(cmd)
    BY <1>2
  <2>2. /\ cmd.id \in Id /\ cmd.token \in Token \cup {NoToken}
        /\ ledger' = Dispatched(cmd.id, cmd.token) /\ UNCHANGED <<up, results, op>>
        /\ fresh' = IF Recorded(ledger[cmd.id]) THEN fresh ELSE fresh \cup {cmd.id}
    BY <1>a, <2>1 DEF Reserve, Command
  <2>3. CASE id = cmd.id /\ ~Recorded(ledger[id])
    <3>1. PollOwns(id)' /\ ~Orphan(id)
      BY <2>2, <2>3 DEF PollOwns, Orphan, Recorded
    <3> QED
      BY <3>1 DEF OrphanSteps, Orphan, Owned
  <2>4. CASE ~(id = cmd.id /\ ~Recorded(ledger[id]))
    <3>1. ledger'[id] = ledger[id]
      BY <1>0, <2>2, <2>4, DispatchedRows
    <3>2. id \in fresh' <=> id \in fresh
      BY <2>2, <2>4
    <3> QED
      BY <2>2, <3>1, <3>2, SameOwners DEF PollOwns, RequestOwns
  <2> QED
    BY <2>3, <2>4
<1>3. CASE \E other \in fresh, outcome \in Outcome : Execute(other, outcome)
  <2>1. PICK other \in fresh, outcome \in Outcome : Execute(other, outcome)
    BY <1>3
  <2>2. /\ fresh' = fresh \ {other} /\ results' = [results EXCEPT ![other] = outcome]
        /\ UNCHANGED <<ledger, up, op>> /\ outcome # "none" /\ other \in Id
    BY <1>a, <2>1 DEF Execute, Outcome
  <2>3. PollOwns(id)' <=> PollOwns(id)
    BY <1>a, <2>2 DEF PollOwns
  <2> QED
    BY <2>2, <2>3, SameOwners DEF RequestOwns
<1>4. CASE \E other \in Id : Record(other)
  <2>1. PICK other \in Id : Record(other)
    BY <1>4
  <2>2. /\ results' = [results EXCEPT ![other] = "none"] /\ results[other] # "none"
        /\ ledger' = Settled(other, results[other]) /\ UNCHANGED <<up, fresh, op>>
    BY <2>1 DEF Record
  <2>3. CASE id = other
    <3>1. PollOwns(id) /\ Recorded(ledger[id])
      BY <1>b, <2>2, <2>3 DEF PollOwns, Owned, Recorded
    <3>2. ledger'[id].state = "completed"
      BY <1>0, <2>2, <2>3, <3>1, SettledRows
    <3> QED
      BY <3>1, <3>2 DEF OrphanSteps, Orphan, Owned
  <2>4. CASE id # other
    <3>1. ledger'[id] = ledger[id]
      BY <1>0, <2>2, <2>4, SettledRows
    <3>2. PollOwns(id)' <=> PollOwns(id)
      BY <1>a, <2>2, <2>4 DEF PollOwns
    <3> QED
      BY <2>2, <3>1, <3>2, SameOwners DEF RequestOwns
  <2> QED
    BY <2>3, <2>4
<1>5. CASE TurnFails
  <2>1. faults' > faults
    BY <1>0, <1>5, FaultsGrow DEF TurnFails
  <2>2. UNCHANGED <<up, op>> /\ ~PollOwns(id)'
    BY <1>5 DEF TurnFails, AbandonTurn, PollOwns, NoResults
  <2>3. ASSUME Orphan(id) PROVE Orphan(id)'
    <3>1. ~Owned(id)'
      BY <2>2, <2>3 DEF Orphan, Owned, RequestOwns
    <3>2. results[id] = "none" /\ Recorded(ledger[id])
      BY <2>3 DEF Orphan, Owned, PollOwns, Recorded
    <3>3. ASSUME NEW cmd \in Command, ledger' = Requeued(cmd)
          PROVE  ledger'[id].state = ledger[id].state
      BY <1>0, <3>3, RequeuedRows DEF SameStatus
    <3>4. ASSUME NEW cmd \in Command, ledger' = Dispatched(cmd.id, cmd.token)
          PROVE  ledger'[id].state = ledger[id].state
      <4>1. cmd.id \in Id /\ cmd.token \in Token \cup {NoToken}
        BY DEF Command
      <4> QED
        BY <1>0, <3>2, <3>4, <4>1, DispatchedRows
    <3>5. ASSUME NEW other \in Id, results[other] # "none",
                 ledger' = Settled(other, results[other])
          PROVE  ledger'[id].state = ledger[id].state
      BY <1>0, <3>2, <3>5, SettledRows
    <3>6. ledger'[id].state = ledger[id].state
      BY <1>5, <1>a, <3>3, <3>4, <3>5 DEF TurnFails
    <3> QED
      BY <2>2, <2>3, <3>1, <3>6 DEF Orphan
  <2> QED
    BY <2>1, <2>3 DEF OrphanSteps
<1> QED
  BY <1>1, <1>2, <1>3, <1>4, <1>5 DEF PollStep, PollBystander

\* What a request does to its handler, and that the handler was free.
LEMMA RequestsStart ==
    ASSUME TypeOK, NEW h \in Handler, NEW id \in Id, OperateRequest(h, id)
    PROVE  /\ op[h].pc \notin {"operating", "recording"}
           /\ op'[h].pc = IF Recorded(ledger[id]) THEN "answering" ELSE "operating"
           /\ op'[h].id = id
           /\ \A g \in Handler \ {h} : op'[g] = op[g]
           /\ UNCHANGED <<up, fresh, results>>
           /\ ledger' = Dispatched(id, NoToken)
<1>1. op[h].pc \notin {"operating", "recording"}
  BY DEF OperateRequest, Idle
<1>2. op \in [Handler -> Request]
  BY DEF TypeOK
<1> QED
  BY <1>1, <1>2 DEF OperateRequest, NoRequest, pollVars

\* The same of a request that the journal could not take.
LEMMA RequestsAreTurnedAway ==
    ASSUME TypeOK, NEW h \in Handler, NEW id \in Id, OperateUnavailable(h, id)
    PROVE  /\ op[h].pc \notin {"operating", "recording"}
           /\ op'[h].pc = "replied"
           /\ \A g \in Handler \ {h} : op'[g] = op[g]
           /\ UNCHANGED <<up, fresh, results>>
           /\ JournalRaises
           /\ ledger' \in {ledger, Dispatched(id, NoToken)}
<1>1. op[h].pc \notin {"operating", "recording"}
  BY DEF OperateUnavailable, Idle
<1>2. op \in [Handler -> Request]
  BY DEF TypeOK
<1> QED
  BY <1>1, <1>2 DEF OperateUnavailable, NoRequest, pollVars

\* The requests of /operate: the same, and a reply is sent whether or not the
\* result could be recorded.
LEMMA HandlerOrphans ==
    ASSUME IInv, NEW id \in Id, NEW h \in Handler,
           \/ HandlerStep(h)
           \/ \E other \in Id : OperateRequest(h, other) \/ OperateUnavailable(h, other)
    PROVE  OrphanSteps(id)
<1> USE DEF durable, stateVars, pollVars, backendVars, history, bounds
<1>0. TypeOK /\ OneOwner
  BY DEF IInv, CommandInvariant
<1>a. op \in [Handler -> Request] /\ ledger \in [Id -> Row]
  BY <1>0 DEF TypeOK
<1>b. Owned(id) => ledger[id].state = "dispatching"
  BY <1>0 DEF OneOwner, Owned
<1>1. CASE \E outcome \in Outcome : OperateDevice(h, outcome)
  <2>1. /\ op[h].pc = "operating" /\ op'[h].pc = "recording" /\ op'[h].id = op[h].id
        /\ \A g \in Handler \ {h} : op'[g] = op[g]
        /\ UNCHANGED <<up, ledger, fresh, results>>
    BY <1>a, <1>1 DEF OperateDevice, Request, RequestFields
  <2> QED
    BY <2>1, SameOwners DEF PollOwns, RequestOwns
<1>2. CASE OperateReply(h)
  <2>1. /\ op[h].pc = "recording" /\ op'[h].pc = "replied" /\ op[h].id \in Id
        /\ \A g \in Handler \ {h} : op'[g] = op[g]
        /\ UNCHANGED <<up, fresh, results>>
        /\ \/ ledger' = Settled(op[h].id, op[h].result)
           \/ JournalRaises /\ ledger' = ledger
    BY <1>a, <1>2 DEF OperateReply, Request, RequestFields
  <2>2. CASE op[h].id = id
    <3>1. RequestOwns(h, id) /\ Recorded(ledger[id])
      BY <1>b, <2>1, <2>2 DEF RequestOwns, Owned, Recorded
    <3>2. ~Orphan(id)
      BY <3>1 DEF Orphan, Owned
    <3>3. CASE ledger' = Settled(op[h].id, op[h].result)
      <4>1. ledger'[id].state = "completed"
        BY <1>0, <2>2, <3>1, <3>3, SettledRows
      <4> QED
        BY <3>2, <4>1 DEF OrphanSteps, Orphan
    <3>4. CASE JournalRaises
      BY <1>0, <3>2, <3>4, FaultsGrow DEF OrphanSteps
    <3> QED
      BY <2>1, <3>3, <3>4
  <2>3. CASE op[h].id # id
    <3>1. ledger'[id] = ledger[id]
      BY <1>0, <2>1, <2>3, SettledRows
    <3>2. \A g \in Handler : RequestOwns(g, id)' <=> RequestOwns(g, id)
      BY <2>1, <2>3 DEF RequestOwns
    <3> QED
      BY <2>1, <3>1, <3>2, SameOwners DEF PollOwns
  <2> QED
    BY <2>2, <2>3
<1>3. CASE \E other \in Id : OperateRequest(h, other)
  <2>1. PICK other \in Id : OperateRequest(h, other)
    BY <1>3
  <2>2. /\ op[h].pc \notin {"operating", "recording"}
        /\ op'[h].pc = IF Recorded(ledger[other]) THEN "answering" ELSE "operating"
        /\ op'[h].id = other
        /\ \A g \in Handler \ {h} : op'[g] = op[g]
        /\ UNCHANGED <<up, fresh, results>>
        /\ ledger' = Dispatched(other, NoToken)
    BY <1>0, <2>1, RequestsStart
  <2>3. CASE id = other /\ ~Recorded(ledger[id])
    <3>1. RequestOwns(h, id)' /\ ~Orphan(id)
      BY <2>2, <2>3 DEF RequestOwns, Orphan, Recorded
    <3> QED
      BY <3>1 DEF OrphanSteps, Orphan, Owned
  <2>4. CASE ~(id = other /\ ~Recorded(ledger[id]))
    <3>1. ledger'[id] = ledger[id]
      BY <1>0, <2>2, <2>4, DispatchedRows
    <3>2. \A g \in Handler : RequestOwns(g, id)' <=> RequestOwns(g, id)
      BY <2>2, <2>4 DEF RequestOwns
    <3> QED
      BY <2>2, <3>1, <3>2, SameOwners DEF PollOwns
  <2> QED
    BY <2>3, <2>4
<1>4. CASE \E other \in Id : OperateUnavailable(h, other)
  <2>1. PICK other \in Id : OperateUnavailable(h, other)
    BY <1>4
  <2>2. /\ op[h].pc \notin {"operating", "recording"} /\ op'[h].pc = "replied"
        /\ \A g \in Handler \ {h} : op'[g] = op[g]
        /\ UNCHANGED <<up, fresh, results>> /\ JournalRaises
        /\ ledger' \in {ledger, Dispatched(other, NoToken)}
    BY <1>0, <2>1, RequestsAreTurnedAway
  <2>3. faults' > faults
    BY <1>0, <2>2, FaultsGrow
  <2>4. \A g \in Handler : RequestOwns(g, id)' <=> RequestOwns(g, id)
    BY <2>2 DEF RequestOwns
  <2>5. Recorded(ledger[id]) => ledger'[id] = ledger[id]
    BY <1>0, <2>2, DispatchedRows
  <2> QED
    BY <2>2, <2>3, <2>4, <2>5 DEF OrphanSteps, Orphan, Owned, PollOwns, Recorded
<1>5. CASE OperateDuplicate(h)
  <2>1. /\ op[h].pc = "answering" /\ op'[h].pc = "replied"
        /\ \A g \in Handler \ {h} : op'[g] = op[g]
        /\ UNCHANGED <<up, ledger, fresh, results>>
    BY <1>a, <1>5 DEF OperateDuplicate, Request, RequestFields
  <2> QED
    BY <2>1, SameOwners DEF PollOwns, RequestOwns
<1> QED
  BY <1>1, <1>2, <1>3, <1>4, <1>5 DEF HandlerStep

\* A start of the process settles every row that the last one left behind.
LEMMA BootSettles ==
    ASSUME TypeOK, Boot \/ BootQuarantined, NEW id \in Id
    PROVE  ledger'[id].state # "dispatching"
<1>1. CASE Boot
  <2>1. \A row \in Row : RecoverUnknownResult(row).state # "dispatching"
    BY DEF RecoverUnknownResult, RecordResult, Recorded, Row, Columns
  <2> QED
    BY <1>1, <2>1 DEF Boot, TypeOK
<1>2. CASE BootQuarantined
  BY <1>2 DEF BootQuarantined, EmptyRow
<1> QED
  BY <1>1, <1>2

\* Start-up, maintenance, the backend and time neither leave nor adopt a row.
LEMMA EnvironmentOrphans ==
    ASSUME IInv, NEW id \in Id,
           \/ \E offer \in SUBSET Id : ConfigUpdate(offer)
           \/ Crash \/ Boot \/ BootQuarantined
           \/ \E old \in SUBSET Id : PruneLedger(old)
           \/ \E other \in Id : Expire(other) \/ (\E token \in Token : ReLease(other, token))
           \/ UNCHANGED vars
    PROVE  OrphanSteps(id)
<1> USE DEF durable, stateVars, pollVars, backendVars, history, bounds
<1>0. TypeOK
  BY DEF IInv
<1>1. CASE \/ \E offer \in SUBSET Id : ConfigUpdate(offer)
           \/ \E other \in Id : Expire(other) \/ (\E token \in Token : ReLease(other, token))
           \/ UNCHANGED vars
  <2>1. UNCHANGED <<up, ledger, fresh, results, op>>
    BY <1>1 DEF ConfigUpdate, Expire, ReLease, vars
  <2> QED
    BY <2>1, SameOwners DEF PollOwns, RequestOwns
<1>2. CASE Crash
  BY <1>2 DEF Crash, OrphanSteps, Orphan
<1>3. CASE Boot \/ BootQuarantined
  <2>1. ~up /\ ledger'[id].state # "dispatching"
    BY <1>0, <1>3, BootSettles DEF Boot, BootQuarantined
  <2> QED
    BY <2>1 DEF OrphanSteps, Orphan
<1>4. CASE \E old \in SUBSET Id : PruneLedger(old)
  <2>1. PICK old \in SUBSET Id : PruneLedger(old)
    BY <1>4
  <2>2. /\ UNCHANGED <<up, fresh, results, op>>
        /\ id \in old => ledger[id].state = "completed" /\ ledger'[id].state = "absent"
        /\ id \notin old => ledger'[id] = ledger[id]
    BY <2>1 DEF PruneLedger, Prunable, EmptyRow
  <2>3. CASE id \in old
    BY <2>2, <2>3 DEF OrphanSteps, Orphan
  <2>4. CASE id \notin old
    BY <2>2, <2>4, SameOwners DEF PollOwns, RequestOwns
  <2> QED
    BY <2>3, <2>4
<1> QED
  BY <1>1, <1>2, <1>3, <1>4

LEMMA NextOrphans == ASSUME IInv, [Next]_vars, NEW id \in Id PROVE OrphanSteps(id)
<1> QED
  BY PollOrphans, HandlerOrphans, EnvironmentOrphans DEF Next

OrphansNeedAFault == [][\A id \in Id : Orphan(id)' => Orphan(id) \/ faults' > faults]_vars

OrphansWaitForRestart == [][\A id \in Id : Orphan(id) => Orphan(id)' \/ ~up']_vars

RestartSettles == [][~up /\ up' => \A id \in Id : ledger'[id].state # "dispatching"]_vars

\* While the process runs, a command stays in dispatching without anybody to
\* settle it only after a journal call has raised: whatever the poll thread and
\* the /operate requests do to each other, none of them forgets a command it has
\* reserved. This is the part of EveryDispatchSettles that is not fairness.
THEOREM NoOrphanWithoutFault == Spec => OrphansNeedAFault
<1>1. IInv /\ [Next]_vars => [\A id \in Id : Orphan(id)' => Orphan(id) \/ faults' > faults]_vars
  BY NextOrphans DEF OrphanSteps
<1> QED
  BY <1>1, InitInvariant, NextInvariant, PTL DEF Spec, OrphansNeedAFault

\* Such a command is not settled by the process that left it: neither a
\* redelivery, nor another /operate request, nor the maintenance touches it. It
\* waits for the recovery of the next start (recover_unknown_results).
THEOREM OrphanWaits == Spec => OrphansWaitForRestart
<1>1. IInv /\ [Next]_vars => [\A id \in Id : Orphan(id) => Orphan(id)' \/ ~up']_vars
  BY NextOrphans DEF OrphanSteps
<1> QED
  BY <1>1, InitInvariant, NextInvariant, PTL DEF Spec, OrphansWaitForRestart

\* And every start settles every command that the last process left behind.
THEOREM StartSettlesAll == Spec => RestartSettles
<1>1. ASSUME TypeOK, [Next]_vars, ~up, up', NEW id \in Id
      PROVE  ledger'[id].state # "dispatching"
  <2>1. ~PollStep
    BY <1>1 DEF PollStep, AcksNotSent, AcksSent, InAcks, FetchFails, FetchPendingCommands,
            TakePendingCommands, LookUp, Reserve, AllReserved, Execute, AllExecuted, Record,
            AllRecorded, TurnFails, NoResultsDue, ResultsDelivered, ResultsFail
  <2>2. \A h \in Handler : ~HandlerStep(h)
    BY <1>1 DEF HandlerStep, OperateDevice, OperateReply, OperateDuplicate
  <2>3. \A h \in Handler, other \in Id : ~OperateRequest(h, other) /\ ~OperateUnavailable(h, other)
    BY <1>1 DEF OperateRequest, OperateUnavailable
  <2>4. ~Crash /\ (\A offer \in SUBSET Id : ~ConfigUpdate(offer))
        /\ (\A old \in SUBSET Id : ~PruneLedger(old))
    BY <1>1 DEF Crash, ConfigUpdate, PruneLedger
  <2>5. /\ \A other \in Id : ~Expire(other)
        /\ \A other \in Id, token \in Token : ~ReLease(other, token)
        /\ ~UNCHANGED vars
    BY <1>1 DEF Expire, ReLease, vars
  <2>6. Boot \/ BootQuarantined
    BY <1>1, <2>1, <2>2, <2>3, <2>4, <2>5 DEF Next
  <2> QED
    BY <1>1, <2>6, BootSettles
<1>2. TypeOK /\ [Next]_vars =>
         [~up /\ up' => \A id \in Id : ledger'[id].state # "dispatching"]_vars
  BY <1>1
<1> QED
  BY <1>2, TypeCorrect, PTL DEF Spec, RestartSettles

-----------------------------------------------------------------------------
(* What the backend counts as delivered *)

Accounted(id) == id \in pruned \/ resets > 0 \/ Recorded(ledger[id])

\* An id without a row has nothing to send; what the backend has accepted is
\* in the journal, unless its settled row was pruned or the journal was lost.
AcceptedInvariant ==
    /\ \A id \in Id : ~Recorded(ledger[id]) => ledger[id] = EmptyRow
    /\ \A id \in accepted : Accounted(id)

\* A row in a step that keeps it: recorded, or as empty as it was.
KeepsRow(id) ==
    /\ Recorded(ledger[id]) => Recorded(ledger'[id])
    /\ ~Recorded(ledger'[id]) => ledger'[id] = ledger[id]

\* The statements that keep a row.
LEMMA StatementsKeepRows ==
    ASSUME NEW row \in Row, ~Recorded(row) => row = EmptyRow, NEW token, NEW result,
           NEW new \in {StartDispatch(row, token), AckYenidenKuyrukla(row),
                        RecordResult(row, result), RecoverUnknownResult(row)}
                       \cup IF Recorded(row)
                              THEN {MarkAckDelivered(row), MarkDelivered(row),
                                    BumpDeliveryFailure(row), CountFailure(row)}
                              ELSE {}
    PROVE  /\ Recorded(row) => Recorded(new)
           /\ ~Recorded(new) => new = row
<1> USE DEF Recorded
<1>1. CASE new \in {StartDispatch(row, token), AckYenidenKuyrukla(row)}
  BY <1>1, RowStates DEF StartDispatch, AckYenidenKuyrukla, EmptyRow
<1>2. CASE new \in {RecordResult(row, result), RecoverUnknownResult(row)}
  BY <1>2 DEF RecordResult, RecoverUnknownResult, Row, Columns
<1>3. CASE Recorded(row) /\ new \in {MarkAckDelivered(row), MarkDelivered(row),
                                     BumpDeliveryFailure(row), CountFailure(row)}
  BY <1>3, RowStates, CountFailureState
<1> QED
  BY <1>1, <1>2, <1>3

\* A journal that was touched by one statement keeps its rows.
LEMMA JournalsKeepRows ==
    ASSUME TypeOK, AcceptedInvariant, NEW id \in Id,
           \/ UNCHANGED ledger
           \/ \E ids \in SUBSET AcksDue : ledger' = AcksMarked(ids)
           \/ \E cmd \in Command : ledger' = Requeued(cmd)
           \/ \E other \in Id : \E token : ledger' = Dispatched(other, token)
           \/ \E other \in Id : \E result : ledger' = Settled(other, result)
    PROVE  KeepsRow(id)
<1>0. /\ ledger \in [Id -> Row] /\ ledger[id] \in Row
      /\ ~Recorded(ledger[id]) => ledger[id] = EmptyRow
  BY DEF TypeOK, AcceptedInvariant
<1>1. CASE UNCHANGED ledger
  BY <1>1 DEF KeepsRow
<1>2. ASSUME NEW ids \in SUBSET AcksDue, ledger' = AcksMarked(ids)
      PROVE  KeepsRow(id)
  <2>1. id \in ids => Recorded(ledger[id])
    BY <1>0 DEF AcksDue, AckDue, EmptyRow
  <2> QED
    BY <1>0, <1>2, <2>1, StatementsKeepRows DEF AcksMarked, KeepsRow
<1>3. ASSUME NEW cmd \in Command, ledger' = Requeued(cmd)
      PROVE  KeepsRow(id)
  <2>1. ledger'[id] \in {ledger[id], AckYenidenKuyrukla(ledger[id])}
    BY <1>0, <1>3 DEF Requeued
  <2> QED
    BY <1>0, <2>1, StatementsKeepRows DEF KeepsRow
<1>4. ASSUME NEW other \in Id, NEW token, ledger' = Dispatched(other, token)
      PROVE  KeepsRow(id)
  <2>1. ledger'[id] \in {ledger[id], StartDispatch(ledger[id], token)}
    BY <1>0, <1>4 DEF Dispatched
  <2> QED
    BY <1>0, <2>1, StatementsKeepRows DEF KeepsRow
<1>5. ASSUME NEW other \in Id, NEW result, ledger' = Settled(other, result)
      PROVE  KeepsRow(id)
  <2>1. ledger'[id] \in {ledger[id], RecordResult(ledger[id], result)}
    BY <1>0, <1>5 DEF Settled
  <2> QED
    BY <1>0, <2>1, StatementsKeepRows DEF KeepsRow
<1> QED
  BY <1>1, <1>2, <1>3, <1>4, <1>5

\* The end of a delivery touches completed rows only.
LEMMA DeliveriesKeepRows ==
    ASSUME TypeOK, NEW id \in Id,
           ResultsDelivered \/ \E failure \in Failure : ResultsFail(failure)
    PROVE  KeepsRow(id)
<1>1. SameStatus(ledger[id], ledger'[id])
  BY PollBystanderSteps DEF PollBystander, StatesKept
<1>2. CASE Recorded(ledger[id])
  BY <1>1, <1>2 DEF KeepsRow, SameStatus, Recorded
<1>3. CASE ~Recorded(ledger[id])
  <2>1. PICK batch \in Batches(ResultsDue, ResultBatch) :
           \/ ledger' = ledger
           \/ \E marked \in SUBSET batch : ledger' = ResultsMarked(marked)
           \/ \E counted \in SUBSET batch : ledger' = FailuresCounted(counted)
           \/ \E counted \in SUBSET batch : \E last \in batch \ counted :
                 ledger' = [FailuresCounted(counted) EXCEPT ![last] = BumpDeliveryFailure(@)]
    BY DEF ResultsDelivered, ResultsFail
  <2>2. id \notin batch
    BY <1>3, <2>1, BatchesArePart DEF ResultsDue, ResultDue, Recorded
  <2>3. ledger'[id] = ledger[id]
    BY <2>1, <2>2 DEF ResultsMarked, FailuresCounted
  <2> QED
    BY <1>3, <2>3 DEF KeepsRow
<1> QED
  BY <1>2, <1>3

\* A step that keeps every row and counts no command as accepted that has none.
LEMMA KeptRowsStayAccounted ==
    ASSUME AcceptedInvariant, \A id \in Id : KeepsRow(id),
           accepted' \subseteq accepted \cup AcksDue, accepted \subseteq Id,
           UNCHANGED <<pruned, resets>>
    PROVE  AcceptedInvariant'
<1>1. \A id \in Id : ~Recorded(ledger'[id]) => ledger'[id] = EmptyRow
  BY DEF AcceptedInvariant, KeepsRow
<1>2. \A id \in AcksDue : id \in Id /\ Recorded(ledger[id])
  BY DEF AcceptedInvariant, AcksDue, AckDue, EmptyRow
<1>3. \A id \in accepted' : Accounted(id)'
  BY <1>2 DEF AcceptedInvariant, Accounted, KeepsRow
<1> QED
  BY <1>1, <1>3 DEF AcceptedInvariant

LEMMA PollAccounts ==
    ASSUME TypeOK, AcceptedInvariant, PollStep
    PROVE  AcceptedInvariant'
<1> USE DEF durable, stateVars, pollVars, backendVars, history, bounds
<1>0. accepted \subseteq Id /\ taken \subseteq Command /\ missed \subseteq Command
  BY DEF TypeOK
<1>1. CASE AcksSent
  <2>1. PICK batch \in Batches(AcksDue, AckBatch) :
           /\ accepted' = accepted \cup {id \in batch : ledger[id].token = lease[id]}
           /\ \E marked \in SUBSET batch : ledger' \in {ledger, AcksMarked(marked)}
    BY <1>1 DEF AcksSent
  <2>2. batch \subseteq AcksDue
    BY <2>1, BatchesArePart
  <2>3. \A id \in Id : KeepsRow(id)
    BY <2>1, <2>2, JournalsKeepRows
  <2>4. accepted' \subseteq accepted \cup AcksDue
    BY <2>1, <2>2
  <2>5. UNCHANGED <<pruned, resets>>
    BY <1>1 DEF AcksSent
  <2> QED
    BY <1>0, <2>3, <2>4, <2>5, KeptRowsStayAccounted
<1>2. CASE ResultsDelivered \/ \E failure \in Failure : ResultsFail(failure)
  <2>1. UNCHANGED <<accepted, pruned, resets>>
    BY <1>2 DEF ResultsDelivered, ResultsFail
  <2>2. \A id \in Id : KeepsRow(id)
    BY <1>2, DeliveriesKeepRows
  <2> QED
    BY <1>0, <2>1, <2>2, KeptRowsStayAccounted
<1>3. CASE \/ AcksNotSent \/ FetchFails \/ TakePendingCommands
           \/ \E offer \in SUBSET Id : FetchPendingCommands(offer)
           \/ \E cmd \in taken : LookUp(cmd)
           \/ \E cmd \in missed : Reserve(cmd)
           \/ AllReserved
           \/ \E id \in fresh, outcome \in Outcome : Execute(id, outcome)
           \/ AllExecuted
           \/ \E id \in Id : Record(id)
           \/ AllRecorded \/ TurnFails \/ NoResultsDue
  <2>1. UNCHANGED <<accepted, pruned, resets>>
    BY <1>3 DEF AcksNotSent, FetchFails, TakePendingCommands, FetchPendingCommands, LookUp,
            Reserve, AllReserved, Execute, AllExecuted, Record, AllRecorded, TurnFails,
            NoResultsDue
  <2>2. \/ UNCHANGED ledger
        \/ \E cmd \in taken : ledger' \in {ledger, Requeued(cmd)}
        \/ \E cmd \in missed : ledger' \in {ledger, Dispatched(cmd.id, cmd.token)}
        \/ \E id \in Id : ledger' \in {ledger, Settled(id, results[id])}
    BY <1>3 DEF AcksNotSent, FetchFails, TakePendingCommands, FetchPendingCommands, LookUp,
            Reserve, AllReserved, Execute, AllExecuted, Record, AllRecorded, TurnFails,
            NoResultsDue
  <2>3. \A cmd \in missed : cmd.id \in Id
    BY <1>0 DEF Command
  <2>4. \A id \in Id : KeepsRow(id)
    BY <1>0, <2>2, <2>3, JournalsKeepRows
  <2> QED
    BY <1>0, <2>1, <2>4, KeptRowsStayAccounted
<1> QED
  BY <1>1, <1>2, <1>3 DEF PollStep

LEMMA OthersAccount ==
    ASSUME TypeOK, AcceptedInvariant, [Next]_vars, ~PollStep
    PROVE  AcceptedInvariant'
<1> USE DEF durable, stateVars, pollVars, backendVars, history, bounds
<1>0. accepted \subseteq Id /\ op \in [Handler -> Request] /\ resets \in Nat
  BY DEF TypeOK
<1>1. CASE \E h \in Handler :
              \/ HandlerStep(h)
              \/ \E id \in Id : OperateRequest(h, id) \/ OperateUnavailable(h, id)
  <2>1. PICK h \in Handler :
              \/ HandlerStep(h)
              \/ \E id \in Id : OperateRequest(h, id) \/ OperateUnavailable(h, id)
    BY <1>1
  <2>2. /\ UNCHANGED <<accepted, pruned, resets>>
        /\ \/ UNCHANGED ledger
           \/ \E id \in Id : ledger' = Dispatched(id, NoToken)
           \/ op[h].pc = "recording" /\ ledger' = Settled(op[h].id, op[h].result)
    <3>1. CASE (\E outcome \in Outcome : OperateDevice(h, outcome)) \/ OperateDuplicate(h)
      BY <3>1 DEF OperateDevice, OperateDuplicate
    <3>2. CASE OperateReply(h)
      BY <3>2 DEF OperateReply
    <3>3. CASE \E id \in Id : OperateRequest(h, id) \/ OperateUnavailable(h, id)
      BY <3>3 DEF OperateRequest, OperateUnavailable
    <3> QED
      BY <2>1, <3>1, <3>2, <3>3 DEF HandlerStep
  <2>4. op[h].pc = "recording" => op[h].id \in Id
    BY <1>0 DEF Request, RequestFields
  <2>5. \A id \in Id : KeepsRow(id)
    BY <2>2, <2>4, JournalsKeepRows
  <2> QED
    BY <1>0, <2>2, <2>5, KeptRowsStayAccounted
<1>2. CASE \/ \E offer \in SUBSET Id : ConfigUpdate(offer)
           \/ Crash \/ UNCHANGED vars
           \/ \E id \in Id : Expire(id) \/ (\E token \in Token : ReLease(id, token))
  <2>1. UNCHANGED <<ledger, accepted, pruned, resets>>
    BY <1>2 DEF ConfigUpdate, Crash, Expire, ReLease, vars
  <2> QED
    BY <1>0, <2>1, JournalsKeepRows, KeptRowsStayAccounted
<1>3. CASE Boot
  <2>1. \A id \in Id : KeepsRow(id)
    BY <1>3, StatementsKeepRows DEF Boot, KeepsRow, AcceptedInvariant, TypeOK
  <2>2. UNCHANGED <<accepted, pruned, resets>>
    BY <1>3 DEF Boot
  <2> QED
    BY <1>0, <2>1, <2>2, KeptRowsStayAccounted
<1>4. CASE BootQuarantined
  <2>1. resets' > 0
    BY <1>0, <1>4 DEF BootQuarantined
  <2>2. \A id \in Id : ledger'[id] = EmptyRow
    BY <1>4 DEF BootQuarantined
  <2> QED
    BY <2>1, <2>2 DEF AcceptedInvariant, Accounted
<1>5. CASE \E old \in SUBSET Id : PruneLedger(old)
  <2>1. PICK old \in SUBSET Id : PruneLedger(old)
    BY <1>5
  <2>2. /\ \A id \in old : ledger'[id] = EmptyRow /\ id \in pruned'
        /\ \A id \in Id \ old : ledger'[id] = ledger[id]
        /\ pruned \subseteq pruned' /\ UNCHANGED <<accepted, resets>>
    BY <2>1 DEF PruneLedger
  <2>3. \A id \in accepted' : Accounted(id)'
    BY <1>0, <2>2 DEF AcceptedInvariant, Accounted
  <2>4. \A id \in Id : ~Recorded(ledger'[id]) => ledger'[id] = EmptyRow
    BY <2>2 DEF AcceptedInvariant
  <2> QED
    BY <2>3, <2>4 DEF AcceptedInvariant
<1> QED
  BY <1>1, <1>2, <1>3, <1>4, <1>5 DEF Next

\* Without a fault nobody abandons a command.
NoFaultNoOrphan == faults = 0 => \A id \in Id : ~Orphan(id)

LEMMA NextAbandonsNone == IInv /\ NoFaultNoOrphan /\ [Next]_vars => NoFaultNoOrphan'
<1> SUFFICES ASSUME IInv, NoFaultNoOrphan, [Next]_vars, faults' = 0, NEW id \in Id
             PROVE  ~Orphan(id)'
  BY DEF NoFaultNoOrphan
<1>1. faults' >= faults
  <2>1. ASSUME PollStep PROVE faults' = faults \/ JournalRaises
    BY <2>1 DEF PollStep, AcksNotSent, AcksSent, FetchFails, FetchPendingCommands,
           TakePendingCommands, LookUp, Reserve, AllReserved, Execute, AllExecuted, Record,
           AllRecorded, TurnFails, NoResultsDue, ResultsDelivered, ResultsFail, bounds
  <2>2. ASSUME NEW h \in Handler,
               HandlerStep(h) \/ (\E other \in Id :
                                     OperateRequest(h, other) \/ OperateUnavailable(h, other))
        PROVE  faults' = faults \/ JournalRaises
    <3>1. CASE (\E outcome \in Outcome : OperateDevice(h, outcome)) \/ OperateDuplicate(h)
      BY <3>1 DEF OperateDevice, OperateDuplicate, bounds
    <3>2. CASE OperateReply(h)
      BY <3>2 DEF OperateReply, bounds
    <3>3. CASE \E other \in Id : OperateRequest(h, other) \/ OperateUnavailable(h, other)
      BY <3>3 DEF OperateRequest, OperateUnavailable, bounds
    <3> QED
      BY <2>2, <3>1, <3>2, <3>3 DEF HandlerStep
  <2>3. ASSUME \/ \E offer \in SUBSET Id : ConfigUpdate(offer)
               \/ Crash \/ Boot \/ BootQuarantined
               \/ \E old \in SUBSET Id : PruneLedger(old)
               \/ \E other \in Id : Expire(other) \/ (\E token \in Token : ReLease(other, token))
               \/ UNCHANGED vars
        PROVE  faults' = faults
    BY <2>3 DEF ConfigUpdate, Crash, Boot, BootQuarantined, PruneLedger, Expire, ReLease,
           vars, bounds
  <2>4. faults' = faults \/ JournalRaises
    BY <2>1, <2>2, <2>3 DEF Next
  <2> QED
    BY <2>4 DEF JournalRaises, IInv, TypeOK
<1>2. faults = 0 /\ ~(faults' > faults)
  BY <1>1 DEF IInv, TypeOK
<1>3. ~Orphan(id)
  BY <1>2 DEF NoFaultNoOrphan
<1>4. OrphanSteps(id)
  BY NextOrphans
<1> QED
  BY <1>2, <1>3, <1>4 DEF OrphanSteps

\* What became of a command: it has a result, or somebody is about to give it
\* one - its owner, or the next start of a process that died or was let down by
\* its journal.
HandedOver(id) ==
    \/ ledger[id].state = "completed"
    \/ ledger[id].state = "dispatching" /\ (Owned(id) \/ ~up \/ faults > 0)

AcceptedIsNotDropped ==
    \A id \in accepted : id \in pruned \/ resets > 0 \/ HandedOver(id)

\* A command whose delivery the backend counts as accepted, and will therefore
\* not offer again, is never dropped: from then on it has a result, or an owner
\* that will write one, or waits for the recovery at the next start. Only the
\* pruning of a settled row and the loss of the journal end this, so the ACK may
\* well be sent before the command is executed (main._run_command_poll).
THEOREM AcceptedCommandsAreKept == Spec => []AcceptedIsNotDropped
<1> DEFINE Inv == IInv /\ AcceptedInvariant /\ NoFaultNoOrphan
<1>1. Init => Inv
  <2> SUFFICES ASSUME Init PROVE AcceptedInvariant /\ NoFaultNoOrphan
    BY InitInvariant
  <2>1. AcceptedInvariant
    BY DEF Init, AcceptedInvariant
  <2>2. NoFaultNoOrphan
    BY DEF Init, NoFaultNoOrphan, Orphan, EmptyRow
  <2> QED
    BY <2>1, <2>2
<1>2. Inv /\ [Next]_vars => Inv'
  BY NextInvariant, NextAbandonsNone, PollAccounts, OthersAccount DEF IInv
<1>3. Inv => AcceptedIsNotDropped
  <2> SUFFICES ASSUME Inv, NEW id \in accepted, id \notin pruned, ~(resets > 0)
               PROVE  HandedOver(id)
    BY DEF AcceptedIsNotDropped
  <2>1. id \in Id /\ Recorded(ledger[id]) /\ faults \in Nat
    BY DEF AcceptedInvariant, Accounted, IInv, TypeOK
  <2>2. ledger[id].state \in {"dispatching", "completed"}
    BY <2>1 DEF IInv, TypeOK, Row, Columns, Recorded
  <2>3. CASE faults = 0
    BY <2>1, <2>2, <2>3 DEF NoFaultNoOrphan, Orphan, HandedOver
  <2>4. CASE faults > 0
    BY <2>2, <2>4 DEF HandedOver
  <2> QED
    BY <2>1, <2>3, <2>4
<1> QED
  BY <1>1, <1>2, <1>3, PTL DEF Spec

=============================================================================
