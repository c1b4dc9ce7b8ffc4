--------------------------- MODULE CommandLedger ---------------------------
(***************************************************************************)
(* One row of the command journal (messaging/command_ledger.py, an SQLite  *)
(* file opened with synchronous=FULL) and what each of its statements does *)
(* to a row.  A statement is atomic and durable when it returns.  An id    *)
(* without a row is represented by EmptyRow, whose state is "absent".      *)
(***************************************************************************)
EXTENDS Naturals

CONSTANTS
    Token,          \* opaque delivery tokens the backend hands out with a lease
    NoToken,        \* a command without delivery metadata (old backend, /operate)
    MaxPermanentFailures  \* _COMMAND_RESULT_MAX_PERMANENT_FAILURES

ASSUME LedgerAssumption ==
    /\ NoToken \notin Token
    /\ MaxPermanentFailures \in Nat \ {0}

(***************************************************************************)
(* The result of a command, reduced to what can be said about the device:  *)
(* "rejected" no CROB was sent; "ok" the device accepted the CROB;         *)
(* "failed" a CROB was sent and refused or not confirmed; "unknown" the    *)
(* process died before it could write the result.                          *)
(***************************************************************************)
Outcome == {"rejected", "ok", "failed"}
Result == Outcome \cup {"unknown"}

Columns == [state    : {"absent", "dispatching", "completed"},
            token    : Token \cup {NoToken},
            ack      : {"none", "pending", "acked"},
            result   : Result \cup {"none"},
            delivery : {"pending", "delivered", "dead_letter"},
            failures : Nat]

\* A row holds a result exactly when it is completed.
Row == {row \in Columns : row.state = "completed" <=> row.result # "none"}

EmptyRow == [state |-> "absent", token |-> NoToken, ack |-> "none",
             result |-> "none", delivery |-> "pending", failures |-> 0]

Recorded(row) == row.state # "absent"

AckDue(row) == row.ack = "pending"

ResultDue(row) == row.state = "completed" /\ row.delivery = "pending"

-----------------------------------------------------------------------------

\* INSERT OR IGNORE: only an absent row is written; the first token stays.
StartDispatch(row, token) ==
    IF Recorded(row)
      THEN row
      ELSE [EmptyRow EXCEPT !.state = "dispatching",
                            !.token = token,
                            !.ack = IF token = NoToken THEN "none" ELSE "pending"]

\* Queues the ACK of a row that has a token again, an acked one included.
AckYenidenKuyrukla(row) ==
    IF row.token = NoToken THEN row ELSE [row EXCEPT !.ack = "pending"]

MarkAckDelivered(row) == [row EXCEPT !.ack = "acked"]

\* An UPDATE: an id without a row is not written.
RecordResult(row, result) ==
    IF Recorded(row)
      THEN [row EXCEPT !.state = "completed",
                       !.result = result,
                       !.delivery = "pending"]
      ELSE row

MarkDelivered(row) == [row EXCEPT !.delivery = "delivered"]

\* A mistake: the count misses its row, and the threshold is never reached.
BumpDeliveryFailureMissed(row) == row

BumpDeliveryFailure(row) == [row EXCEPT !.failures = @ + 1]

MarkDeliveryDeadLetter(row) == [row EXCEPT !.delivery = "dead_letter"]

\* Mistakes of the recovery: forgetting the row, so that the command can be tried
\* again; calling it rejected.
RecoverByForgetting(row) ==
    IF row.state = "dispatching" THEN EmptyRow ELSE row

RecoverAsRejected(row) ==
    IF row.state = "dispatching" THEN RecordResult(row, "rejected") ELSE row

\* At start-up: what the previous process left in dispatching is unknown.
RecoverUnknownResult(row) ==
    IF row.state = "dispatching" THEN RecordResult(row, "unknown") ELSE row

\* A mistake: a row is old enough whether or not its result was delivered.
PrunableUndelivered(row) == row.state = "completed"

Prunable(row) == row.state = "completed" /\ row.delivery = "delivered"

=============================================================================
