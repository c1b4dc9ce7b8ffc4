---------------------------- MODULE SessionStore ----------------------------
(***************************************************************************)
(* The record of one device in the session state store: the copy in        *)
(* memory, the file, and the mark that the file is behind (_kirli).        *)
(* A write is a temporary file that replaces the old one, or nothing.      *)
(***************************************************************************)
VARIABLES
    memory,     \* _kayitlar[device], or NoRecord
    file,       \* the record in the file, or NoRecord
    dirty       \* _kirli

storeVars == <<memory, file, dirty>>

\* The mode in a record: unknown, smart or boost; whether the device was asleep.
NoRecord == [mode |-> "unknown", asleep |-> FALSE, there |-> FALSE]
RecordOf(mode, asleep) == [mode |-> mode, asleep |-> asleep, there |-> TRUE]
Records == [mode: {"unknown", "smart", "boost"}, asleep: BOOLEAN, there: BOOLEAN]

StoreTypeOK == memory \in Records /\ file \in Records /\ dirty \in BOOLEAN

\* What flush did: nothing (not dirty, or written a moment ago), a write, a
\* write that failed.
FlushOutcomes(record, mark) == {"nothing"} \cup IF mark THEN {"written", "failed"} ELSE {}

\* A mistake: the mark stays cleared although the write failed.
FlushOnce(record, mark, outcome) ==
    /\ memory' = record
    /\ file' = IF outcome = "written" THEN record ELSE file
    /\ dirty' = (mark /\ outcome = "nothing")

\* flush: a write that fails sets the mark again.
Flush(record, mark, outcome) ==
    /\ memory' = record
    /\ file' = IF outcome = "written" THEN record ELSE file
    /\ dirty' = (mark /\ outcome # "written")

\* A new process loads what the file holds.
Load(record) ==
    /\ memory' = record
    /\ file' = record
    /\ dirty' = FALSE

=============================================================================
