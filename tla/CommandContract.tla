-------------------------- MODULE CommandContract --------------------------
(***************************************************************************)
(* What the command plane promises for every command id, without journal,  *)
(* threads, network or restarts:                                           *)
(*                                                                         *)
(*     absent -> accepted -> settled -> closed (-> absent, forgotten)      *)
(*                                                                         *)
(* A command is driven while it is accepted, at most once, and never again *)
(* after it was forgotten; what it is settled with is true of the device   *)
(* and does not change.                                                    *)
(***************************************************************************)
CONSTANT Id

VARIABLES phase,    \* Id -> where the command stands
          truth,    \* Id -> what the device made of it
          answer,   \* Id -> what it was settled with
          forgotten \* ids closed so long ago that they were dropped

vars == <<phase, truth, answer, forgotten>>

Init ==
    /\ phase = [id \in Id |-> "absent"]
    /\ truth = [id \in Id |-> "none"]
    /\ answer = [id \in Id |-> "none"]
    /\ forgotten = {}

Accept(id) ==
    /\ phase[id] = "absent"
    /\ phase' = [phase EXCEPT ![id] = "accepted"]
    /\ UNCHANGED <<truth, answer, forgotten>>

Drive(id, verdict) ==
    /\ phase[id] = "accepted"
    /\ truth[id] = "none"
    /\ id \notin forgotten
    /\ truth' = [truth EXCEPT ![id] = verdict]
    /\ UNCHANGED <<phase, answer, forgotten>>

\* A driven command is answered by what the device made of it, one that was
\* not is rejected; either may have to be reported as unknown.
Answers(id) ==
    {"unknown"} \cup (IF id \in forgotten \/ truth[id] = "none"
                        THEN {"rejected"}
                        ELSE {truth[id]})

\* Several commands are settled, closed or forgotten together: at start-up,
\* by one POST, by one DELETE.
Settle(ids) ==
    /\ \A id \in ids : phase[id] = "accepted"
    /\ phase' = [id \in Id |-> IF id \in ids THEN "settled" ELSE phase[id]]
    /\ \A id \in Id : IF id \in ids THEN answer'[id] \in Answers(id)
                                    ELSE answer'[id] = answer[id]
    /\ UNCHANGED <<truth, forgotten>>

Close(ids) ==
    /\ \A id \in ids : phase[id] = "settled"
    /\ phase' = [id \in Id |-> IF id \in ids THEN "closed" ELSE phase[id]]
    /\ UNCHANGED <<truth, answer, forgotten>>

Forget(ids) ==
    /\ \A id \in ids : phase[id] = "closed"
    /\ phase' = [id \in Id |-> IF id \in ids THEN "absent" ELSE phase[id]]
    /\ answer' = [id \in Id |-> IF id \in ids THEN "none" ELSE answer[id]]
    /\ forgotten' = forgotten \cup ids
    /\ UNCHANGED truth

\* The journal is lost, and with it every promise made so far.
Reset ==
    /\ phase' = [id \in Id |-> "absent"]
    /\ truth' = [id \in Id |-> "none"]
    /\ answer' = [id \in Id |-> "none"]
    /\ forgotten' = {}

Next ==
    \/ \E id \in Id : Accept(id) \/ (\E verdict \in {"ok", "failed"} : Drive(id, verdict))
    \/ \E ids \in SUBSET Id : Settle(ids) \/ Close(ids) \/ Forget(ids)
    \/ Reset

Spec == Init /\ [][Next]_vars

=============================================================================
