------------------------- MODULE MCCommandLiveness -------------------------
(***************************************************************************)
(* The instance of CommandDelivery for liveness.                           *)
(***************************************************************************)
EXTENDS CommandDelivery

(***************************************************************************)
(* The liveness run starts in one of two small worlds.  In the first there *)
(* is one command, with everything that can happen to it but a new lease:  *)
(* the other one is never leased and nobody asks for it.  In the second    *)
(* there are two, which wait for the same batches: the lease of one moves  *)
(* on, and either they survive a restart together or their results are     *)
(* refused again and again.  What is left out there (/operate, age, results*)
(* other than ok, refusals with a restart) is in the first.                *)
(***************************************************************************)
CONSTANTS c1, c2, t1

Alone == lease[c1] = NoToken

StaysAlone ==
    /\ c1 \notin seen' \cup expired'
    /\ \A h \in Handler : op'[h].id # c1

StaysPlain ==
    /\ UNCHANGED <<op, expired>>
    /\ \A id \in Id : results'[id] \in {"none", "ok"}
    /\ (\E id \in Id : ledger'[id].failures > 0) => crashes' = 0

WorldsInit == Init /\ lease[c2] = t1 /\ lease[c1] \in {t1, NoToken}

WorldsNext ==
    \/ \E token \in Token : ReLease(c1, token)
    \/ Next /\ UNCHANGED lease /\ IF Alone THEN StaysAlone ELSE StaysPlain

\* Fairness asks for nothing a world leaves out: each fair action that is enabled
\* has an instance that stays in it.
WorldsSpec == WorldsInit /\ [][WorldsNext]_vars /\ Fairness

=============================================================================
