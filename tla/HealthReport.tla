---------------------------- MODULE HealthReport ----------------------------
(***************************************************************************)
(* The device health channel: how the backend's table of device states     *)
(* follows the gateway's.                                                  *)
(*                                                                         *)
(* Actors:                                                                 *)
(*   - the publisher thread (DeviceHealthPublisher._tur): reads the health *)
(*     of all devices, decides between a delta and a snapshot, posts it in *)
(*     batches and remembers what it posted;                               *)
(*   - the config thread, which takes a new device set and then asks for a *)
(*     snapshot (main._run_config_refresh);                                *)
(*   - the main loop, whose cycle closes the masters of removed devices    *)
(*     and whose polls create those of new ones;                           *)
(*   - the IO threads, which change the state of a device;                 *)
(*   - the backend (external): keeps the newest (boot_id, sequence), drops *)
(*     what is not newer, and removes devices when a snapshot is whole     *)
(*     (docs/GRID_DEVICE_HEALTH_API.md, section 6).                        *)
(*                                                                         *)
(* A POST may be refused, be taken and answered, be taken with its answer  *)
(* lost, or time out and reach the backend later.  The value of a device   *)
(* is its semantic signature: what else a record carries triggers nothing. *)
(***************************************************************************)
EXTENDS Integers, FiniteSets

CONSTANTS
    Device,         \* device codes
    Value,          \* semantic signatures of a device
    None,           \* no value
    BatchMax,       \* device_health_batch_max
    MaxChanges,     \* bound on changes of states and device sets (model only)
    MaxIntervals,   \* bound on snapshot intervals that pass (model only)
    MaxFailures,    \* bound on POSTs that fail (model only)
    MaxCrashes,     \* bound on process deaths (model only)
    MaxBootFaults   \* bound on boot id files that cannot be written (model only)

ASSUME HealthAssumption ==
    /\ IsFiniteSet(Device) /\ None \notin Value /\ Value # {}
    /\ BatchMax \in Nat \ {0}
    /\ {MaxChanges, MaxIntervals, MaxFailures, MaxCrashes, MaxBootFaults} \subseteq Nat

VARIABLES
    \* the gateway's devices
    config,         \* GatewayState._devices
    known,          \* devices the adapter has a master (or a listener error) for
    health,         \* Device -> the signature of its state
    cpc,            \* next step of the config thread
    \* the publisher
    phase,          \* next step of _tur
    needed,         \* _snapshot_gerekli
    ever,           \* _son_snapshot_at is set
    told,           \* _gonderilen: Device -> the signature last posted
    sequence,       \* _sequence
    snapshots,      \* _snapshot_sayaci
    boot,           \* boot_id of this process
    bootFile,       \* the counter on disk
    tour,           \* what _tur has read and decided
    \* the world
    late,           \* POSTs that timed out and may still arrive
    newest,         \* the backend's newest <<boot_id, sequence>>
    table,          \* the backend's Device -> signature
    partial,        \* the snapshot the backend is assembling
    \* history
    result,         \* how the last round ended
    fresh,          \* nothing changed since the last read
    doubt,          \* a POST failed since the last snapshot and may have been taken
    anchored,       \* every boot id so far is larger than those before
    changes, intervals, failures, crashes, bootFaults

deviceVars    == <<config, known, health, cpc>>
publisherVars == <<phase, needed, ever, told, sequence, snapshots, boot, tour>>
backendVars   == <<newest, table, partial>>
boundVars     == <<changes, intervals, failures, crashes, bootFaults>>
vars == <<deviceVars, publisherVars, bootFile, late, backendVars,
          result, fresh, doubt, anchored, boundVars>>

-----------------------------------------------------------------------------
NoSnapshot == <<0, 0>>

NoTour == [read |-> [d \in Device |-> None], snapshot |-> FALSE,
           left |-> {}, index |-> 0, count |-> 0]

NoPartial == [id |-> NoSnapshot, got |-> {}, devices |-> {}]

\* The devices a read or a table has an entry for.
Held(f) == {d \in Device : f[d] # None}

\* How many batches n records make.
Batches(n) == (n + BatchMax - 1) \div BatchMax

\* A mistake: a delta too carries the id and the count of a snapshot.
AllNumbered(chunk) ==
    [boot |-> boot, seq |-> sequence + 1, id |-> <<boot, snapshots>>,
     index |-> tour.index, count |-> tour.count,
     devices |-> [d \in chunk |-> tour.read[d]],
     from |-> Held(tour.read)]

\* One POST: build_envelope; `from` is the whole device set of the round.
Envelope(chunk) ==
    [boot |-> boot, seq |-> sequence + 1,
     id |-> IF tour.snapshot THEN <<boot, snapshots>> ELSE NoSnapshot,
     index |-> tour.index, count |-> tour.count,
     devices |-> [d \in chunk |-> tour.read[d]],
     from |-> Held(tour.read)]

Init ==
    /\ config = Device /\ known = {} /\ cpc = "idle"
    /\ \E v \in Value : health = [d \in Device |-> v]
    /\ phase = "idle" /\ needed = TRUE /\ ever = FALSE
    /\ told = [d \in Device |-> None]
    /\ sequence = 0 /\ snapshots = 0 /\ boot = 1 /\ bootFile = 1
    /\ tour = NoTour
    /\ late = {} /\ newest = <<0, 0>> /\ table = [d \in Device |-> None]
    /\ partial = NoPartial
    /\ result = "none" /\ fresh = FALSE /\ doubt = FALSE /\ anchored = TRUE
    /\ changes = 0 /\ intervals = 0 /\ failures = 0 /\ crashes = 0 /\ bootFaults = 0

-----------------------------------------------------------------------------
\* The backend takes envelope m unless it is stale, as the interface document
\* asks: the newest pair wins, a snapshot is merged by its id, another id drops
\* the unfinished one, and devices go only when all batches are there.
Newer(p, q) == p[1] > q[1] \/ (p[1] = q[1] /\ p[2] > q[2])

Merged(m) ==
    LET old == IF partial.id = m.id THEN partial ELSE NoPartial
    IN [id |-> m.id, got |-> old.got \cup {m.index},
        devices |-> old.devices \cup DOMAIN m.devices]

Whole(m) == m.id # NoSnapshot /\ Cardinality(Merged(m).got) = m.count

Accept(m) ==
    IF Newer(<<m.boot, m.seq>>, newest)
    THEN /\ newest' = <<m.boot, m.seq>>
         /\ table' = [d \in Device |->
                        IF d \in DOMAIN m.devices THEN m.devices[d]
                        ELSE IF Whole(m) /\ d \notin Merged(m).devices THEN None
                        ELSE table[d]]
         /\ partial' = IF m.id = NoSnapshot THEN partial
                       ELSE IF Whole(m) THEN NoPartial ELSE Merged(m)
    ELSE UNCHANGED backendVars

-----------------------------------------------------------------------------
\* _tur: health_source().
ReadSource ==
    /\ phase = "idle" /\ phase' = "decide"
    /\ tour' = [NoTour EXCEPT !.read = [d \in Device |->
                                          IF d \in known THEN health[d] ELSE None]]
    /\ fresh' = TRUE
    /\ UNCHANGED <<deviceVars, needed, ever, told, sequence, snapshots,
                   boot, bootFile, late, backendVars, result, doubt, anchored,
                   boundVars>>

\* The devices a round posts: all of them in a snapshot, else those whose
\* signature is not the one posted last.
Records(snap) == {d \in Held(tour.read) : snap \/ told[d] # tour.read[d]}

\* _tur: is a snapshot due, and what is to be sent; nothing to send ends the
\* round, and a snapshot of no device is not sent.  due: snapshot_interval_sec
\* has passed since the last snapshot.
Decide(due) ==
    LET snap == needed \/ ~ever \/ due
        n    == Cardinality(Records(snap))
    IN /\ phase = "decide"
       /\ IF due THEN ~needed /\ ever /\ intervals < MaxIntervals /\ intervals' = intervals + 1
          ELSE UNCHANGED intervals
       /\ IF n = 0
          THEN /\ phase' = "idle" /\ told' = tour.read /\ result' = "nothing"
               /\ tour' = NoTour /\ UNCHANGED snapshots
          ELSE /\ phase' = "send"
               /\ tour' = [tour EXCEPT !.snapshot = snap, !.left = Records(snap),
                                       !.count = Batches(n)]
               /\ snapshots' = IF snap THEN snapshots + 1 ELSE snapshots
               /\ UNCHANGED <<told, result>>
       /\ UNCHANGED <<deviceVars, needed, ever, sequence, boot, bootFile,
                      late, backendVars, fresh, doubt, anchored, changes,
                      failures, crashes, bootFaults>>

\* The next batch of the round, in the order of the records.
Chunks == {c \in SUBSET tour.left :
             Cardinality(c) = IF Cardinality(tour.left) < BatchMax
                              THEN Cardinality(tour.left) ELSE BatchMax}

\* A batch is taken and answered with 2xx: its devices count as told.
SendTaken(chunk) ==
    /\ phase = "send" /\ tour.left # {}
    /\ sequence' = sequence + 1
    /\ Accept(Envelope(chunk))
    /\ told' = [d \in Device |-> IF d \in chunk THEN tour.read[d] ELSE told[d]]
    /\ tour' = [tour EXCEPT !.left = @ \ chunk, !.index = @ + 1]
    /\ UNCHANGED <<deviceVars, phase, needed, ever, snapshots, boot,
                   bootFile, late, result, fresh, doubt, anchored, boundVars>>

\* A mistake: a batch counts as told before its answer is known.
ToldTooEarly(chunk) ==
    /\ phase = "send" /\ tour.left # {} /\ failures < MaxFailures
    /\ failures' = failures + 1
    /\ sequence' = sequence + 1
    /\ phase' = "idle" /\ result' = "failed" /\ tour' = NoTour
    /\ told' = [d \in Device |-> IF d \in chunk THEN tour.read[d] ELSE told[d]]
    /\ UNCHANGED <<deviceVars, needed, ever, snapshots, boot, bootFile,
                   late, backendVars, doubt, fresh, anchored, changes,
                   intervals, crashes, bootFaults>>

\* A POST raises and the round ends: the rest is tried in a later round.
\* The backend took nothing of it, took it, or will get it later.
SendFails(chunk) ==
    /\ phase = "send" /\ tour.left # {}
    /\ failures < MaxFailures
    /\ failures' = failures + 1
    /\ sequence' = sequence + 1
    /\ phase' = "idle" /\ result' = "failed" /\ tour' = NoTour
    /\ \/ UNCHANGED <<backendVars, late, doubt>>
       \/ Accept(Envelope(chunk)) /\ doubt' = TRUE /\ UNCHANGED late
       \/ late' = late \cup {Envelope(chunk)} /\ doubt' = TRUE /\ UNCHANGED backendVars
    /\ UNCHANGED <<deviceVars, needed, ever, told, snapshots, boot,
                   bootFile, fresh, anchored, changes, intervals,
                   crashes, bootFaults>>

\* All batches were taken.
Finish ==
    /\ phase = "send" /\ tour.left = {}
    /\ phase' = "idle" /\ tour' = NoTour
    /\ told' = tour.read
    /\ IF tour.snapshot
       THEN /\ needed' = FALSE /\ ever' = TRUE
            /\ result' = "snapshot" /\ doubt' = FALSE
       ELSE /\ result' = "delta"
            /\ UNCHANGED <<needed, ever, doubt>>
    /\ UNCHANGED <<deviceVars, sequence, snapshots, boot, bootFile, late,
                   backendVars, fresh, anchored, boundVars>>

-----------------------------------------------------------------------------
\* A callback or a poll changes the state of a device.
StateChanges(d, v) ==
    /\ changes < MaxChanges /\ changes' = changes + 1
    /\ d \in known /\ v # health[d]
    /\ health' = [health EXCEPT ![d] = v]
    /\ fresh' = FALSE
    /\ UNCHANGED <<config, known, cpc, publisherVars, bootFile, late, backendVars,
                   result, doubt, anchored, intervals, failures, crashes,
                   bootFaults>>

\* state.update takes another device set.
Reconfigure(S) ==
    /\ changes < MaxChanges /\ changes' = changes + 1
    /\ cpc = "idle" /\ cpc' = "request"
    /\ S # config /\ config' = S
    /\ UNCHANGED <<known, health, publisherVars, bootFile, late, backendVars,
                   result, fresh, doubt, anchored, intervals, failures, crashes,
                   bootFaults>>

\* device_health_publisher.request_snapshot().
RequestSnapshot ==
    /\ cpc = "request" /\ cpc' = "idle"
    /\ needed' = TRUE
    /\ UNCHANGED <<config, known, health, phase, ever, told, sequence,
                   snapshots, boot, tour, bootFile, late, backendVars,
                   result, fresh, doubt, anchored, boundVars>>

\* The cycle closes the masters of devices that are not configured.
ForgetDevices ==
    /\ known \ config # {} /\ known' = known \cap config
    /\ fresh' = FALSE
    /\ UNCHANGED <<config, health, cpc, publisherVars, bootFile, late, backendVars,
                   result, doubt, anchored, boundVars>>

\* The first poll of a device creates its master.
Discover(d) ==
    /\ d \in config \ known /\ known' = known \cup {d}
    /\ fresh' = FALSE
    /\ UNCHANGED <<config, health, cpc, publisherVars, bootFile, late, backendVars,
                   result, doubt, anchored, boundVars>>

\* A POST that timed out reaches the backend.
LateArrives(m) ==
    /\ m \in late /\ late' = late \ {m}
    /\ Accept(m)
    /\ UNCHANGED <<deviceVars, publisherVars, bootFile, result, fresh, doubt,
                   anchored, boundVars>>

\* A mistake: the number of the last process is used again.
SameBoot(stored) == stored

\* next_boot_id: the counter is advanced on disk.
NextBoot(stored) == stored + 1

\* next_boot_id when the file cannot be read, which starts the counter anew, or
\* not be written, which leaves the old number for the next process.
BootFails(unread, unwritten) ==
    /\ bootFaults < MaxBootFaults /\ bootFaults' = bootFaults + 1
    /\ boot' = NextBoot(IF unread THEN 0 ELSE bootFile)
    /\ bootFile' = IF unwritten THEN bootFile ELSE boot'
    /\ anchored' = FALSE

\* The process dies and starts again: all but the boot counter is gone.
Restart ==
    /\ crashes < MaxCrashes /\ crashes' = crashes + 1
    /\ \/ boot' = NextBoot(bootFile) /\ bootFile' = boot' /\ UNCHANGED <<anchored, bootFaults>>
       \/ BootFails(TRUE, FALSE) \/ BootFails(FALSE, TRUE) \/ BootFails(TRUE, TRUE)
    /\ known' = {} /\ cpc' = "idle"
    /\ phase' = "idle" /\ needed' = TRUE /\ ever' = FALSE
    /\ told' = [d \in Device |-> None]
    /\ sequence' = 0 /\ snapshots' = 0 /\ tour' = NoTour
    /\ result' = "none" /\ fresh' = FALSE
    /\ UNCHANGED <<config, health, late, backendVars, doubt, changes, intervals, failures>>

Next ==
    \/ ReadSource \/ (\E due \in BOOLEAN : Decide(due)) \/ Finish
    \/ \E c \in Chunks : SendTaken(c) \/ SendFails(c)
    \/ \E d \in Device : Discover(d) \/ \E v \in Value : StateChanges(d, v)
    \/ \E S \in SUBSET Device : Reconfigure(S)
    \/ RequestSnapshot \/ ForgetDevices
    \/ \E m \in late : LateArrives(m)
    \/ Restart

Spec == Init /\ [][Next]_vars

\* The publisher thread runs and its timer expires, the config thread goes on,
\* the cycle closes the masters of removed devices.
Fairness ==
    /\ WF_vars(ReadSource) /\ WF_vars(Decide(FALSE)) /\ WF_vars(Finish)
    /\ WF_vars(\E c \in Chunks : SendTaken(c) \/ SendFails(c))
    /\ WF_vars(RequestSnapshot) /\ WF_vars(ForgetDevices)

FairSpec == Spec /\ Fairness

-----------------------------------------------------------------------------
Signature == Value \cup {None}

Tour == [read: [Device -> Signature], snapshot: BOOLEAN, left: SUBSET Device,
         index: Nat, count: Nat]

Assembly == [id: Nat \X Nat, got: SUBSET Nat, devices: SUBSET Device]

EnvelopeOK(m) ==
    /\ m.boot \in Nat /\ m.seq \in Nat /\ m.index \in Nat /\ m.count \in Nat
    /\ m.id \in Nat \X Nat
    /\ DOMAIN m.devices \subseteq m.from /\ m.from \subseteq Device
    /\ \A d \in DOMAIN m.devices : m.devices[d] \in Value

\* Types; a round posts only devices it has read.
TypeOK ==
    /\ config \subseteq Device /\ known \subseteq Device
    /\ health \in [Device -> Value] /\ cpc \in {"idle", "request"}
    /\ phase \in {"idle", "decide", "send"}
    /\ needed \in BOOLEAN /\ ever \in BOOLEAN /\ fresh \in BOOLEAN
    /\ doubt \in BOOLEAN /\ anchored \in BOOLEAN
    /\ told \in [Device -> Signature] /\ table \in [Device -> Signature]
    /\ {sequence, snapshots, boot, bootFile} \subseteq Nat
    /\ {changes, intervals, failures, crashes, bootFaults} \subseteq Nat
    /\ tour \in Tour /\ tour.left \subseteq Held(tour.read)
    /\ \A m \in late : EnvelopeOK(m)
    /\ newest \in Nat \X Nat
    /\ partial \in Assembly /\ IsFiniteSet(partial.got)
    /\ result \in {"none", "nothing", "delta", "snapshot", "failed"}

\* After a round that succeeded with nothing changed since its read, the backend
\* shows every device as it is: whatever failed, was taken unseen or came late
\* before a snapshot does not survive it, and a delta that was taken unseen may
\* only mislead until the next snapshot (_tur, next_boot_id).
CurrentAfterTour ==
    phase = "idle" /\ fresh /\ anchored =>
        /\ result = "snapshot" => \A d \in Device :
                table[d] = IF d \in known THEN health[d] ELSE None
        /\ result \in {"delta", "nothing"} /\ ~doubt =>
                \A d \in known : table[d] = health[d]

\* What the publisher believes to have told is what the backend has, unless an
\* answer was lost: otherwise a device would wait for the next snapshot
\* (_gonderilen).
ToldIsHeld ==
    anchored /\ ~doubt /\ phase # "send" =>
        \A d \in Device : told[d] # None => table[d] = told[d]

\* A device leaves the backend's table only through a snapshot whose read did
\* not find it: as long as boot ids grow, parts of two snapshots never make a
\* whole (docstring of build_envelope).
OnlyUnreadRemoved ==
    [][\A d \in Device : anchored /\ table[d] # None /\ table'[d] = None =>
          \/ tour.read[d] = None /\ phase = "send"
          \/ \E m \in late \ late' : d \notin m.from]_vars

\* When devices rest, no POST fails any more and no answer is open, the backend
\* comes to show every device as it is.
Converges ==
    <>[](~doubt /\ anchored => \A d \in known : table[d] = health[d])

=============================================================================
