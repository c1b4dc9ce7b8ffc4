# A TLA+ model of the DNP3 gateway

The gateway polls DNP3 outstations, publishes their readings to a broker (NATS
JetStream, or HTTP as a fallback) and executes breaker commands that a backend
or a local HTTP caller sends. This directory holds TLA+ modules of its core,
TLC configurations that check them on small instances, and TLAPS proofs about
them for every instance. Paths below are relative to `src/src/dnp3_gateway/`.

    tlc -workers 2 -config CommandCrash.cfg MCCommandDelivery.tla
    tlapm CommandDelivery_proofs.tla

`PROJECT.json` lists the components, the runs, for every property a mutation of
the code that breaks it, the source lines each definition stands for, the
hazards, the findings and the theorems.

## 1. Inventory

### Threads and what they share

The main thread runs poll cycles (`poller.run_poll_cycle`) over a pool of
workers, and periodic maintenance. Beside it run the command-poll thread
(`main._run_command_poll`), the retrier of the outbox, the configuration and
device-health threads, an HTTP server with a thread per request
(`health_server.py`), and the IO thread of OpenDNP3, whose callbacks write the
cache of each device. A process may die at any time and is started again by a
service manager; what survives are two SQLite files (the command journal and
the outbox), the cached configuration and the session store.

    outstation -> OpenDNP3 IO thread -> _DeviceCache -> poll worker -> broker
                                                          |   ^
                                            (failure)     v   |
                                                        outbox -> retrier -> broker
    backend -> /pending -> command thread -> journal -> operate_device -> outstation
    operator -> /operate -> HTTP thread  -> journal -/         |
                          results, ACKs <- journal <-----------/

### Components

| component | state | operations | hard part | correct when |
|---|---|---|---|---|
| Command journal (`messaging/command_ledger.py`) | one SQLite row per command: state, result, delivery, ACK, failures | start_dispatch, record_result, mark_*, recover, prune | crash between any two calls; COMMIT that raises | intent is durable before the command; a result is true and final |
| Command delivery (`main.py`, `state.py`) | pending queue, window of seen ids, the turn's commands and results | poll, reserve, execute, record, ACK, deliver results | lost answers, redelivery, restarts | a command drives the breaker at most once, its result reaches the backend |
| `/operate` (`health_server.py`) | the request being served | reserve, drive, record, reply, duplicates | races with the command thread and with itself | the caller is not told a success that did not happen |
| Backend client (`backend/config_client.py`) | ETag and configuration of the last answer | fetch, parse, pending poll, ACK, results | how an error is classified; the pair ETag/configuration | only what the backend accepted is marked so; a payload is adopted whole or not at all |
| Outbox (`messaging/outbox.py`) | rows, dead letters, an in-memory estimate, attempt times | enqueue, fetch, delete, mark_retry, dead-letter, prune | estimate and file diverge; partial failures | no row leaves undelivered |
| Resilient publisher (`messaging/resilient_publisher.py`) | breaker, `last_batch_outboxed` | publish_batch, publish_outbox_rows/row | partial delivery, full outbox, shared flag | a batch that counts as published is safe |
| Broker publishers (`http_publisher.py`, `jetstream_publisher.py`, `errors.py`) | NATS connection and its ready event, HTTP circuit breaker | publish one or many, callbacks, probe | which errors are temporary; the event loop against the publishing threads | an outage costs no message; the breaker closes again |
| Transport router (`messaging/transport_router.py`) | active transport, failures, probe and dwell times | publish, probe, switch | flapping, late failures of other threads | traffic moves only for a reason and comes back |
| Device cache and poll (`adapters/dnp3_yadnp3_master.py`) | values, change marks and versions, session state, recovery, comm_lost flag | IO callbacks; `_oku`; commit_published | an IO callback between any two calls of a poll | no change is lost; the state shown is the device's |
| Masters and sessions (same file) | master per device and its policy, the known mode, probes, relink times | build, drop, classify, ask, relink, restore | a poll that goes on with an old copy of the link; scans that can be added but not removed | a device runs under the policy of its mode, a sleeping modem is not woken |
| Session state store (`session_state_store.py`) | record per device, in memory and in a file | record, flush, load, forget | a write that is delayed or fails, then a stop | a sleeping device is asleep after a restart |
| Poll cycle (`poller.py`, `state.py`) | futures, pool, times of the last readings | order, submit, time out, mark_read | slow devices keep workers; what counts as read | every device is polled again; slow ones harm no other |
| Configuration (`config_client.py`, `state.py`, `main.py`) | configuration, versions, two nonces, wake event, cache file | fetch, update, persist, load, pending poll | news that arrive while a fetch or a wait is under way; stale cache | the latest configuration is adopted, a trigger is run |
| Device health (`device_health_publisher.py`, `device_health_wire.py`) | what was told, sequence, snapshot and boot counters | delta or snapshot in batches | lost and late POSTs, parts of two snapshots, a repeated boot id | the backend comes to show every device as it is |
| Health pages, signatures, HTTP session, identity, instance lock, settings, command parameters, logging | - | - | - | - |

The order of modelling was the order of importance: a breaker driven twice, a
command whose result is wrong, a lost reading, a dead device that looks alive;
then what these rest on: transport, configuration, sessions, scheduling, and
the picture the backend has of the devices.

## 2. Modules

| module | what it models |
|---|---|
| `CommandLedger` | the journal: every INSERT, UPDATE and DELETE as an operator on one row |
| `CommandDelivery` | the command thread, `/operate`, start-up recovery and maintenance over the journal |
| `CommandContract` | what the command plane promises for one id, without journal, threads or network |
| `TelemetryOutbox` | poll workers, resilient publisher, outbox, retrier, start and stop |
| `TelemetryContract` | what the telemetry plane promises for a message |
| `JetStreamLink` | the NATS connection: tasks and callbacks of its event loop, the ready event |
| `HttpBreaker` | the circuit breaker of the HTTP publisher |
| `TransportRouter` | composes the two: the way of a publication, by several threads |
| `DevicePublishing` | the cache of one device, its IO callbacks and the polls that read it |
| `SessionStore` | the record of a device in memory and on disk |
| `SessionPolicy` | over it: the master of a device and the policy it runs under |
| `PollScheduler` | which device is asked when, by which worker |
| `ConfigParse` | what the gateway makes of a configuration payload, as operators |
| `ConfigSync` | over it: how a configuration and the operator's triggers get in |
| `HealthReport` | the device health channel and the backend's table |
| `MC*` | instances of each plane for TLC |
| `*_proofs` | theorems (section 4) |

### Command plane

A *step* is one journal call (each holds the journal's lock and is one SQLite
transaction), one request, or the stretch of code between two of them.

* A turn of the command thread is `AcksNotSent/AcksSent`, `FetchFails/
  FetchPendingCommands`, `TakePendingCommands`, `LookUp` and `Reserve` for each
  command, `Execute` for each new one, `Record` for each result, the ACKs
  again, and `ResultsDelivered/ResultsFail/NoResultsDue`. `TurnFails` is the
  `except` around it: it drops the rest of the turn (`AbandonTurn`).
* A request to `/operate` is `OperateRequest` (start_dispatch included),
  `OperateUnavailable`, `OperateDuplicate`, `OperateDevice`, `OperateReply`.
* `Crash` keeps the journal only; `Boot` runs recover_unknown_results before
  any thread starts; `BootQuarantined` is a corrupt file replaced by an empty
  one, and starts the history variables anew. `PruneLedger` is retention.
* A journal call that raises may or may not have taken effect
  (`JournalRaises`): a failed COMMIT without rollback leaves its statement in
  the open transaction, to be committed with the next one. In the model that
  is the effect at once.
* The backend offers any command with any lease token at any time; the network
  may lose a request or its answer.

Taken for granted: commands carry `created_at` (required by default), so that
`Expire` is the age check; retention is longer than the maximum age of a
command; one process per gateway code (the instance lock). The outcome
`failed` is the gateway's view of a driven command and covers a timeout of the
outstation's answer. History variables count from the creation of the journal
in use.

### Telemetry plane

A message is an item of one batch (message ids are new per batch). A worker's
batch goes through `StartPoll`, `SendSucceeds/SendFails`, `NoteSent`,
`Judge/Close` (the breaker), `Enqueue/EnqueueFails` per item, `Trip`,
`EnqueuedAll`, `Commit`, `Count`; the lock regions of the code are the steps.
The retrier is `Fetch`, `BatchSent/BatchFails`, `RowSent/RowFailsForNow/
RowFails`, `BreakOff`, `RetrierJudges/RetrierCloses`, `DeleteSent`. A broker
call that fails may have taken any part of what it was given. `HttpPath` says
whose errors reach the classification: the HTTP publisher's (as the only
transport or through the router) or those of NATS alone.

Not modelled: `ResilientPublisher.publish` (a path for brokers without
`publish_batch`; both have it) and the optional secondary publisher.

### Device plane

`_DeviceCache` protects each method with its lock; `_oku` calls a dozen of
them, and so every call is an action and the IO thread's callbacks may come in
between. `pc[w]` names the next call of a poll, `saw` the two values it keeps
in locals, `taken` and `alarm` its readings with their tokens. Two polls of a
device overlap when one has exceeded its timeout: `Poller` has several members
then. Time appears as what it is compared to (`fresh`, `graceOver`, `silent`,
`deferral`). `policy` distinguishes a continuous device, a smart device that
opens the link itself (`initiating`) and one that is dialled (`listening`).
`Rebuild` replaces the master and with it the cache; it happens here only
while no poll reads the old cache.

Not modelled here: the automatic choice of the policy, the forced relink and the
session restored at start-up, which are `SessionPolicy`; the values of string
points (when a smart device is asked for them is `SessionPolicy` too).

### Transport

A thread's call is `StartCall`, then `Call(t)`: it reads the active transport
without the lock, is in flight without it, and takes it for each short section
of the router (`step[t]` names the next one). The NATS side acts in
`JetStreamLink`: the background task of the first connection, the three
callbacks and `close`, each one step of the event loop. The HTTP side is the
breaker's `Permit`, `Deny`, `SetReady`, `SetUnready`. A call carries a message
or a batch; `missing` says whether some of it was taken by no transport, `hurt`
that a fault met its request, so that only such calls fail without an answer.
Time is a `Tick` that counts `untilProbe`, `dwell` and `retryIn` down; no order
of ticks and calls is excluded. The telemetry plane sees of all this only what
a broker call may do; whose errors it classifies is its constant `HttpPath`.

### Sessions

`SessionPolicy` has one device. A poll is a sequence of stages (`pc`):
`Build/BuildFails/ReadLink` (`_ensure_master`, `is_connected`: the copy `saw` is
used by all later stages), the classification (`_auto_politikayi_coz`),
`ReadStrings/SkipStrings` (the G110 read of `_oku`, where the device has string
points, `texts`), `SkipSleep/CheckSleep` (`_smart_idle_denetle`), `Judge` (the state), `NotYet/
Probe/Defer/Relink` (`_kopuk_cihazi_yokla`) and `Record`
(`_cihaz_durumunu_kaydet`, on every way out). Callbacks, the clock and commands
come in between. A scan can be added to a master but not removed, so that a
change to sleep mode drops the master (`Drop`); where adding fails it does too
(`ScanOrDrop`). `RefreshAll` is the integrity poll an operator has every master
send. What a smart device is asked is counted per connection: `asks` are the
integrity polls, `refreshes` those of them that an operator wanted, `reads` the
reads of its strings in a poll. `Crash` loads the file, `Stop` writes it first; `Forget` is a
configuration without the device. The poll's publishing, and the interleaving
call by call, is `DevicePublishing`; the state machine of the link is there in
full and here as far as the policy asks for it.

### Scheduling

`BeginCycle` orders the due devices and either hands them to the pool
(`"loop"`) or asks them one by one (`"serial"`). `Start`, `PollEnds` and
`GivenUpEnds` are the workers', `DeviceTimeout`, `Collect`, `GiveUp`,
`LeaveLoop`, `Cancel` and `Settled` the main loop's. `given[d]` counts polls
that were given up and still hold a worker. Times are ranks: what matters is
their order and that a device never read has none; at the start of a cycle they
are numbered anew. Abstractions: a free worker takes a queued poll before the
cycle times out; the moment between a poll taken and its start written
(`baslama`) is not a state; a poll that starts while a cycle is settled is one
of the bounded events.

### Configuration

The configuration thread is `Answer/Refused/NotParsed`, `Update`, `Persist`,
then `Woken/IntervalPasses`, `ClearWake`, or `BackoffEnds`. The nonce part of
the command poll is `Poll`, `ApplyPoll`, `TakeConfigRequest`; the main loop's
part is `ReadAll`. `Restart` starts from the cache file: from the devices as
the parser left them in the process that wrote it, without another look at
them, while the operator may have changed the allowed subnets (`subnets`; a
configuration says in `under` by which it was parsed). A smart device reads
nothing when its session starts anew, so that a trigger whose counter is in the
cache and that was not run is run by nobody (`lost`). The version is a hash
of the payload; whether it covers the counters is nowhere said, and the model
has both (`hashed`). `ConfigParse` says which devices of a payload are kept,
when the payload is refused, and with whose signals a device is read; texts are
reduced to what the parser tells apart.

### Device health

A round of the publisher is `ReadSource`, `Decide`, `SendTaken/SendFails` per
batch, `Finish`. A POST may be refused, taken, taken with its answer lost, or
arrive late (`LateArrives`). The configuration thread replaces the device set
(`Reconfigure`, `RequestSnapshot`) and the main loop closes the masters of
removed devices later (`ForgetDevices`); the new ones are `Discover`ed by their
first poll. The backend is external: it keeps the newest (boot id, sequence)
and assembles snapshots as docs/GRID_DEVICE_HEALTH_API.md section 6 describes.
The value of a device is its semantic signature. `Restart` counts the boot id on;
`BootFails` is a counter file that cannot be read or written.

## 3. Runs

| run | instance | what it shows |
|---|---|---|
| `CommandCrash` | 1 command, 2 HTTP threads, old backend, 1 process death, 1 raising journal call, 1 quarantined journal | the safety of the command plane, and that it implements `CommandContract` |
| `CommandLiveness` | batches of 1, 1 process death; either 2 commands that wait for the same batches (a lease that moves on, with a restart or with refused results), or 1 with an HTTP thread, its age and any result | every reserved command settles, every result and every ACK leaves, behind others too |
| `CommandDeadLetter` | as needed | finding: three network failures bury a result |
| `OutboxCrash` | 2 messages, 2 workers, 2 retries, 1 death, 1 raising call, 1 quarantined file | no reading is lost; no outage buries one over HTTP; the estimate is exact; the contract |
| `OutboxLiveness` | 2 messages, 2 workers, a limit of 1, 1 death | rows leave, the breaker closes, the limit holds |
| `DevicePublishing` | 1 point, 2 values, 1 poll, 3 policies, 2 measurements, 1 opening, 1 refresh, 1 failing publication, 1 rebuild | no change is lost, a lost point is repaired, values are shown in the end, silence and muteness are noticed |
| `DeviceLostShown` | 2 openings | finding: an outage is never announced |
| `TransportRouter` | 2 threads, threshold 2, dwell and probe interval of 1 tick, breaker waits of 1 and 2, 1 fault, both settings of the fallback | a call that returns was taken; flapping is damped; the traffic returns to NATS; the breaker closes |
| `SessionPolicy` | 1 device of any policy and any end of the connection, 1 probe before a relink; without strings any 3 events, with strings and refreshes any 2 | in a connection a smart device gets one integrity poll that no operator wanted and one read of its strings; sleep survives a stop; a change of mode is followed; a half-open connection is replaced |
| `PollScheduler` | 3 devices, 2 workers, fleets of all, two and one of them, 1 event | every device is polled; a device that was left out is not overtaken |
| `ConfigSync` | 2 payloads (a mixed fleet with a device that may be foreign; a port clash, refused unless one of its devices is foreign), 2 edits, 1 trigger, 1 fault, 1 death with the same or other subnets | the ETag belongs to the configuration; what is adopted was parsed whole, under the subnets of today once there is an answer; devices have their own signals; no change is missed, and no trigger but one that died stored |
| `HealthReport` | 2 devices in batches of 1, 1 change, 1 interval, 1 failing POST, 1 death, 1 boot counter that cannot be read or written | the backend's table is right after a round, devices leave it for a reason only, and it converges |

**Bounds.** Every hazard of the command plane concerns one id and the actors
that hold it; two HTTP threads and the command thread are all the ways an id
can be held at once, and one crash, one failing call and one lost journal can
fall between any two steps. What waits for a batch waits behind other ids:
`MCCommandLiveness` has a second command and batches of one, without what a
single command shows already. In the telemetry plane two workers and two messages
suffice for a race for the last free place, for a partial delivery and for the
shared flag. In the device plane the marks of points do not interact but for
`_mark_all_dirty_unsafe`, and two measurements with one opening contain
"change, recover, change again". The router's hazards are a thread that comes
back late while the traffic has moved: two threads and periods of one tick
contain it. A session needs an opening, a reading of the mode and one more
event (a second reading, a restart, a configuration, a failed write) for each
of its hazards: hence three. Strings add a stage to every poll; their hazard is
a second read in one connection, or one beside an operator's: two events. Three devices over two workers are the least for
which a device is left out while others are asked. A configuration hazard is an
edit or a trigger during a fetch that began with another one: two edits. A
snapshot of two batches is the least that can be torn. What the bounds leave
open for the invariants, the theorems of section 4 close for all planes.

Bounds that exist in the model only: `MaxCrashes`, `MaxFaults`, `MaxResets`,
`MaxWrites`, `MaxOpens`, `MaxRefreshes`, `MaxRebuilds`, `MaxEvents`,
`MaxEventsWithTexts`, `MaxEdits`,
`MaxTriggers`, `MaxChanges`, `MaxIntervals`, `MaxFailures`, `MaxBootFaults`.
Symmetry (ids, handlers, messages, workers) is used in runs without liveness
only. No run disables the deadlock check.

**Fairness.** Threads: weak fairness of each actor's steps, since each loop of
the code survives any exception and every call it makes has a timeout. Process:
weak fairness of `Boot` (the service manager), and of the end of a shutdown.
Network and broker: strong fairness of a request that is tried again and again
- they are not down for good; without it neither delivery claim could hold.
What is asked of the backend is an answer to results, not that it takes them: it
may refuse a batch for ever.
Device and session planes: the scheduler polls the device again and again and
time passes; nothing is assumed of the device, its link or the operator, nor
that a failing publisher recovers beyond the bound on failures. Transport:
calls go on, each has timeouts, the event loop runs and time passes; nothing is
asked of the server or the backend, whose good behaviour is the premise of the
properties instead. Scheduling: polls end some day (every request and
publication in them has a timeout), the outbox drains, and the intervals pass.
Configuration: the threads run and a backoff ends; that the fetch interval
passes is *not* assumed, so that a change must come in by being told. Health:
the publisher's timer expires and its threads run. Where time or a thread is
fair, the code has a loop that survives any exception.

## 4. Proofs

| theorem | module | statement |
|---|---|---|
| `TypeCorrect` | `CommandDelivery_proofs`, `TelemetryOutbox_proofs`, `DevicePublishing_proofs`, `TransportRouter_proofs`, `ConfigSync_proofs`, `SessionPolicy_proofs`, `HealthReport_proofs` | `Spec => []TypeOK` |
| `CommandInvariantHolds` | `CommandDelivery_proofs` | `Spec => []CommandInvariant` |
| `DrivenAtMostOnce` | | `Spec => []AtMostOneCrob` |
| `JournalledBeforeDriven` | | `Spec => JournalBeforeCrob`, an action property |
| `JournalTellsTheTruth` | | `Spec => []ResultIsTrue` |
| `ResultsArrive` | | `Spec => []NoResultLost` |
| `RepliesAreTrue` | | `Spec => []OperateReplyIsTrue` |
| `PlaneKeepsContract` | | `Spec => ContractSpec`: the plane implements `CommandContract` |
| `NoOrphanWithoutFault`, `OrphanWaits`, `StartSettlesAll` | | `Spec => OrphansNeedAFault`, `OrphansWaitForRestart`, `RestartSettles`, action properties |
| `AcceptedCommandsAreKept` | | `Spec => []AcceptedIsNotDropped` |
| `BatchesSafe`, `NothingIsLost` | `TelemetryOutbox_proofs` | `Spec => []SafetyInvariant`, `[]NothingLost` |
| `ChargedAsRefused`, `NoOutageBuries` | | `Spec => []RefusalInvariant`, `[](HttpPath => BuriedWasRefused)` |
| `HandsAreApart`, `PlaneKeepsContract` | | `Spec => [](BatchesAreNew /\ RetrierOwnsRows)`, `Spec => ContractSpec`: the plane implements `TelemetryContract` |
| `CountIsKept`, `EstimateStaysExact`, `LimitIsKept` | | `Spec => []CountInvariant`, `[]EstimateIsExact`, `[]OutboxBounded` |
| `NoRowIsOvertaken`, `QueueIsKept` | | `Spec => NobodyJumpsTheQueue`, an action property, `[]QueueInvariant` |
| `RetrierGoesOn` | | `Spec => []RetrierCanGoOn` |
| `NoChangeIsLost` | `DevicePublishing_proofs` | `Spec => []CleanWasPublished` |
| `LostGetsRepaired` | | `Spec => [](SinglePoll => LostIsRepaired)` |
| `NoChangeIsLostByRebuilds` | | `Spec /\ [][CleanRebuild(k)]_vars => []CleanIn(k)` for every `k` |
| `LostGetsRepairedByRebuilds` | | `Spec /\ [][CleanRebuild(k)]_vars => [](SinglePoll => LostIn(k))` for every `k` |
| `RecoveriesAreEarned` | | `Spec /\ []SinglePoll => RecoveryIsEarned`, an action property |
| `ReturnsWhenTaken` | `TransportRouter_proofs` | `Spec => []ReportedWasTaken` |
| `SwitchesAreDamped` | | `Spec => FlapIsDamped`, an action property |
| `BreakerNeverSticks`, `ReadinessIsTrue`, `LocalNeverUsesHttp` | | `Spec => []BreakerIsNotStuck`, `[]ReadyIsConnected`, `[]LocalStaysLocal` |
| `SyncInvariantHolds`, `PairsStayTogether` | `ConfigSync_proofs` | `Spec => []SyncInvariant`, `[]PairBelongsTogether` |
| `AdoptedSoundly`, `SignalsAreOwn` | | `Spec => []AdoptedIsSound`, `[]OwnSignals` |
| `NewsStaysKept`, `TriggersStayKept` | | `Spec => []NewsIsKept`, `[]TriggerIsKept` |
| `NeverStepsBack` | | `Spec => NoStepBack`, an action property |
| `SchedulerInvariantHolds`, `LeftOutFirst` | `PollScheduler_proofs` | `Spec => []SchedulerInvariant`, `Spec => NobodyIsOvertaken` |
| `CyclesGoOn`, `NobodyGetsAhead`, `WaitsGetShorter` | | `Spec => []CycleGoesOn`, `PlaceIsKept`, `OnlyThoseAhead` |
| `SessionInvariantHolds`, `AskedAtMostOnce` | `SessionPolicy_proofs` | `Spec => []SessionInvariant`, `[]AskedOnce` |
| `SleepIsRestored` | | `Spec => SleepSurvives`, an action property |
| `PolicyFollowsMode` | | `Spec /\ [](wanted # "smart") => []PolicyIsRight` |
| `ClassifyTakesMode`, `StartKeepsPolicy` | | under the same hypothesis `SaidModeIsTaken`, `NextMasterFollows`, action properties |
| `RelinkIsEarned`, `ProbesAreKept` | | `Spec => []TriedOut`, `ProbesAddUp` |
| `HealthInvariantHolds`, `ToldWasTaken` | `HealthReport_proofs` | `Spec => []HealthInvariant`, `[]ToldIsHeld` |
| `TourTellsTheTruth`, `PartsStayApart` | | `Spec => []CurrentAfterTour`, `Spec => OnlyUnreadRemoved` |

They hold for every value of the constants that satisfies the assumptions
declared with them (`LedgerAssumption`, `DeliveryAssumption`,
`OutboxAssumption`, `DeviceAssumption`, `RouterAssumption`,
`BreakerAssumption`, `ParseAssumption`, `SyncAssumption`,
`SchedulerAssumption`, `SessionAssumption`, `HealthAssumption`): finite sets, positive sizes and
thresholds, distinct markers, well-formed payloads.

*At most one command.* `AtMostOneCrob` is not inductive: nothing in it says
that the thread about to drive the device is the only one. `CommandInvariant`
adds `OneOwner` (whoever inserted the row owns the id until its result is
recorded; the owners exclude each other, and there is none while the process is
down) and `NotYetDriven` (an owner that has not driven its command is the first
to have the id, because a row is only ever forgotten when its command is too
old to be driven). `start_dispatch`'s INSERT that reports whether it inserted
is what creates the single owner; recovery before any thread starts is what
keeps a new process from becoming a second one. `TruthInvariant` carries a
result from the device through the owner's hands to the journal.

*No reading lost.* `SafetyInvariant` follows a batch through the publisher:
after a successful call or a completed insertion all its items are safe, during
insertion those already inserted are, and the retrier deletes only what was
delivered. Nothing is said of the estimate or the breaker: they may be wrong
without losing a message.

*No change lost.* A mark is cleared only by a token with its version. The
invariant says that versions only grow (so that marking a point makes every
token of it outdated) and that at the commit every token that still has the
current version stands for a published reading. It covers any number of
overlapping polls. It holds for the first master of a device only: a
commit that finds another master than its poll used may clear the mark of a
newer value (section 5).

*A lost point is repaired.* A poll blames the device from the moment it may call
it lost (the grace is over, or an outage is to be announced) until the
confirmation of its comm_lost. `RepairInvariant` says that while a poll blames,
a device that is back has all its points marked, since coming back marks them
and with one poll (`SinglePoll`) nothing clears a mark in between: the commit
comes after the alarm's confirmation, and what it clears was published by the
same poll. With two polls that overlap it does not hold: the older one may publish
its comm_lost when the newer one has published the values already, and the
commit of the newer one clears the marks that the recovery set. That a recovery is earned
(`RecoveryIsEarned`) follows from `RightInvariant`: a poll decides to recover
only by the right it has, and between decision and recovery only another poll
could take that right away.

*After a rebuild.* Both results are proved of the k-th master, for every `k`,
when it took over while no poll held readings of the one before it
(`CleanRebuild`; the code takes the master anew in every poll, so this is every
rebuild that does not meet a poll). What the masters before it did does not
matter, and their comm_lost may still be on its way. Without that hypothesis
they fail (section 5).

*Results arrive.* `NoResultLost` is proved row by row: whoever marks a row as
delivered has an answer that covers it, and a row only changes by the journal's
own operators. It needs nothing but the types, so that it holds whatever the
threads do to each other.

*Commands keep their contract.* Every step of the detailed plane is a step of
`CommandContract` or leaves its state alone, read through the mapping that calls
an id absent, accepted, settled or closed by its row in the journal. Most
of it follows from the invariants above. What has to be added is
`ForgottenInvariant`: the device has a verdict only of commands that were
driven, and of a forgotten id only a rejection can still be under way, so that
the contract's *Settle* never turns a forgotten command into an executed one.
`RepliesAreTrue` then uses the contract instead of the journal: a forgotten
command is never answered by a verdict again (`ContractForgets`), so that a
duplicate request that finds *ok* in the journal finds a row that was never
forgotten, whose result is the device's.

*Readings keep their contract.* `BatchesAreNew` says that no two batches share a
message and that what a batch has not stored yet is new to the outbox, hence an
insertion is the contract's *Store*. `RetrierOwnsRows` says that the rows the
retrier took stay stored until it handles them itself, hence what it does to
them is *Settle* or *Bury*. Both hold although the process may die between any
two steps. The count of the outbox rests on the same two facts: a row that is
inserted was not stored and one that is deleted was, so that adding and
subtracting the number of rows keeps the estimate exact as long as no SQLite
call raises; and as long as it is exact the limit holds, because `enqueue`
compares and inserts under one lock.

*Damped switching.* To bound how often the traffic falls to HTTP the invariant
`Damped` relates three clocks: while HTTP is active, the time since the fall
and the time left until the probe make up the probe interval at least; while
NATS is, the time since the fall exceeds the dwell time by that interval. A
failure moves the traffic only when the dwell time is over, hence after both.

*Configuration.* `SyncInvariant` says that whatever is held anywhere - the last
answer, the one in flight, the adopted one, the cache file - was published by
the backend and was parsed before it was kept, by whichever process under
whichever subnets; that the last answer is this process's, parsed under its
subnets, and what it adopted; that an answer in flight and a poll's counters are
not ahead of the backend; and that ETag and configuration are a pair. So the
cache is trusted with the subnets of an earlier process, but no longer than to
the first answer: `AdoptedIsSound` is that, and a fact about the parser under
given subnets; `OwnSignals` is one about `SignalsFor`. `TriggersStayKept` names
the one way a trigger is lost: its counter is stored when the process dies.

*Left out first.* `SchedulerInvariant` ties the ranks of the last readings to
the history: a device that a cycle left out is unread for longer than every
device which that cycle asked, no time lies after the present cycle's, and
within a cycle the queue is taken in order. Hence no device it was passed over
for can be started before it.

*Asked once.* The poll reads the link once and acts on the copy, while the link
may close and open again. `AskingOK` says that a device that was asked in this
connection, operators' polls apart, is known to have been asked, and that a poll
whose copy says "no link" - the only one that forgets it - has lost the
connection the question belongs to. `ReadsOK` says that while the strings of a
device are still wanted nobody has read them in this connection: what wants them
anew is a new connection, and a read is what ends the wanting.
`OwedOK` and `StoreOK` carry a sleeping device through a stop: what
memory and file hold agree unless the mark says otherwise, the stop writes what
is marked, and until the first master nothing changes the record.

*Health.* `RoundInvariant` counts the batches a round has left to post: their
number is the quotient, rounded up, of what it announced, so that the last one
holds the last device and no other does. `OrderInvariant` says that no POST, on
its way or taken, is ahead of the gateway's boot id and sequence, and that a
POST on its way is behind what the backend took unless an answer was lost
(`doubt`). `PartsInvariant` says that the number of a snapshot is used once and
that parts which complete it name all its devices. With these `TableInvariant`
relates the table to what was told. All but the types and the counting hold as
long as every boot id was larger than those before (`anchored`), and not
otherwise (section 5).

*What liveness rests on.* That something happens in the end has two parts:
nothing on the way may lose, overtake or block what waits, and the scheduling
must be fair. The first part is safety, and proved:

| liveness (model-checked) | its safety part (proved) |
|---|---|
| `EveryDispatchSettles` | A reserved command has an owner that will write its result, unless a journal call raised (`NoOrphanWithoutFault`); then no step of the same process touches it (`OrphanWaits`), and the next start settles it (`StartSettlesAll`). |
| `EveryAckLeaves`, `EveryResultLeaves` | What the backend counts as accepted, and so offers no more, has a result or an owner, or waits for the recovery, until its row is pruned or the journal lost (`AcceptedCommandsAreKept`); results that count as delivered were received (`ResultsArrive`). |
| `EveryRowLeaves` | The rows before a waiting row only become fewer, each is charged one failure at a time (`NoRowIsOvertaken`) and leaves with the last one it may have (`QueueIsKept`); the retrier always has the row it is to try next (`RetrierGoesOn`). |
| `BreakerCloses`, `ReturnsToNats` | When the breaker's wait is over it permits a request or one is under way (`BreakerNeverSticks`); the readiness that is probed is the connection's own, and while there is none the task that makes one runs (`ReadinessIsTrue`). |
| `EventuallyShown`, `SilentIsLost` | A change keeps its mark until it is published (`NoChangeIsLost`, `NoChangeIsLostByRebuilds`), and a point shown as lost keeps its own (`LostGetsRepaired`, `LostGetsRepairedByRebuilds`). |
| `MuteSettles` | After a failed recovery only the device, its link or a new master gives back the right to another one (`RecoveriesAreEarned`). |
| `EveryDeviceIsPolled` | A due device stays due, and nobody gets ahead of it but a new device, unless the gateway restarts (`NobodyGetsAhead`); only devices ahead of it are asked before it (`WaitsGetShorter`), and a cycle with devices left has a next one and a worker for it (`CyclesGoOn`). |
| `ChangeIsFetched`, `TriggerIsRun` | A version the poll has been told of is adopted, or a fetch is pending, under way or bringing it (`NewsStaysKept`); a trigger that was not run is pending or its counter is still to come, or it is lost with a process that had stored it (`TriggersStayKept`). |
| `ChangeIsFollowed` | Each poll of an auto device takes the mode it says, unless the device was given up as unclassified and says sleep (`ClassifyTakesMode`), each start the mode that was known (`StartKeepsPolicy`), and in between the policy is that of the mode (`PolicyFollowsMode`). |
| `HalfOpenIsReplaced` | The probes of a half-open connection are never forgotten; a relink that is put off costs one (`ProbesAreKept`, `RelinkIsEarned`). |
| `Converges` | A round that succeeds leaves the table as read (`TourTellsTheTruth`), and what counts as told is told (`ToldWasTaken`). |

Their invariants: `Owned` names who holds a reserved command from hand to hand;
`QueueInvariant` numbers the rows of both tables apart and bounds their
failures; `NewsInvariant` speaks of what the configuration thread *will* hold,
because an answer in flight may be older than the adopted one; `CycleInvariant`
ties each device's future to the phase of the cycle; `PolicyInvariant` says that
what the adapter knows, what the master knows and what is recorded choose the
same policy. This last one needs the hypothesis that the device is never
configured smart: a smart master records a mode that the adapter's memory does
not have, so that a change from smart to auto may start the next master under
the other policy (section 5); `ChangeIsFollowed` has the same exception.

**Model-checked only.** Liveness itself: that the fair steps are taken, and that
the decreasing measures above reach their end, depends on fairness, ENABLED and
an induction the prover does not handle. Facts about data by induction are out
of its reach too: that the number of free workers in the pool is the count of
hanging polls (a fold) is not proved, only that the pool keeps within
`MaxParallel` and has two workers when it starts one. Recursive operators: no module here declares
one.

## 5. Where the code and its comments disagree

With a run each (see `findings` in `PROJECT.json`): network failures counted as
refusals (`main.py:533`), and an outage that is never announced
(`adapters/dnp3_yadnp3_master.py:4427`).

Read while modelling, in the models where they belong, without a run of their
own. `A` is `adapters/dnp3_yadnp3_master.py`.

Commands:

* ACKs the backend rejected are marked as accepted
  (`backend/config_client.py:1126`), against its docstring at 1056. That no ACK
  blocks the others (`EveryAckLeaves`) rests on it: a batch that was answered
  is gone from the queue, whatever the answer says of its rows.
* ACKs are sent oldest row first (a batch of 100, tried twice a turn); in the model a
  batch is any. The order matters only for rows that come back: an ACK is put
  back when its command is offered again and the id is not in the window of the
  last 10,000 seen. `EveryAckLeaves` is checked with a window that holds all
  commands that are alive (a restart empties it once). With more live commands
  than the window holds, a hundred old ones that are offered in every turn could
  keep a newer ACK waiting.
* After a restart the recovered result of an interrupted command is *unknown*;
  a repeated `/operate` is answered `ok: false` with it (`health_server.py:1145`),
  though the comment at 1126 says an unknown result must not be called a
  failure.
* `ack_yeniden_kuyrukla` re-queues an ACK that was already accepted, against its
  docstring (`messaging/command_ledger.py:256`).
* When a journal call raises in the middle of a batch of taken commands, the
  window of seen ids hides the rest of them from the next offers
  (`state.py:206`), against the remark at `state.py:45`.

Telemetry and transport:

* Errors of the NATS client are not recognised as temporary
  (`messaging/jetstream_publisher.py:56`): over NATS alone an outage is charged
  to the messages. `BuriedWasRefused` is therefore checked with the HTTP path.
* `last_batch_outboxed` is shared by all workers (`poller.py:280-286`): one
  worker may count the stored messages of another as published.
* The order of stored readings is not kept when a batch is taken in part or a
  row is deferred, against `messaging/resilient_publisher.py:271`.
* After a failing COMMIT in `delete_many` the estimate stays too high
  (`messaging/outbox.py:270`), so that the breaker could stay open: the liveness
  of the breaker is checked without raising SQLite calls.
* A failure that arrives after the HTTP breaker has opened clears the mark of
  the probe (`messaging/http_publisher.py:309-333`): two probes may be under way
  although the docstring allows a single one, and each failure doubles the wait.
* What HTTP takes while NATS is active and has no counted failure is missing
  from `_fallback_delivered` (`messaging/transport_router.py:283-285`).
* When the NATS client gives its connection up (`closed_cb`) nothing opens
  another one: `ReturnsToNats` excludes this case.

Devices and sessions:

* The commit of a poll finds the master by the device code (`A:5007-5016`): after
  a rebuild it may clear the mark of a newer value in the new cache.
* A smart device that closes its session between `is_smart_idle` and `state` is
  published as comm_lost although it sleeps; a dialled device that opens its
  link between `is_connected` and `enter_smart_idle` is put to sleep with its
  link open, for the length of the session.
* Overlapping polls of a device (after a timeout) are not ordered: the older
  one may publish last, and when that is a comm_lost the device stays shown as
  lost until its points change or it is lost again.
* An auto device whose recorded mode is sleep and which was given up as
  unclassified after its window stays under scans for good when it reports that
  mode, since "same mode" does nothing (`A:3709-3713`, `3761-3778`); likewise a
  device with a recorded boost that is configured auto after smart stays
  unscanned. This is against docs/HORSTMANN_SMART_MODE.md:45-46;
  `ChangeIsFollowed` leaves these devices out.
* `enable_periodic_scans` answers False also when the master is scanned already
  (`A:2472`), and its callers then tear a working session down (`A:3775-3777`,
  `3823-3839`), against docs/HORSTMANN_SMART_MODE.md:191 and the comment at 3823.
* A restart or a rebuild of a listening smart device that has been silent beyond
  its limit puts it to sleep once more, against the comment at `A:3985-3986`.
* `exit_smart_idle` leaves the state `smart_idle`; a command that begins between
  the check of `A:3473` and the shutdown loses its master; `forget_devices`
  keeps what is known of the device's mode.
* docs/HORSTMANN_SMART_MODE.md:435 promises a smart device one attempt at its
  G110 strings per session. The poll keeps to it (`A:4352`; the `reads` of
  `AskedOnce`), but every integrity poll reads the strings as well (`A:2721`), so
  that a connection in which the mode of an auto device is asked, or an operator
  refreshes, has two reads or more.
* An operator's refresh sends an integrity poll to every master, smart ones
  included (`A:5197-5202`), whereas docs/HORSTMANN_SMART_MODE.md:251-256 calls
  it local work that wakes no modem. In a connection `AskedOnce` counts these
  polls apart. They are as many as the operator wants.
* Not counted: what OpenDNP3 asks by itself when a connection opens, and
  commands. Not modelled: string points that are taken out of the configuration
  of a connected device and put back, which lets the poll read them once more
  (`A:3290`).

Scheduling:

* `run_poll_cycle` promises that a hanging device does not block the pool
  (`poller.py:375-388`). A single due device, or any with `max_parallel` 1, is
  polled without a timeout (466); a device that hangs in every cycle takes
  another worker each time. `EveryDeviceIsPolled` holds because polls end.
* The same docstring says that every device is marked read in every case: a
  poll that never started is not, and an aborted serial cycle marks the failing
  device only. `NobodyIsOvertaken` depends on that difference.
* `mark_read` of a device that was removed meanwhile leaves its entry behind
  (`state.py:604`).

Configuration and health:

* The cached configuration is loaded without the parser (`state.py:301-384`; the
  adapter says so, `A:3919-3921` and `3945-3948`). When the operator has
  tightened the allowed subnets and the backend is down at the next start,
  devices outside them are polled until the first answer. That answer does not
  rewrite the cache: only another `config_version` does (`state.py:176-177`), and
  the version does not depend on the subnets. So every start with the backend
  down polls them again. `AdoptedIsSound` states what is left: whole payloads
  always, the subnets of today from the first answer.
* A trigger whose counter was stored (`state.py:408`) and that was not taken when
  the process died is lost: the next process knows the counter (372-375), and
  sessions of smart devices start without a read (`A:2243`). `TriggerIsRun`
  therefore ends in "run or lost", and `lost` is set in this one case only.
* Only the subnets change between two processes of the model. A new version of
  the program with another parser or cache format is outside it, and a list of
  subnets in which no entry is valid ends the process (`main.py:1202`).
* A fetched configuration that is older than the last poll lowers the refresh
  nonce (`state.py:157-159` takes it for a reset of the backend), and the next
  poll has all devices read a second time for one trigger.
* A persist that fails is not repeated until the version changes
  (`state.py:176-177`); `signals_for` reads catalog and fleet in two locked
  sections; a `dnp3_address` that is no number drops the device although
  `_safe_int` promises a default; equal device codes are not checked.
* A boot counter that cannot be read starts again at 1
  (`backend/device_health_publisher.py:396-404`), and one that cannot be written
  is used once more by the next process, whereas docs/GRID_DEVICE_HEALTH_API.md:88
  has the boot id grow with every start. Then the parts of two processes' snapshots
  may make a whole that removes an existing device, and POSTs of the new process
  count as stale: the properties of `HealthReport` are about boot ids that grow.
  The docstring (391) has 1 returned when the file cannot be written too; the
  code returns the next number (415).
* A removed device may be part of the snapshot that was requested for its
  removal (`main.py:612-615`), because its master is closed later by the main
  loop; and a request that comes while a snapshot is posted is cleared with it
  (`backend/device_health_publisher.py:359`). The device stays in the backend's
  table until the periodic snapshot, at most 300 s later. An empty device set never sends its
  snapshot (282-285). A POST whose answer is lost may leave the backend behind
  until the next snapshot; the properties call this `doubt`.

## 6. Plan

Done: all planes of section 1, each with its runs and theorems. Left, in this
order:

1. `DevicePublishing` under a session whose policy changes (composition with
   `SessionPolicy`; the product is beyond TLC at the present bounds).
2. `CommandFreshness`: the age check as integer arithmetic with its limits,
   discharging the assumption about retention.
3. `DevicePublishing` over a rebuild of the master while a poll holds the old
   cache, with the properties that survive it (those of a rebuild between polls
   are proved, section 4), and what holds of a lost point when polls overlap.
4. Proofs: that the pool's free workers are what the hanging polls leave, and
   the first configuration change from smart to auto.

## 7. Not modelled

The stateless `dnp3_master.py` adapter, adapter factory and mock; read-only
health pages and metrics; cryptography and HTTP connection pooling; parsing and
validation of settings and command parameters; logging, resource guard and
network probe: they hold no state that others depend on, or are pure input and
output. Of the modelled parts: the values of string points, channels shared by masters,
listeners and TLS, the optional secondary publisher, message ids, schema
migration, the disk guard. The reasons are with each component in
`PROJECT.json`.
