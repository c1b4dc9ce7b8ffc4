-------------------------- MODULE DevicePublishing --------------------------
(***************************************************************************)
(* From one DNP3 device to the publisher: the cache of the device          *)
(* (_DeviceCache), written by the callbacks of the OpenDNP3 IO thread, and *)
(* the poll that reads it, publishes what changed and then confirms what   *)
(* it published (_oku, poll_device, commit_published).                     *)
(*                                                                         *)
(* Every method of the cache holds its lock once; the poll calls a dozen   *)
(* of them, so that an IO callback may fall between any two.  Each call is *)
(* an action.  Two polls of the device overlap when the first has exceeded *)
(* its timeout: Poller is the set of polls that may run at once.           *)
(*                                                                         *)
(* Time is what the code compares it to: the evidence is fresh or not, the *)
(* grace of a recovery is over or not, the device is silent or not.        *)
(* A rebuilt master has an empty cache; it is rebuilt by the command path, *)
(* here only while no poll reads (reading the old cache is left out).      *)
(***************************************************************************)
EXTENDS Integers, FiniteSets

CONSTANTS
    Point,          \* (object group, index) of the device's signals
    Value,          \* what a point can measure, its quality flags included
    NoValue,        \* not measured, not shown
    Lost,           \* quality comm_lost
    Poller,         \* polls of this device that may overlap
    Policies,       \* policies to start with, see policy
    MaxWrites,      \* bounds of the model: measurements,
    MaxOpens,       \* openings of the link,
    MaxRefreshes,   \* refresh-all requests,
    MaxFaults,      \* publish_batch calls that raise,
    MaxRebuilds     \* rebuilt masters

ASSUME DeviceAssumption ==
    /\ NoValue \notin Value
    /\ Lost \notin Value \cup {NoValue}
    /\ Policies \subseteq {"continuous", "initiating", "listening"}
    /\ {MaxWrites, MaxOpens, MaxRefreshes, MaxFaults, MaxRebuilds} \subseteq Nat

VARIABLES
    policy,         \* continuous, or smart with the TCP end that opens the link
    \* the link and the session, in _DeviceCache
    connected,
    opening,        \* OnOpen has called set_connected, not yet begin_recovery
    state,          \* what /health and the command path see
    idle,           \* _smart_idle_since # 0
    evidence,       \* _session_evidence
    fresh,          \* the last evidence is younger than the threshold
    contacted,      \* _last_valid_contact # 0
    silent,         \* ... and older than the silence limit
    graceOver,      \* recovery_age() exceeds the grace
    relinkOk,       \* relink_izinli()
    deferral,       \* _comm_lost_erteleme_at: not set, running, or over
    pendingPublish, \* _pending_recovery_publish
    announced,      \* _stale_announced
    gen,            \* _stale_gen
    \* the values, in _DeviceCache
    value,          \* Point -> last measurement
    rank,           \* Point -> place in the dict _values, 0: not in it
    size,           \* len(_values)
    dirty,          \* points to be published
    version,        \* Point -> version of its last mark
    seq,            \* _version_seq
    \* the polls
    pc,             \* next call
    saw,            \* locals connected and stale of _oku, while they are read
    todo,           \* points not peeked at yet
    taken,          \* readings with their read_token
    alarm,          \* comm_lost readings: the generation in their token
    \* the collector, and history
    shown,          \* Point -> last reading that became durable
    sent,           \* points whose current version became durable
    writes, opens, refreshes, faults, rebuilds

linkVars == <<connected, opening, state, idle, evidence, fresh, contacted, silent,
              graceOver, relinkOk, deferral, pendingPublish, announced, gen>>
valueVars == <<value, rank, size, dirty, version, seq>>
pollVars == <<pc, saw, todo, taken, alarm>>
worldVars == <<shown, sent>>
countVars == <<writes, opens, refreshes, faults, rebuilds>>
vars == <<policy, linkVars, valueVars, pollVars, worldVars, countVars>>

Smart == policy # "continuous"
Cached == {p \in Point : rank[p] # 0}
NoAlarm == -1
NothingSeen == [connected |-> FALSE, stale |-> TRUE]
Reading == [point: Point, value: Value, version: Nat, master: Nat]

Init ==
    /\ policy \in Policies
    /\ connected = FALSE /\ opening = FALSE /\ state = "lost" /\ idle = FALSE
    /\ evidence = FALSE /\ fresh = FALSE /\ contacted = FALSE /\ silent = FALSE
    /\ graceOver = FALSE /\ relinkOk = TRUE /\ deferral = "none"
    /\ pendingPublish = FALSE /\ announced = FALSE /\ gen = 0
    /\ value = [p \in Point |-> NoValue]
    /\ rank = [p \in Point |-> 0] /\ size = 0
    /\ dirty = {}
    /\ version = [p \in Point |-> 0] /\ seq = 0
    /\ pc = [w \in Poller |-> "idle"]
    /\ saw = [w \in Poller |-> NothingSeen]
    /\ todo = [w \in Poller |-> {}]
    /\ taken = [w \in Poller |-> {}]
    /\ alarm = [w \in Poller |-> NoAlarm]
    /\ shown = [p \in Point |-> NoValue]
    /\ sent = {}
    /\ writes = 0 /\ opens = 0 /\ refreshes = 0 /\ faults = 0 /\ rebuilds = 0

-----------------------------------------------------------------------------
(* The IO thread.  Its callbacks do not overlap; OnOpen makes two calls.   *)

\* OnOpen, first call: a new session has no evidence, and a new right to recover.
OpenLink ==
    /\ ~connected /\ ~opening /\ opens < MaxOpens
    /\ connected' = TRUE /\ opening' = TRUE
    /\ relinkOk' = TRUE /\ idle' = FALSE /\ evidence' = FALSE
    /\ opens' = opens + 1
    /\ UNCHANGED <<policy, state, fresh, contacted, silent, graceOver, deferral,
                   pendingPublish, announced, gen, valueVars, pollVars, worldVars,
                   writes, refreshes, faults, rebuilds>>

\* begin_recovery: a recovery under way keeps its grace.
BeginRecovery ==
    IF state = "recovering"
      THEN UNCHANGED <<state, graceOver, pendingPublish, relinkOk>>
      ELSE /\ state' = "recovering" /\ graceOver' = FALSE
           /\ pendingPublish' = FALSE /\ relinkOk' = TRUE

\* OnOpen, second call.
BeginAfterOpen ==
    /\ opening
    /\ opening' = FALSE
    /\ BeginRecovery
    /\ UNCHANGED <<policy, connected, idle, evidence, fresh, contacted, silent,
                   deferral, announced, gen, valueVars, pollVars, worldVars, countVars>>

\* OnClose: a smart session that gave evidence ends in sleep, any other is lost.
CloseLink ==
    /\ connected /\ ~opening
    /\ connected' = FALSE
    /\ idle' = (idle \/ (Smart /\ evidence))
    /\ state' = IF idle' THEN "smart_idle" ELSE "lost"
    /\ fresh' = FALSE /\ graceOver' = FALSE /\ pendingPublish' = FALSE
    /\ UNCHANGED <<policy, opening, evidence, contacted, silent, relinkOk, deferral,
                   announced, gen, valueVars, pollVars, worldVars, countVars>>

\* What any answer of the device proves.
Heard ==
    /\ fresh' = TRUE /\ evidence' = TRUE /\ contacted' = TRUE /\ silent' = FALSE
    /\ relinkOk' = TRUE

\* OnReceiveIIN, OnTaskComplete: an answer without a measurement.
Evidence ==
    /\ connected /\ ~opening
    /\ Heard
    /\ UNCHANGED <<policy, connected, opening, state, idle, graceOver, deferral,
                   pendingPublish, announced, gen, valueVars, pollVars, worldVars, countVars>>

\* _mark_all_dirty_unsafe: every cached point gets a new version, in dict order.
MarkAllDirty ==
    /\ dirty' = dirty \cup Cached
    /\ version' = [p \in Point |-> IF rank[p] # 0 THEN seq + rank[p] ELSE version[p]]
    /\ seq' = seq + size
    /\ sent' = sent \ Cached

\* set, storing: a first or changed value is marked dirty under a new version.
Store(p, v) ==
    /\ value' = [value EXCEPT ![p] = v]
    /\ rank' = [rank EXCEPT ![p] = IF @ = 0 THEN size + 1 ELSE @]
    /\ size' = IF rank[p] = 0 THEN size + 1 ELSE size

MarkDirty(p) ==
    /\ dirty' = dirty \cup {p}
    /\ version' = [version EXCEPT ![p] = seq + 1]
    /\ seq' = seq + 1
    /\ sent' = sent \ {p}

MarkChanged(p, v) ==
    IF value[p] # v THEN MarkDirty(p) ELSE UNCHANGED <<dirty, version, seq, sent>>

\* The SOE handler's set, when no recovery waits for it.
Measure(p, v) ==
    /\ connected /\ ~opening /\ writes < MaxWrites
    /\ state # "recovering"
    /\ Heard
    /\ Store(p, v)
    /\ MarkChanged(p, v)
    /\ writes' = writes + 1
    /\ UNCHANGED <<policy, connected, opening, state, idle, graceOver, deferral, pendingPublish,
                   announced, gen, pollVars, shown, opens, refreshes, faults, rebuilds>>

\* _mark_all_dirty_unsafe as set calls it, after it has stored v.
MarkConfirmed(p, v) ==
    /\ LET first == IF value[p] # v THEN seq + 1 ELSE seq IN
       /\ dirty' = dirty \cup Cached \cup {p}
       /\ version' = [q \in Point |-> IF rank'[q] # 0 THEN first + rank'[q] ELSE version[q]]
       /\ seq' = first + size'
    /\ sent' = sent \ (Cached \cup {p})

\* set during a recovery: the device has spoken, it is online and all its
\* points are to be published again, this one included.
Confirm(p, v) ==
    /\ connected /\ ~opening /\ writes < MaxWrites
    /\ state = "recovering"
    /\ Heard
    /\ Store(p, v)
    /\ state' = "online" /\ pendingPublish' = TRUE /\ deferral' = "none"
    /\ graceOver' = FALSE
    /\ MarkConfirmed(p, v)
    /\ writes' = writes + 1
    /\ UNCHANGED <<policy, connected, opening, idle, announced, gen,
                   pollVars, shown, opens, refreshes, faults, rebuilds>>

-----------------------------------------------------------------------------
(* Time, and requests from other threads.                                  *)

EvidenceAges ==
    /\ fresh
    /\ fresh' = FALSE
    /\ UNCHANGED <<policy, connected, opening, state, idle, evidence, contacted, silent,
                   graceOver, relinkOk, deferral, pendingPublish, announced, gen,
                   valueVars, pollVars, worldVars, countVars>>

GraceEnds ==
    /\ state = "recovering" /\ ~graceOver
    /\ graceOver' = TRUE
    /\ UNCHANGED <<policy, connected, opening, state, idle, evidence, fresh, contacted, silent,
                   relinkOk, deferral, pendingPublish, announced, gen,
                   valueVars, pollVars, worldVars, countVars>>

DeferralEnds ==
    /\ deferral = "running"
    /\ deferral' = "over"
    /\ UNCHANGED <<policy, connected, opening, state, idle, evidence, fresh, contacted, silent,
                   graceOver, relinkOk, pendingPublish, announced, gen,
                   valueVars, pollVars, worldVars, countVars>>

\* The device has not been heard for the silence limit of the smart policy.
SilenceGrows ==
    /\ Smart /\ ~silent
    /\ silent' = TRUE
    /\ UNCHANGED <<policy, connected, opening, state, idle, evidence, fresh, contacted,
                   graceOver, relinkOk, deferral, pendingPublish, announced, gen,
                   valueVars, pollVars, worldVars, countVars>>

\* refresh_all_devices, in the main loop or the HTTP thread.
Refresh ==
    /\ refreshes < MaxRefreshes
    /\ MarkAllDirty
    /\ refreshes' = refreshes + 1
    /\ UNCHANGED <<policy, linkVars, value, rank, size, pollVars, shown,
                   writes, opens, faults, rebuilds>>

\* _ensure_master, called by the command path after the device's connection
\* parameters changed: the cache starts anew, its counters too.
Rebuild ==
    /\ rebuilds < MaxRebuilds /\ policy = "continuous"
    /\ \A w \in Poller : pc[w] \in {"idle", "publish", "commit"}
    /\ connected' = FALSE /\ opening' = FALSE /\ state' = "lost" /\ idle' = FALSE
    /\ evidence' = FALSE /\ fresh' = FALSE /\ contacted' = FALSE /\ silent' = FALSE
    /\ graceOver' = FALSE /\ relinkOk' = TRUE /\ deferral' = "none"
    /\ pendingPublish' = FALSE /\ announced' = FALSE /\ gen' = 0
    /\ value' = [p \in Point |-> NoValue]
    /\ rank' = [p \in Point |-> 0] /\ size' = 0
    /\ dirty' = {}
    /\ version' = [p \in Point |-> 0] /\ seq' = 0
    /\ sent' = {}
    /\ rebuilds' = rebuilds + 1
    /\ UNCHANGED <<policy, pollVars, shown, writes, opens, refreshes, faults>>

-----------------------------------------------------------------------------
(* The poll: read_device.                                                  *)

\* Stages in which the poll has not decided yet what the device is.
Undecided == {"evidence", "sleep", "enter", "silence", "giveup", "state", "edge", "grace", "fail"}

At(w, stage) == pc[w] = stage
Goto(w, stage) ==
    /\ pc' = [pc EXCEPT ![w] = stage]
    /\ saw' = IF stage \in Undecided THEN saw ELSE [saw EXCEPT ![w] = NothingSeen]

\* is_connected, the first call of _oku.
PollStart(w) ==
    /\ At(w, "idle")
    /\ pc' = [pc EXCEPT ![w] = "evidence"]
    /\ saw' = [saw EXCEPT ![w] = [connected |-> connected, stale |-> TRUE]]
    /\ UNCHANGED <<policy, linkVars, valueVars, todo, taken, alarm, worldVars, countVars>>

\* last_evidence_at.
ReadEvidence(w) ==
    /\ At(w, "evidence")
    /\ pc' = [pc EXCEPT ![w] = IF Smart THEN "sleep" ELSE "state"]
    /\ saw' = [saw EXCEPT ![w] = [connected |-> @.connected, stale |-> ~fresh]]
    /\ UNCHANGED <<policy, linkVars, valueVars, todo, taken, alarm, worldVars, countVars>>

\* A mistake: a device that was given up falls asleep again.
CheckSleepOnly(w) ==
    /\ At(w, "sleep")
    /\ Goto(w, IF idle THEN "silence"
               ELSE IF policy = "initiating" \/ saw[w].connected THEN "state"
               ELSE "enter")
    /\ UNCHANGED <<policy, linkVars, valueVars, todo, taken, alarm, worldVars, countVars>>

\* _smart_idle_denetle, is_smart_idle: a listening device that cannot be
\* reached is asleep too, unless it has been silent for too long.
CheckSleep(w) ==
    /\ At(w, "sleep")
    /\ Goto(w, IF idle THEN "silence"
               ELSE IF policy = "initiating" \/ saw[w].connected \/ silent THEN "state"
               ELSE "enter")
    /\ UNCHANGED <<policy, linkVars, valueVars, todo, taken, alarm, worldVars, countVars>>

\* enter_smart_idle: a device never heard counts its silence from here.
EnterSleep(w) ==
    /\ At(w, "enter") /\ Goto(w, "silence")
    /\ IF idle
         THEN UNCHANGED <<idle, state, contacted, silent>>
         ELSE /\ idle' = TRUE /\ state' = "smart_idle"
              /\ contacted' = TRUE /\ silent' = (silent /\ contacted)
    /\ UNCHANGED <<policy, connected, opening, evidence, fresh, graceOver, relinkOk, deferral,
                   pendingPublish, announced, gen, valueVars,
                   todo, taken, alarm, worldVars, countVars>>

\* _sessizlik_yasi against the limit: a sleeping device is read as it is.
CheckSilence(w) ==
    /\ At(w, "silence")
    /\ IF silent
         THEN Goto(w, "giveup") /\ UNCHANGED todo
         ELSE Goto(w, "peek") /\ todo' = [todo EXCEPT ![w] = Point]
    /\ UNCHANGED <<policy, linkVars, valueVars, taken, alarm, worldVars, countVars>>

\* smart_idle_to_lost.
GiveUp(w) ==
    /\ At(w, "giveup") /\ Goto(w, "state")
    /\ IF idle
         THEN idle' = FALSE /\ evidence' = FALSE /\ state' = "lost"
         ELSE UNCHANGED <<idle, evidence, state>>
    /\ UNCHANGED <<policy, connected, opening, fresh, contacted, silent, graceOver, relinkOk,
                   deferral, pendingPublish, announced, gen, valueVars,
                   todo, taken, alarm, worldVars, countVars>>

\* Where a poll that takes the device for lost goes on.
WhenLost(w) == IF saw[w].connected /\ ~saw[w].stale THEN "relink" ELSE "announce"
\* Where a poll that takes it for recovering goes on.
WhenRecovering == IF Smart THEN "defer" ELSE "announce"

\* The branch of _oku for each state.
WhenIn(w, current) ==
    IF current = "lost" THEN WhenLost(w)
    ELSE IF current = "recovering" THEN "grace"
    ELSE IF current = "smart_idle" THEN "announce"
    ELSE IF saw[w].connected /\ saw[w].stale /\ ~Smart THEN "edge" ELSE "consume"

\* state(): the rest of _oku branches on this copy.
ReadState(w) ==
    /\ At(w, "state") /\ Goto(w, WhenIn(w, state))
    /\ UNCHANGED <<policy, linkVars, valueVars, todo, taken, alarm, worldVars, countVars>>

\* The stale edge: begin_recovery, the link is up and nothing answers.
StaleEdge(w) ==
    /\ At(w, "edge") /\ Goto(w, "grace")
    /\ BeginRecovery
    /\ UNCHANGED <<policy, connected, opening, idle, evidence, fresh, contacted, silent, deferral,
                   announced, gen, valueVars, todo, taken, alarm, worldVars, countVars>>

\* recovery_age, which is 0 once the recovery has ended.
CheckGrace(w) ==
    /\ At(w, "grace")
    /\ Goto(w, IF state = "recovering" /\ graceOver THEN "fail" ELSE WhenRecovering)
    /\ UNCHANGED <<policy, linkVars, valueVars, todo, taken, alarm, worldVars, countVars>>

\* A mistake: the evidence that led nowhere may be used again.
FailAndForget(w) ==
    /\ At(w, "fail") /\ Goto(w, WhenLost(w))
    /\ IF state = "recovering"
         THEN state' = "lost" /\ graceOver' = FALSE /\ pendingPublish' = FALSE
         ELSE UNCHANGED <<state, graceOver, pendingPublish>>
    /\ UNCHANGED <<policy, connected, opening, idle, evidence, fresh, contacted, silent, relinkOk,
                   deferral, announced, gen, valueVars, todo, taken, alarm, worldVars, countVars>>

\* fail_recovery: only evidence that comes later permits another try.
FailRecovery(w) ==
    /\ At(w, "fail") /\ Goto(w, WhenLost(w))
    /\ IF state = "recovering"
         THEN state' = "lost" /\ graceOver' = FALSE /\ pendingPublish' = FALSE /\ relinkOk' = FALSE
         ELSE UNCHANGED <<state, graceOver, pendingPublish, relinkOk>>
    /\ UNCHANGED <<policy, connected, opening, idle, evidence, fresh, contacted, silent, deferral,
                   announced, gen, valueVars, todo, taken, alarm, worldVars, countVars>>

\* relink_izinli, then begin_recovery.
CheckRelink(w) ==
    /\ At(w, "relink") /\ Goto(w, IF relinkOk THEN "restart" ELSE "announce")
    /\ UNCHANGED <<policy, linkVars, valueVars, todo, taken, alarm, worldVars, countVars>>

Restart(w) ==
    /\ At(w, "restart") /\ Goto(w, WhenRecovering)
    /\ BeginRecovery
    /\ UNCHANGED <<policy, connected, opening, idle, evidence, fresh, contacted, silent, deferral,
                   announced, gen, valueVars, todo, taken, alarm, worldVars, countVars>>

\* comm_lost_ertelenebilir: a smart device that wakes gets one grace.
Defer(w) ==
    /\ At(w, "defer")
    /\ deferral' = IF deferral = "none" THEN "running" ELSE deferral
    /\ Goto(w, IF deferral = "over" THEN "announce" ELSE "idle")
    /\ UNCHANGED <<policy, connected, opening, state, idle, evidence, fresh, contacted, silent,
                   graceOver, relinkOk, pendingPublish, announced, gen, valueVars,
                   todo, taken, alarm, worldVars, countVars>>

\* begin_stale_announce: one comm_lost, its token is the generation.
Announce(w) ==
    /\ At(w, "announce")
    /\ IF announced
         THEN Goto(w, "idle") /\ UNCHANGED alarm
         ELSE Goto(w, "publish") /\ alarm' = [alarm EXCEPT ![w] = gen]
    /\ UNCHANGED <<policy, linkVars, valueVars, todo, taken, worldVars, countVars>>

\* consume_recovery_publish.
Consume(w) ==
    /\ At(w, "consume")
    /\ IF pendingPublish
         THEN Goto(w, "reset") /\ UNCHANGED todo
         ELSE Goto(w, "peek") /\ todo' = [todo EXCEPT ![w] = Point]
    /\ pendingPublish' = FALSE
    /\ UNCHANGED <<policy, connected, opening, state, idle, evidence, fresh, contacted, silent,
                   graceOver, relinkOk, deferral, announced, gen, valueVars,
                   taken, alarm, worldVars, countVars>>

\* reset_stale_announce.
ResetAnnounce(w) ==
    /\ At(w, "reset") /\ Goto(w, "redirty")
    /\ announced' = FALSE /\ gen' = gen + 1
    /\ UNCHANGED <<policy, connected, opening, state, idle, evidence, fresh, contacted, silent,
                   graceOver, relinkOk, deferral, pendingPublish, valueVars,
                   todo, taken, alarm, worldVars, countVars>>

\* mark_all_dirty, after a recovery.
Redirty(w) ==
    /\ At(w, "redirty") /\ Goto(w, "peek")
    /\ todo' = [todo EXCEPT ![w] = Point]
    /\ MarkAllDirty
    /\ UNCHANGED <<policy, linkVars, value, rank, size, taken, alarm, shown, countVars>>

\* peek_if_dirty for one signal; nothing to publish ends the poll.
Peek(w, p) ==
    /\ At(w, "peek") /\ p \in todo[w]
    /\ todo' = [todo EXCEPT ![w] = @ \ {p}]
    /\ taken' = [taken EXCEPT ![w] = IF p \in dirty \cap Cached
                   THEN @ \cup {[point |-> p, value |-> value[p],
                                 version |-> version[p], master |-> rebuilds]}
                   ELSE @]
    /\ Goto(w, IF todo'[w] # {} THEN "peek" ELSE IF taken'[w] # {} THEN "publish" ELSE "idle")
    /\ UNCHANGED <<policy, linkVars, valueVars, alarm, worldVars, countVars>>

-----------------------------------------------------------------------------
(* The poll: poll_device after read_device.                                *)

\* publish_batch returns: the broker or the outbox has every reading.
Publish(w) ==
    /\ At(w, "publish") /\ Goto(w, "commit")
    /\ shown' = IF alarm[w] # NoAlarm
                  THEN [p \in Point |-> Lost]
                  ELSE [p \in Point |-> IF \E r \in taken[w] : r.point = p
                                          THEN (CHOOSE r \in taken[w] : r.point = p).value
                                          ELSE shown[p]]
    /\ sent' = sent \cup {p \in Point : \E r \in taken[w] :
                            r.point = p /\ r.version = version[p] /\ r.master = rebuilds}
    /\ UNCHANGED <<policy, linkVars, valueVars, todo, taken, alarm, countVars>>

\* A mistake: the exception is swallowed and the batch committed.
PublishFailsUnseen(w) ==
    /\ At(w, "publish") /\ Goto(w, "commit")
    /\ faults < MaxFaults
    /\ faults' = faults + 1
    /\ UNCHANGED <<policy, linkVars, valueVars, todo, taken, alarm, worldVars,
                   writes, opens, refreshes, rebuilds>>

\* publish_batch raises: nothing is confirmed, the points stay dirty.
PublishFails(w) ==
    /\ At(w, "publish") /\ Goto(w, "idle")
    /\ faults < MaxFaults
    /\ taken' = [taken EXCEPT ![w] = {}]
    /\ alarm' = [alarm EXCEPT ![w] = NoAlarm]
    /\ faults' = faults + 1
    /\ UNCHANGED <<policy, linkVars, valueVars, todo, worldVars,
                   writes, opens, refreshes, rebuilds>>

\* A mistake: the version in the token is not compared.
ClearedAnyVersion(w) == {p \in dirty : \E r \in taken[w] : r.point = p}

\* Points that the tokens of a batch clear.
Cleared(w) == {p \in dirty : \E r \in taken[w] : r.point = p /\ r.version = version[p]}

\* commit_published: confirm_stale_announced or, for values, the cache's own.
Commit(w) ==
    /\ At(w, "commit") /\ Goto(w, "idle")
    /\ announced' = (announced \/ alarm[w] = gen)
    /\ dirty' = dirty \ Cleared(w)
    /\ taken' = [taken EXCEPT ![w] = {}]
    /\ alarm' = [alarm EXCEPT ![w] = NoAlarm]
    /\ UNCHANGED <<policy, connected, opening, state, idle, evidence, fresh, contacted, silent,
                   graceOver, relinkOk, deferral, pendingPublish, gen,
                   value, rank, size, version, seq, todo, worldVars, countVars>>

-----------------------------------------------------------------------------
PollStep(w) ==
    \/ PollStart(w) \/ ReadEvidence(w)
    \/ CheckSleep(w) \/ EnterSleep(w) \/ CheckSilence(w) \/ GiveUp(w)
    \/ ReadState(w) \/ StaleEdge(w) \/ CheckGrace(w) \/ FailRecovery(w)
    \/ CheckRelink(w) \/ Restart(w) \/ Defer(w) \/ Announce(w)
    \/ Consume(w) \/ ResetAnnounce(w) \/ Redirty(w) \/ \E p \in Point : Peek(w, p)
    \/ Publish(w) \/ PublishFails(w) \/ Commit(w)

\* Whatever the device does itself.
Speaks ==
    \/ OpenLink \/ Evidence
    \/ \E p \in Point, v \in Value : Measure(p, v) \/ Confirm(p, v)

Next ==
    \/ Speaks \/ BeginAfterOpen \/ CloseLink
    \/ EvidenceAges \/ GraceEnds \/ DeferralEnds \/ SilenceGrows
    \/ Refresh \/ Rebuild
    \/ \E w \in Poller : PollStep(w)

Spec == Init /\ [][Next]_vars

\* The scheduler polls the device again and again, a callback that began goes
\* on, and clocks advance.  The device and its link owe nothing.
Fairness ==
    /\ \A w \in Poller : WF_vars(PollStep(w))
    /\ WF_vars(BeginAfterOpen)
    /\ WF_vars(GraceEnds)
    /\ WF_vars(DeferralEnds)

FairSpec == Spec /\ Fairness

-----------------------------------------------------------------------------
Stages == {"idle", "evidence", "sleep", "enter", "silence", "giveup", "state", "edge",
           "grace", "fail", "relink", "restart", "defer", "announce",
           "consume", "reset", "redirty", "peek", "publish", "commit"}
States == {"lost", "recovering", "online", "smart_idle"}

LinkTypeOK ==
    /\ policy \in Policies
    /\ connected \in BOOLEAN /\ opening \in BOOLEAN /\ state \in States /\ idle \in BOOLEAN
    /\ evidence \in BOOLEAN /\ fresh \in BOOLEAN /\ contacted \in BOOLEAN /\ silent \in BOOLEAN
    /\ graceOver \in BOOLEAN /\ relinkOk \in BOOLEAN
    /\ deferral \in {"none", "running", "over"}
    /\ pendingPublish \in BOOLEAN /\ announced \in BOOLEAN /\ gen \in Nat

CacheTypeOK ==
    /\ value \in [Point -> Value \cup {NoValue}]
    /\ rank \in [Point -> Nat] /\ size \in Nat
    /\ dirty \subseteq Cached
    /\ version \in [Point -> Nat] /\ seq \in Nat

PollTypeOK ==
    /\ pc \in [Poller -> Stages]
    /\ saw \in [Poller -> [connected: BOOLEAN, stale: BOOLEAN]]
    /\ todo \in [Poller -> SUBSET Point]
    /\ taken \in [Poller -> SUBSET Reading]
    /\ alarm \in [Poller -> Nat \cup {NoAlarm}]

WorldTypeOK ==
    /\ shown \in [Point -> Value \cup {NoValue, Lost}]
    /\ sent \subseteq Point
    /\ writes \in Nat /\ opens \in Nat /\ refreshes \in Nat /\ faults \in Nat /\ rebuilds \in Nat

\* Types of the variables; only cached points are ever marked dirty, because
\* the dirty set is cleaned point by point and nothing else would empty it.
TypeOK == LinkTypeOK /\ CacheTypeOK /\ PollTypeOK /\ WorldTypeOK

\* A point that is not dirty has its current version, that is the value of its
\* last change or re-announcement, durably published: no interleaving of the IO
\* thread with polls whose publishing may fail loses a change for good
\* (peek_if_dirty, commit_published).
CleanWasPublished == rebuilds = 0 => \A p \in Cached : p \notin dirty => p \in sent

\* A point shown as lost on a device that is online waits to be published:
\* whatever order the recovery, the comm_lost in flight and its confirmation
\* come in, the point does not stay lost (set, mark_all_dirty).
LostIsRepaired ==
    rebuilds = 0 => \A p \in Cached : shown[p] = Lost /\ state = "online" => p \in dirty

\* On a device that stays online the collector ends up with every point's
\* current value, publications that raised included.
EventuallyShown ==
    <>[](state = "online" /\ rebuilds = 0) => <>[](\A p \in Cached : shown[p] = value[p])

\* A smart device that stays silent beyond the limit does not pass for asleep
\* for ever, nor fall asleep again without having been heard.
SilentIsLost == <>[]silent => <>[](state # "smart_idle")

\* A device that gives no more evidence settles: the same old evidence does not
\* drive it from lost to recovering and back for ever (relink_izinli).  A device
\* put to sleep while it was waking is left out: its polls look no further.
MuteSettles ==
    <>[][~Speaks]_vars => <>[](state # "recovering" \/ idle)

\* The flag that makes comm_lost be published once, and only once, per outage:
\* when no poll is under way on a lost device whose outage is announced, the
\* collector shows every point of it as lost (comment on _stale_announced).
LostIsShown ==
    (\A w \in Poller : pc[w] = "idle") /\ state = "lost" /\ announced
      => \A p \in Point : shown[p] = Lost

=============================================================================
