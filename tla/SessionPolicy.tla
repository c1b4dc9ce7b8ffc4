---------------------------- MODULE SessionPolicy ----------------------------
(***************************************************************************)
(* The master of one device and the policy it runs under.  A device that   *)
(* is configured continuous is scanned, a smart one is left alone so that  *)
(* its modem can sleep, and an auto one is scanned or left alone as its    *)
(* point Operation Mode says (_auto_politikayi_coz).  A scan can be added  *)
(* to a master but not removed, hence the master is shut down and built    *)
(* anew; a lost device whose connection seems open is asked a few times    *)
(* and then its master is shut down too (_kopuk_cihazi_yokla).  Mode and   *)
(* sleep are kept over a restart in the session state store.               *)
(*                                                                         *)
(* What a poll publishes, and its interleaving with the callbacks call by  *)
(* call, is DevicePublishing: here a poll reads the link, then classifies  *)
(* the device, reads its strings, looks whether it sleeps, judges its      *)
(* state, asks it or relinks it, and records it, with callbacks and the    *)
(* clock in between.                                                       *)
(***************************************************************************)
EXTENDS Naturals, SessionStore

CONSTANTS
    Endpoints,      \* who opens the connection: "listening", "initiating"
    Policies,       \* policies that may be configured
    RelinkAfter,    \* _lost_relink_after_probes
    MaxEvents       \* bound of the model: events the gateway does not decide on

ASSUME SessionAssumption ==
    /\ Endpoints \subseteq {"listening", "initiating"}
    /\ Policies \subseteq {"continuous", "smart", "auto"}
    /\ RelinkAfter \in Nat /\ MaxEvents \in Nat

VARIABLES
    endpoint,       \* ip_endpoint_type
    texts,          \* the device has string points (g110_ranges)
    wanted,         \* the configured policy
    silent,         \* nothing was heard of the device for the silence limit
    master,         \* _masters[device]: its policy and what it knows
    cache,          \* the cache of that master
    known,          \* _bilinen_auto_mod[device]
    tries,          \* lost probes since the device was last heard
    due,            \* the last probe is an interval ago
    hold,           \* the link, a command or the last relink is too young to relink
    pc, saw,        \* where the poll is, and the link as it read it
    asks,           \* history: integrity polls sent to a smart device in this connection
    refreshes,      \* history: those of them an operator asked for
    reads,          \* history: reads of its strings in this connection
    owed,           \* history: an orderly stop left a sleeping device in the file
    changed,        \* history: a configuration has changed the device
    events          \* bounded events so far

procVars == <<known, tries, due, hold>>
pollVars == <<pc, saw>>
askVars == <<asks, refreshes, reads>>
ghostVars == <<askVars, owed, changed>>
worldVars == <<endpoint, texts, wanted, silent>>
vars == <<worldVars, master, cache, procVars, pollVars, ghostVars, events, storeVars>>

Unknown == "unknown"
Modes == {"smart", "boost"}

\* _oturum_durumunu_kur: the policy a master starts with.
StartPolicy(configured, mode) ==
    IF configured = "auto" THEN (IF mode = "boost" THEN "continuous" ELSE "smart")
    ELSE configured

\* since: auto_connected_since, of which the code asks whether it is set and
\* whether the window is over.
NewMaster(configured, mode) ==
    [up |-> TRUE, configured |-> configured, policy |-> StartPolicy(configured, mode),
     mode |-> mode, fallback |-> FALSE, since |-> "unset", asked |-> FALSE]
NoMaster == [NewMaster("continuous", Unknown) EXCEPT !.up = FALSE]

\* aged: _sessizlik_yasi exceeds the limit.  strings: they are wanted and no read
\* was tried (_g110_bekliyor, _g110_deneme).
NewCache(asleep) ==
    [connected |-> FALSE, evidence |-> FALSE, fresh |-> FALSE, aged |-> FALSE,
     asleep |-> asleep, point |-> Unknown, strings |-> FALSE,
     state |-> IF asleep THEN "smart_idle" ELSE "lost"]

\* Connections, readings of the mode, configurations, restarts,
\* commands and faults are bounded together.
Happens == events < MaxEvents /\ events' = events + 1

Init ==
    /\ endpoint \in Endpoints /\ texts \in BOOLEAN /\ wanted \in Policies
    /\ silent = FALSE
    /\ master = NoMaster /\ cache = NewCache(FALSE)
    /\ known = Unknown /\ tries = 0 /\ due = TRUE /\ hold = FALSE
    /\ pc = "start" /\ saw = FALSE
    /\ asks = 0 /\ refreshes = 0 /\ reads = 0
    /\ owed = FALSE /\ changed = FALSE /\ events = 0
    /\ memory = NoRecord /\ file = NoRecord /\ dirty = FALSE

-----------------------------------------------------------------------------
(* The device, its link and the clock.                                     *)

\* Where a connection begins or ends, nothing was asked in it.
NothingAsked == asks' = 0 /\ refreshes' = 0 /\ reads' = 0

\* OnOpen, which wants the strings, where there are any, read once more.
Open ==
    /\ master.up /\ ~cache.connected /\ Happens
    /\ cache' = [cache EXCEPT !.connected = TRUE, !.evidence = FALSE, !.asleep = FALSE,
                              !.strings = texts, !.state = "recovering"]
    /\ hold' = TRUE
    /\ NothingAsked
    /\ UNCHANGED <<worldVars, master, known, tries, due, pollVars, owed, changed, storeVars>>

\* The cache when its link closes: a smart session with evidence ends in sleep.
AfterClose(c, policy) ==
    LET asleep == c.asleep \/ (policy = "smart" /\ c.evidence) IN
    [c EXCEPT !.connected = FALSE, !.fresh = FALSE, !.asleep = asleep, !.strings = FALSE,
              !.state = IF asleep THEN "smart_idle" ELSE "lost"]

\* OnClose.
Close ==
    /\ cache.connected
    /\ cache' = AfterClose(cache, master.policy)
    /\ NothingAsked
    /\ UNCHANGED <<worldVars, master, procVars, pollVars, owed, changed, events, storeVars>>

\* The device answers, with or without a measurement.
Heard(c) == [c EXCEPT !.evidence = TRUE, !.fresh = TRUE, !.aged = FALSE]

Answer ==
    /\ cache.connected
    /\ \E measured \in BOOLEAN :
         cache' = [Heard(cache) EXCEPT
                     !.state = IF measured /\ @ = "recovering" THEN "online" ELSE @]
    /\ silent' = FALSE
    /\ UNCHANGED <<endpoint, texts, wanted, master, procVars, pollVars, ghostVars, events,
                   storeVars>>

\* The device reports its mode, which it changes as it likes.
Report(mode) ==
    /\ cache.connected /\ Happens
    /\ cache' = [Heard(cache) EXCEPT !.point = mode,
                                     !.state = IF @ = "recovering" THEN "online" ELSE @]
    /\ silent' = FALSE
    /\ UNCHANGED <<endpoint, texts, wanted, master, procVars, pollVars, ghostVars, storeVars>>

\* Time passes for one of the things that are compared with it.
EvidenceAges ==
    /\ cache.fresh
    /\ cache' = [cache EXCEPT !.fresh = FALSE]
    /\ UNCHANGED <<worldVars, master, procVars, pollVars, ghostVars, events, storeVars>>

\* The limit is measured from the last contact, or from the new master that
\* knows of none: that one waits for it once more.
SilenceGrows ==
    /\ wanted # "continuous"
    /\ ~silent \/ (master.up /\ ~cache.aged)
    /\ silent' = TRUE
    /\ cache' = [cache EXCEPT !.aged = master.up]
    /\ UNCHANGED <<endpoint, texts, wanted, master, procVars, pollVars, ghostVars, events,
                   storeVars>>

WindowEnds ==
    /\ master.since = "running"
    /\ master' = [master EXCEPT !.since = "over"]
    /\ UNCHANGED <<worldVars, cache, procVars, pollVars, ghostVars, events, storeVars>>

ProbeDue ==
    /\ ~due /\ due' = TRUE
    /\ UNCHANGED <<worldVars, master, cache, known, tries, hold,
                   pollVars, ghostVars, events, storeVars>>

\* The link, the last command and the last relink are old enough.
HoldEnds ==
    /\ hold /\ hold' = FALSE
    /\ UNCHANGED <<worldVars, master, cache, known, tries, due,
                   pollVars, ghostVars, events, storeVars>>

\* operate_crob, in the command thread: it marks its begin before anything else.
Command ==
    /\ master.up /\ Happens
    /\ hold' = TRUE
    /\ UNCHANGED <<worldVars, master, cache, known, tries, due,
                   pollVars, ghostVars, storeVars>>

\* refresh_all_devices, when an operator wants all devices to be read: a smart one
\* is polled like any other.
RefreshAll ==
    /\ master.up /\ cache.connected /\ Happens
    /\ IF master.policy = "smart"
         THEN asks' = asks + 1 /\ refreshes' = refreshes + 1
         ELSE UNCHANGED <<asks, refreshes>>
    /\ UNCHANGED <<worldVars, master, cache, procVars, pollVars, reads, owed, changed,
                   storeVars>>

-----------------------------------------------------------------------------
(* Configurations, and the end of the process.                             *)

\* A configuration changes the policy of the device.
Reconfigure ==
    /\ Happens
    /\ wanted' \in Policies \ {wanted}
    /\ owed' = FALSE /\ changed' = TRUE
    /\ UNCHANGED <<endpoint, texts, silent, master, cache, procVars, pollVars, askVars,
                   storeVars>>

\* forget_devices: a configuration without the device ends its master and its
\* record; what is known of its mode stays.
Forget ==
    /\ pc = "start" /\ Happens
    /\ master' = NoMaster /\ cache' = NewCache(FALSE)
    /\ owed' = FALSE /\ changed' = TRUE
    /\ IF memory.there THEN Flush(NoRecord, TRUE, "written") ELSE UNCHANGED storeVars
    /\ UNCHANGED <<worldVars, procVars, pollVars, askVars>>

\* A new process: it knows what the file holds.
NewProcess ==
    /\ master' = NoMaster /\ cache' = NewCache(FALSE)
    /\ known' = file'.mode
    /\ tries' = 0 /\ due' = TRUE /\ hold' = FALSE
    /\ pc' = "start" /\ saw' = FALSE
    /\ UNCHANGED <<worldVars, changed>>

Crash ==
    /\ Happens
    /\ Load(file)
    /\ NewProcess
    /\ NothingAsked /\ owed' = FALSE

\* close writes the store whatever the time of the last write; then a new start.
Stop ==
    /\ pc = "start" /\ Happens
    /\ Load(IF dirty THEN memory ELSE file)
    /\ NewProcess
    /\ NothingAsked
    /\ owed' = (memory.asleep /\ (wanted = "smart" \/ (wanted = "auto" /\ memory.mode # "boost")))

-----------------------------------------------------------------------------
(* The poll: _ensure_master.                                               *)

At(stage) == pc = stage
Goto(stage) == pc' = stage

\* A master of the present configuration is there.
Fits == master.up /\ master.configured = wanted

\* The new master, and what _durumu_geri_yukle adds to it: for an auto device
\* the mode that was recorded, after the policy was chosen by the known mode.
StartMaster(mode) ==
    /\ master' = [NewMaster(wanted, known) EXCEPT !.mode = mode]
    /\ known' = IF wanted = "auto" THEN mode ELSE known

\* A device that was asleep is asleep, unless the limit has passed meanwhile.
Restored(record, policy) == policy = "smart" /\ record.asleep /\ ~silent

Build ==
    /\ At("start") /\ ~Fits
    /\ StartMaster(IF wanted = "auto" /\ memory.mode # Unknown THEN memory.mode ELSE known)
    /\ cache' = NewCache(Restored(memory, master'.policy))
    /\ owed' = FALSE /\ NothingAsked
    /\ UNCHANGED <<worldVars, tries, due, hold, pollVars, changed, events, storeVars>>

\* The listener cannot be opened: the device has no master until the next poll.
BuildFails ==
    /\ At("start") /\ ~Fits /\ endpoint = "initiating"
    /\ Happens
    /\ master' = NoMaster /\ cache' = NewCache(FALSE)
    /\ UNCHANGED <<worldVars, procVars, pollVars, ghostVars, storeVars>>

\* is_connected: the poll goes on with this copy.
ReadLink ==
    /\ At("start") /\ Fits /\ Goto("classify")
    /\ saw' = cache.connected
    /\ UNCHANGED <<worldVars, master, cache, procVars, ghostVars, events, storeVars>>

-----------------------------------------------------------------------------
(* The poll: _auto_politikayi_coz.                                         *)

\* On with _oku: its strings are read where the device has any and is reached.
GotoStrings == Goto(IF saw /\ texts THEN "strings" ELSE "sleep")

\* request_integrity_poll.
Ask == asks' = IF master.policy = "smart" THEN asks + 1 ELSE asks

\* _masteri_dusur: the next poll builds a master; this one records what it has.
Drop(m, c) ==
    /\ master' = [m EXCEPT !.up = FALSE]
    /\ cache' = [c EXCEPT !.connected = FALSE, !.fresh = FALSE]
    /\ Goto("record")

\* enable_periodic_scans: a silent master is scanned from now on; where scans
\* cannot be added, or are there already, the master is dropped instead.
ScanOrDrop(m, c) ==
    \/ /\ m.policy = "smart"
       /\ master' = [m EXCEPT !.policy = "continuous"]
       /\ cache' = c
       /\ GotoStrings
       /\ UNCHANGED events
    \/ /\ IF m.policy = "smart" THEN Happens ELSE UNCHANGED events
       /\ Drop(m, c)

Observed(m, mode) == [m EXCEPT !.mode = mode, !.fallback = FALSE]

\* Nothing to classify: the policy is given, or the mode is the known one.
ClassifyNothing ==
    /\ At("classify") /\ GotoStrings
    /\ \/ /\ master.configured # "auto"
          /\ master' = [master EXCEPT !.mode = IF cache.point # Unknown THEN cache.point ELSE @]
       \/ /\ master.configured = "auto" /\ cache.point # Unknown /\ cache.point = master.mode
          /\ UNCHANGED master
    /\ UNCHANGED <<worldVars, cache, procVars, saw, ghostVars, events, storeVars>>

\* The device says a new mode.
Differs(mode) == At("classify") /\ master.configured = "auto"
                 /\ cache.point = mode /\ master.mode # mode

\* A mistake: the scans of a device that went to sleep mode stay.
ObserveSmartOnly ==
    /\ Differs("smart") /\ GotoStrings
    /\ master' = Observed(master, "smart")
    /\ known' = "smart"
    /\ UNCHANGED <<worldVars, cache, tries, due, hold, saw, ghostVars, events, storeVars>>

\* _auto_modu_uygula, smart: scans can only be ended with their master.
ObserveSmart ==
    /\ Differs("smart")
    /\ IF master.policy = "smart"
         THEN /\ master' = Observed(master, "smart")
              /\ GotoStrings
              /\ UNCHANGED <<cache, known>>
         ELSE /\ Drop(Observed(master, "smart"), cache)
              /\ known' = "smart"
    /\ UNCHANGED <<worldVars, tries, due, hold, saw, ghostVars, events, storeVars>>

\* _auto_modu_uygula, boost: the device is not expected to sleep any more.
ObserveBoost ==
    /\ Differs("boost")
    /\ ScanOrDrop(Observed(master, "boost"), [cache EXCEPT !.asleep = FALSE])
    /\ known' = "boost"
    /\ UNCHANGED <<worldVars, tries, due, hold, saw, ghostVars, storeVars>>

Unclassified == At("classify") /\ master.configured = "auto" /\ cache.point = Unknown

\* The time without a mode counts only while the device is connected.
WaitForLink ==
    /\ Unclassified /\ ~saw /\ Goto("sleep")
    /\ master' = [master EXCEPT !.since = "unset", !.asked = FALSE]
    /\ UNCHANGED <<worldVars, cache, procVars, saw, ghostVars, events, storeVars>>

\* A mistake: the device is asked in every poll.
AskAgain ==
    /\ Unclassified /\ saw /\ master.since = "unset" /\ GotoStrings
    /\ master' = [master EXCEPT !.asked = TRUE]
    /\ IF endpoint = "listening" THEN Ask ELSE UNCHANGED asks
    /\ UNCHANGED <<worldVars, cache, procVars, saw, refreshes, reads, owed, changed, events,
                   storeVars>>

\* A listening device is asked once for its mode; an initiating one never.
AskMode ==
    /\ Unclassified /\ saw /\ master.since = "unset" /\ GotoStrings
    /\ LET asking == endpoint = "listening" /\ ~master.asked IN
       /\ master' = [master EXCEPT !.since = "running", !.asked = @ \/ asking]
       /\ IF asking THEN Ask ELSE UNCHANGED asks
    /\ UNCHANGED <<worldVars, cache, procVars, saw, refreshes, reads, owed, changed, events,
                   storeVars>>

AwaitMode ==
    /\ Unclassified /\ saw /\ GotoStrings
    /\ master.since = "running" \/ (master.since = "over" /\ master.fallback)
    /\ UNCHANGED <<worldVars, master, cache, procVars, saw, ghostVars, events, storeVars>>

\* The window is over without a mode: the device is scanned.
FallBack ==
    /\ Unclassified /\ saw /\ master.since = "over" /\ ~master.fallback
    /\ ScanOrDrop([master EXCEPT !.fallback = TRUE], cache)
    /\ UNCHANGED <<worldVars, procVars, saw, ghostVars, storeVars>>

-----------------------------------------------------------------------------
(* The poll: the strings (G110) of the device, in _oku.                    *)

Smart == master.policy = "smart"

\* scan_g110_once, by g110_gerekli: the first try in a connection, and the only
\* one under the smart policy.  The further ones a scanned device gets change
\* nothing here.
ReadStrings ==
    /\ At("strings") /\ Goto("sleep")
    /\ cache.strings
    /\ cache' = [cache EXCEPT !.strings = FALSE]
    /\ reads' = IF Smart THEN reads + 1 ELSE reads
    /\ UNCHANGED <<worldVars, master, procVars, saw, asks, refreshes, owed, changed, events,
                   storeVars>>

\* They are not wanted (any more), or came with an answer already.
SkipStrings ==
    /\ At("strings") /\ Goto("sleep")
    /\ cache.strings => cache.evidence
    /\ cache' = [cache EXCEPT !.strings = FALSE]
    /\ UNCHANGED <<worldVars, master, procVars, saw, ghostVars, events, storeVars>>

-----------------------------------------------------------------------------
(* The poll: _smart_idle_denetle and the state of the device.              *)

\* A device that is scanned never sleeps here.
SkipSleep ==
    /\ At("sleep") /\ ~Smart /\ Goto("judge")
    /\ UNCHANGED <<worldVars, master, cache, procVars, saw, ghostVars, events, storeVars>>

\* A listening device that cannot be reached falls asleep; one that slept
\* through the limit is lost; one that sleeps is only recorded.
CheckSleep ==
    /\ At("sleep") /\ Smart
    /\ LET enters == ~cache.asleep /\ endpoint = "listening" /\ ~saw /\ ~cache.aged
           lost == cache.asleep /\ cache.aged IN
       /\ cache' = IF enters THEN [cache EXCEPT !.asleep = TRUE, !.state = "smart_idle"]
                   ELSE IF lost THEN [cache EXCEPT !.asleep = FALSE, !.evidence = FALSE,
                                                   !.state = "lost"]
                   ELSE cache
       /\ Goto(IF cache'.asleep THEN "record" ELSE "judge")
    /\ UNCHANGED <<worldVars, master, procVars, saw, ghostVars, events, storeVars>>

\* The state after the rules of _oku: over is whether a grace has passed.
Judged(over) ==
    LET stale == IF saw /\ ~cache.fresh /\ cache.state = "online" /\ ~Smart
                   THEN "recovering" ELSE cache.state
        kept == IF stale = "recovering" /\ over THEN "lost" ELSE stale
    IN  IF kept = "lost" /\ saw /\ cache.fresh THEN "recovering" ELSE kept

\* A mistake: an open link is enough to forget the probes.
JudgeByLink ==
    /\ At("judge")
    /\ \E over \in BOOLEAN : cache' = [cache EXCEPT !.state = Judged(over)]
    /\ tries' = (IF saw THEN 0 ELSE tries) /\ UNCHANGED due
    /\ Goto(IF cache'.state = "lost" /\ saw /\ ~Smart THEN "probe" ELSE "record")
    /\ UNCHANGED <<worldVars, master, known, hold, saw, ghostVars, events, storeVars>>

\* A device that was heard has its probes forgotten; a lost one is probed.
Judge ==
    /\ At("judge")
    /\ \E over \in BOOLEAN : cache' = [cache EXCEPT !.state = Judged(over)]
    /\ LET well == (saw /\ cache.fresh) \/ cache'.state = "online" IN
       /\ tries' = IF well THEN 0 ELSE tries
       /\ due' = (due \/ well)
    /\ Goto(IF cache'.state = "lost" /\ saw /\ ~Smart THEN "probe" ELSE "record")
    /\ UNCHANGED <<worldVars, master, known, hold, saw, ghostVars, events, storeVars>>

-----------------------------------------------------------------------------
(* The poll: _kopuk_cihazi_yokla.                                          *)

NotYet ==
    /\ At("probe") /\ ~due /\ Goto("record")
    /\ UNCHANGED <<worldVars, master, cache, procVars, saw, ghostVars, events, storeVars>>

Probe ==
    /\ At("probe") /\ due
    /\ due' = FALSE
    /\ tries' = tries + 1
    /\ IF tries' <= RelinkAfter THEN Ask /\ Goto("record") ELSE UNCHANGED asks /\ Goto("relink")
    /\ UNCHANGED <<worldVars, master, cache, known, hold, saw, refreshes, reads, owed, changed,
                   events, storeVars>>

\* _relink_denemesini_geri_al: a new link, a command or a recent relink puts
\* the relink off to the next probe.
Defer ==
    /\ At("relink") /\ Goto("record")
    /\ hold
    /\ tries' = RelinkAfter
    /\ UNCHANGED <<worldVars, master, cache, known, due, hold, saw,
                   ghostVars, events, storeVars>>

Relink ==
    /\ At("relink")
    /\ ~hold
    /\ Drop(master, cache)
    /\ tries' = 0 /\ due' = TRUE /\ hold' = TRUE
    /\ UNCHANGED <<worldVars, known, saw, ghostVars, events, storeVars>>

-----------------------------------------------------------------------------
\* _cihaz_durumunu_kaydet, on every way out of the poll: what changed is
\* recorded and, now or later, written.
Record ==
    /\ At("record") /\ Goto("start") /\ saw' = FALSE
    /\ IF ~Smart /\ master.configured # "auto"
         THEN UNCHANGED <<storeVars, events>>
         ELSE LET record == RecordOf(master.mode, cache.asleep)
                  mark == dirty \/ record # memory IN
              \E outcome \in FlushOutcomes(record, mark) :
                /\ IF outcome = "failed" THEN Happens ELSE UNCHANGED events
                /\ Flush(record, mark, outcome)
    /\ UNCHANGED <<worldVars, master, cache, procVars, ghostVars>>

-----------------------------------------------------------------------------
Poll ==
    \/ Build \/ BuildFails \/ ReadLink
    \/ ClassifyNothing \/ ObserveSmart \/ ObserveBoost
    \/ WaitForLink \/ AskMode \/ AwaitMode \/ FallBack
    \/ ReadStrings \/ SkipStrings
    \/ SkipSleep \/ CheckSleep \/ Judge
    \/ NotYet \/ Probe \/ Defer \/ Relink
    \/ Record

Clock == EvidenceAges \/ SilenceGrows \/ WindowEnds \/ ProbeDue \/ HoldEnds

Next ==
    \/ Poll \/ Clock
    \/ Open \/ Close \/ Answer \/ \E mode \in Modes : Report(mode)
    \/ Command \/ RefreshAll \/ Reconfigure \/ Forget \/ Crash \/ Stop

Spec == Init /\ [][Next]_vars

\* The scheduler polls the device again and again, and time passes.  The device,
\* its link and the operator owe nothing.
Fairness ==
    /\ WF_vars(Poll)
    /\ WF_vars(WindowEnds) /\ WF_vars(ProbeDue) /\ WF_vars(HoldEnds)

FairSpec == Spec /\ Fairness

-----------------------------------------------------------------------------
Stages == {"start", "classify", "strings", "sleep", "judge", "probe", "relink", "record"}

Masters ==
    [up: BOOLEAN, configured: {"continuous", "smart", "auto"}, policy: {"continuous", "smart"},
     mode: Modes \cup {Unknown}, fallback: BOOLEAN,
     since: {"unset", "running", "over"}, asked: BOOLEAN]

Caches ==
    [connected: BOOLEAN, evidence: BOOLEAN, fresh: BOOLEAN, aged: BOOLEAN, asleep: BOOLEAN,
     point: Modes \cup {Unknown}, strings: BOOLEAN,
     state: {"lost", "recovering", "online", "smart_idle"}]

\* Types of the variables; the count of probes is held at its threshold however
\* often a relink is put off (_relink_denemesini_geri_al).
TypeOK ==
    /\ StoreTypeOK
    /\ endpoint \in Endpoints /\ texts \in BOOLEAN /\ wanted \in Policies
    /\ silent \in BOOLEAN
    /\ master \in Masters /\ cache \in Caches
    /\ known \in Modes \cup {Unknown}
    /\ tries \in 0..RelinkAfter + 1
    /\ due \in BOOLEAN /\ hold \in BOOLEAN
    /\ pc \in Stages /\ saw \in BOOLEAN
    /\ asks \in Nat /\ refreshes \in Nat /\ reads \in Nat
    /\ owed \in BOOLEAN /\ changed \in BOOLEAN /\ events \in Nat

\* In a connection a smart device gets at most one integrity poll the operator did
\* not ask for, and at most one read of its strings, whatever the polls see of the
\* link, of its mode and of its values: every question keeps its modem awake
\* (_auto_politikayi_coz, _oku).  Commands are the operator's too; what opendnp3
\* does by itself when a connection opens is not counted.
AskedOnce == asks <= refreshes + 1 /\ reads <= 1

\* An orderly stop loses no sleeping device, earlier failed writes included: the
\* first master of the next process finds it asleep, and no false comm_lost is
\* published (SessionStateStore.flush, _durumu_geri_yukle).
SleepSurvives ==
    [][~master.up /\ master'.up /\ owed /\ ~silent => cache'.asleep]_vars

\* The policy of an auto device that stays connected and says its mode.
SaysMode(mode) == wanted = "auto" /\ cache.connected /\ cache.point = mode

Follows(mode) == master.policy = StartPolicy("auto", mode)

\* An auto device that says its mode ends up under the policy of that mode, as
\* long as its configured policy was not changed and a smart one has not been
\* given up as unclassified (_auto_modu_uygula).
ChangeIsFollowed ==
    \A mode \in Modes :
        <>[](SaysMode(mode) /\ ~changed /\ ~(master.fallback /\ mode = "smart"))
          => <>[]Follows(mode)

\* The connection of a scanned device that says nothing any more does not stay:
\* probes and put off relinks end in a new one (_kopuk_cihazi_yokla).
HalfOpen ==
    master.up /\ cache.connected /\ ~cache.fresh /\ cache.state = "lost" /\ ~Smart

HalfOpenIsReplaced == HalfOpen ~> ~HalfOpen

=============================================================================
