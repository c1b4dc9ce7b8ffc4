----------------------------- MODULE ConfigSync -----------------------------
(***************************************************************************)
(* How a configuration, and the operator's "read all devices", get from the*)
(* backend into the gateway.                                               *)
(*                                                                         *)
(* Actors:                                                                 *)
(*   - the config thread (main._run_config_refresh): fetch_config with a   *)
(*     conditional request, state.update, the file cache, then a wait that *)
(*     config_wake cuts short, or a backoff that nothing cuts short;       *)
(*   - the command poll (main._run_command_poll, its nonce part): /pending *)
(*     tells two counters, apply_pending_poll compares them;               *)
(*   - the main loop: take_refresh_request before each cycle;              *)
(*   - the operator and the backend (external): edits and triggers, the    *)
(*     answers, ETag = config_version = a hash of the payload.  Whether the*)
(*     hash covers the counters is not said anywhere: `hashed` is either.  *)
(*                                                                         *)
(* An answer may be lost, altered (its signature does not fit) or hold a   *)
(* payload the parser refuses; the process may die at any point and starts *)
(* from the file cache.  The cache holds what the parser once made of a    *)
(* payload and is loaded without it, while the operator may have changed   *)
(* the allowed subnets in between: a configuration says under which subnets*)
(* it was parsed.                                                          *)
(***************************************************************************)
EXTENDS ConfigParse

CONSTANTS
    Name,           \* names of the payloads the backend may publish
    Payload,        \* Name -> payload
    None,           \* nothing
    MaxEdits,       \* bound on new payloads (model only)
    MaxTriggers,    \* bound on operator triggers (model only)
    MaxFaults,      \* bound on lost or altered answers and failed writes (model only)
    MaxCrashes      \* bound on process deaths (model only)

\* A version is a hash: equal for equal things.
Versions == Name \X Nat \X Nat
Configs == [name : Name, version : Versions, cn : Nat, rn : Nat, under : Settings]

ASSUME SyncAssumption ==
    /\ DOMAIN Payload = Name /\ \A n \in Name : IsPayload(Payload[n])
    /\ None \notin Name \cup Versions \cup Configs
    /\ {MaxEdits, MaxTriggers, MaxFaults, MaxCrashes} \subseteq Nat

VARIABLES
    \* the backend
    content,        \* the name of the published payload
    cn, rn,         \* config_nonce, refresh_nonce
    hashed,         \* is the version a hash of the counters too?
    \* the operator's settings, read once by a process
    subnets,        \* DNP3_DEVICE_ALLOWED_SUBNETS
    \* the client of the config thread
    etag,           \* _last_etag
    last,           \* _last_config
    \* the config thread
    cpc,            \* next step
    reply,          \* the answer in flight
    \* GatewayState
    adopted,        \* the configuration: _config_version, _devices, _signals...
    rNonce, rPending, cNonce, cPending,
    \* elsewhere in the process
    wake,           \* config_wake
    ppc,            \* next step of the command poll
    told,           \* the counters /pending told
    \* the disk
    cache,          \* the file cache
    \* history
    owed,           \* an operator trigger no read of all devices has followed
    lost,           \* that trigger died with a process that had stored its counter
                   edits, triggers, faults, crashes

backendVars == <<content, cn, rn, hashed>>
clientVars  == <<etag, last>>
configVars  == <<cpc, reply>>
stateVars   == <<adopted, rNonce, rPending, cNonce, cPending>>
pollVars    == <<ppc, told>>
steadyVars  == <<subnets, owed, lost>>
countVars   == <<edits, triggers, faults, crashes>>
vars == <<backendVars, clientVars, configVars, stateVars, wake, pollVars, cache,
          steadyVars, countVars>>

-----------------------------------------------------------------------------
Version == IF hashed THEN <<content, cn, rn>> ELSE <<content, 0, 0>>

\* What GET /config answers now, and what it will be parsed under.
Current == [name |-> content, version |-> Version, cn |-> cn, rn |-> rn,
            under |-> subnets]

Init ==
    /\ content \in Name /\ cn = 0 /\ rn = 0 /\ hashed \in BOOLEAN
    /\ etag = None /\ last = None
    /\ cpc = "fetch" /\ reply = None
    /\ adopted = None /\ rNonce = 0 /\ rPending = FALSE
    /\ cNonce = 0 /\ cPending = FALSE
    /\ wake = FALSE /\ ppc = "idle" /\ told = None /\ cache = None
    /\ subnets \in Settings
    /\ owed = FALSE /\ lost = FALSE
    /\ edits = 0 /\ triggers = 0 /\ faults = 0 /\ crashes = 0

-----------------------------------------------------------------------------
\* The operator publishes another payload, or asks for all devices to be read.
Edit(n) ==
    /\ edits < MaxEdits /\ edits' = edits + 1
    /\ n # content /\ content' = n /\ cn' = cn + 1
    /\ UNCHANGED <<rn, hashed, clientVars, configVars, stateVars, wake, pollVars,
                   cache, subnets, owed, lost, triggers, faults, crashes>>

Trigger ==
    /\ triggers < MaxTriggers /\ triggers' = triggers + 1
    /\ rn' = rn + 1 /\ owed' = TRUE /\ lost' = FALSE
    /\ UNCHANGED <<content, cn, hashed, clientVars, configVars, stateVars, wake,
                   pollVars, cache, subnets, edits, faults, crashes>>

-----------------------------------------------------------------------------
\* fetch_config: the backend answers, 304 when the ETag sent is its version.
Answer ==
    /\ cpc = "fetch" /\ cpc' = "received"
    /\ reply' = IF last # None /\ etag = Version
                THEN [kind |-> "same", config |-> None]
                ELSE [kind |-> "full", config |-> Current]
    /\ UNCHANGED <<backendVars, clientVars, stateVars, wake, pollVars, cache,
                   steadyVars, countVars>>

\* The answer does not come, or its signature does not fit what arrives: nothing
\* of it is kept.
Refused ==
    /\ cpc = "received" /\ reply.kind = "full"
    /\ faults < MaxFaults /\ faults' = faults + 1
    /\ cpc' = "backoff" /\ reply' = None
    /\ UNCHANGED <<backendVars, clientVars, stateVars, wake, pollVars, cache,
                   steadyVars, edits, triggers, crashes>>

\* A payload becomes a configuration under the subnets of this process; a 304
\* needs no parser.
Usable == reply.kind = "full" => Parses(Payload[reply.config.name], subnets)

\* A mistake: the ETag is stored before the payload is parsed.
EtagTooEarly ==
    /\ cpc = "received" /\ ~Usable
    /\ cpc' = "backoff" /\ reply' = None
    /\ etag' = reply.config.version
    /\ UNCHANGED <<backendVars, last, stateVars, wake, pollVars, cache,
                   steadyVars, countVars>>

\* A payload the parser refuses raises too, with the cached pair untouched.
NotParsed ==
    /\ cpc = "received" /\ ~Usable
    /\ cpc' = "backoff" /\ reply' = None
    /\ UNCHANGED <<backendVars, clientVars, stateVars, wake, pollVars, cache,
                   steadyVars, countVars>>

\* The configuration fetch_config returns.
Fetched == IF reply.kind = "same" THEN last ELSE reply.config

Changed == adopted = None \/ adopted.version # Fetched.version

\* A mistake: the last word on a trigger not yet run is the newest answer's.
ForgetTrigger(new) ==
    /\ rPending' = (new > rNonce)
    /\ rNonce' = new

\* The counter of the operator's triggers, from either channel: a larger one is
\* a trigger, a smaller one is followed.
TakeRefreshNonce(new) ==
    /\ rPending' = (rPending \/ new > rNonce)
    /\ rNonce' = new

\* A mistake: a wake is taken as answered by the fetch that was under way.
UpdateClearsWake ==
    /\ cpc = "received" /\ Usable
    /\ last' = Fetched /\ etag' = Fetched.version
    /\ adopted' = Fetched
    /\ TakeRefreshNonce(Fetched.rn)
    /\ IF Fetched.cn >= cNonce
       THEN cNonce' = Fetched.cn /\ cPending' = FALSE
       ELSE UNCHANGED <<cNonce, cPending>>
    /\ cpc' = IF Changed THEN "persist" ELSE "wait"
    /\ reply' = None /\ wake' = FALSE
    /\ UNCHANGED <<backendVars, pollVars, cache, steadyVars, countVars>>

\* fetch_config keeps the pair, state.update takes the configuration, under one
\* lock; a config_nonce that is not smaller answers a request for a fetch.
Update ==
    /\ cpc = "received" /\ Usable
    /\ last' = Fetched /\ etag' = Fetched.version
    /\ adopted' = Fetched
    /\ TakeRefreshNonce(Fetched.rn)
    /\ IF Fetched.cn >= cNonce
       THEN cNonce' = Fetched.cn /\ cPending' = FALSE
       ELSE UNCHANGED <<cNonce, cPending>>
    /\ cpc' = IF Changed THEN "persist" ELSE "wait"
    /\ reply' = None
    /\ UNCHANGED <<backendVars, wake, pollVars, cache, steadyVars, countVars>>

\* _persist_unsafe, without the lock: the file gets the configuration and the
\* counter as it is by now, atomically, or nothing at all.
Persist ==
    /\ cpc = "persist" /\ cpc' = "wait"
    /\ \/ cache' = [adopted EXCEPT !.rn = rNonce] /\ UNCHANGED faults
       \/ faults < MaxFaults /\ faults' = faults + 1 /\ UNCHANGED cache
    /\ UNCHANGED <<backendVars, clientVars, reply, stateVars, wake, pollVars,
                   steadyVars, edits, triggers, crashes>>

\* config_wake.wait returns: the event is set, or base_interval has passed.
Woken ==
    /\ cpc = "wait" /\ wake /\ cpc' = "clear"
    /\ UNCHANGED <<backendVars, clientVars, reply, stateVars, wake, pollVars, cache,
                   steadyVars, countVars>>

IntervalPasses ==
    /\ cpc = "wait" /\ cpc' = "clear"
    /\ UNCHANGED <<backendVars, clientVars, reply, stateVars, wake, pollVars, cache,
                   steadyVars, countVars>>

\* config_wake.clear, and the next fetch.
ClearWake ==
    /\ cpc = "clear" /\ cpc' = "fetch" /\ wake' = FALSE
    /\ UNCHANGED <<backendVars, clientVars, reply, stateVars, pollVars, cache,
                   steadyVars, countVars>>

BackoffEnds ==
    /\ cpc = "backoff" /\ cpc' = "fetch"
    /\ UNCHANGED <<backendVars, clientVars, reply, stateVars, wake, pollVars, cache,
                   steadyVars, countVars>>

-----------------------------------------------------------------------------
\* /pending answers; an answer that is lost or refused leaves no trace here.
Poll ==
    /\ ppc = "idle" /\ ppc' = "apply" /\ told' = [cn |-> cn, rn |-> rn]
    /\ UNCHANGED <<backendVars, clientVars, configVars, stateVars, wake, cache,
                   steadyVars, countVars>>

\* apply_pending_poll.
ApplyPoll ==
    /\ ppc = "apply" /\ ppc' = "take" /\ told' = None
    /\ cPending' = (cPending \/ told.cn > cNonce)
    /\ cNonce' = told.cn
    /\ TakeRefreshNonce(told.rn)
    /\ UNCHANGED <<backendVars, clientVars, configVars, adopted, wake, cache,
                   steadyVars, countVars>>

\* take_config_refresh_request, then config_wake.set.
TakeConfigRequest ==
    /\ ppc = "take" /\ ppc' = "idle"
    /\ cPending' = FALSE /\ wake' = (wake \/ cPending)
    /\ UNCHANGED <<backendVars, clientVars, configVars, adopted, rNonce, rPending,
                   cNonce, told, cache, steadyVars, countVars>>

\* The main loop: take_refresh_request, and refresh_all_devices.
ReadAll ==
    /\ rPending /\ rPending' = FALSE
    /\ owed' = FALSE /\ lost' = FALSE
    /\ UNCHANGED <<backendVars, clientVars, configVars, adopted, rNonce, cNonce,
                   cPending, wake, pollVars, cache, subnets, countVars>>

\* What is gone with a process, and what load_from_cache gives the next one: the
\* cached devices as they are, whatever the operator's subnets are by now, and
\* the cached counter.  A trigger counted there is not told again.
Reborn ==
    /\ crashes < MaxCrashes /\ crashes' = crashes + 1
    /\ subnets' \in Settings
    /\ cpc' = "fetch" /\ reply' = None
    /\ adopted' = cache
    /\ rNonce' = IF cache = None THEN 0 ELSE cache.rn
    /\ rPending' = FALSE /\ cNonce' = 0 /\ cPending' = FALSE
    /\ wake' = FALSE /\ ppc' = "idle" /\ told' = None
    /\ lost' = (lost \/ (owed /\ rNonce' = rn))
    /\ UNCHANGED <<backendVars, cache, owed, edits, triggers, faults>>

\* A mistake: the cached configuration brings its ETag along, to be spared a full
\* answer after a restart.
RestartWithEtag ==
    /\ Reborn
    /\ last' = cache /\ etag' = IF cache = None THEN None ELSE cache.version

\* The process dies and another one starts, without an ETag.
Restart == Reborn /\ etag' = None /\ last' = None

Next ==
    \/ \E n \in Name : Edit(n)
    \/ Trigger
    \/ Answer \/ Refused \/ NotParsed \/ Update \/ Persist
    \/ Woken \/ IntervalPasses \/ ClearWake \/ BackoffEnds
    \/ Poll \/ ApplyPoll \/ TakeConfigRequest
    \/ ReadAll
    \/ Restart

Spec == Init /\ [][Next]_vars

\* The threads run and a backoff ends.  That base_interval passes is not assumed:
\* what happens, happens without waiting for it.
Fairness ==
    /\ WF_vars(Answer) /\ WF_vars(NotParsed) /\ WF_vars(Update) /\ WF_vars(Persist)
    /\ WF_vars(Woken) /\ WF_vars(ClearWake) /\ WF_vars(BackoffEnds)
    /\ WF_vars(Poll) /\ WF_vars(ApplyPoll) /\ WF_vars(TakeConfigRequest)
    /\ WF_vars(ReadAll)

FairSpec == Spec /\ Fairness

-----------------------------------------------------------------------------
\* A configuration the backend has published by now.
Published(c) == c \in Configs /\ c.cn <= cn /\ c.rn <= rn

\* Types; no counter of the gateway is ahead of the backend's.
TypeOK ==
    /\ content \in Name /\ cn \in Nat /\ rn \in Nat
    /\ hashed \in BOOLEAN /\ rPending \in BOOLEAN /\ cPending \in BOOLEAN
    /\ wake \in BOOLEAN /\ owed \in BOOLEAN /\ lost \in BOOLEAN
    /\ subnets \in Settings
    /\ rNonce \in 0..rn /\ cNonce \in 0..cn
    /\ cpc \in {"fetch", "received", "persist", "wait", "clear", "backoff"}
    /\ ppc \in {"idle", "apply", "take"}
    /\ etag # None => etag \in Versions
    /\ last # None => Published(last)
    /\ adopted # None => Published(adopted)
    /\ cache # None => Published(cache)

\* A 304 stands for the configuration it is answered with: the stored ETag and
\* the stored configuration always come from one answer (fetch_config).
PairBelongsTogether ==
    /\ (etag = None) = (last = None)
    /\ last # None => etag = last.version

\* What a configuration that was parsed whole under given subnets promises: no
\* two devices await a connection on one port, none is outside the subnets.
IsSound(p, under) ==
    /\ Parses(p, under)
    /\ \A i, j \in Kept(p, under) :
         p.devices[i].endpoint = "initiating" =>
           /\ p.devices[i].port \in MinPort..MaxPort
           /\ i # j /\ p.devices[j].endpoint = "initiating" =>
                p.devices[i].port # p.devices[j].port
    /\ \A i \in Kept(p, under) :
         /\ p.devices[i].ip # "unsafe"
         /\ under = "on" => p.devices[i].ip \in {"none", "inside"}

\* Whatever is adopted was parsed whole, by this process or by the one that wrote
\* the cache.  The cache is trusted with the subnets of that one only until this
\* process has an answer: from then on, a 304 included, what is adopted was parsed
\* under the subnets of today (load_from_cache, fetch_config).
AdoptedIsSound ==
    /\ adopted # None => IsSound(Payload[adopted.name], adopted.under)
    /\ last # None => adopted # None /\ adopted.under = subnets

\* In a fleet of several models no device is polled with the signals of another
\* one, as long as the backend's sets are right (signals_for).
OwnSignals ==
    adopted # None =>
        LET p == Payload[adopted.name]
            fleet == Fleet(p, adopted.under)
        IN Known(p) # {} /\ HonestCatalog(p) /\ Cardinality(fleet) > 1 =>
             \A f \in fleet : SignalsFor(p, adopted.under, f) \subseteq {f}

\* Once the backend's payload rests and parses, it is adopted under the subnets of
\* today, although no interval need ever pass: no order of fetches, polls, wakes
\* and clears loses the news of a change, and no cache hides it (config_wake,
\* config_nonce).
ChangeIsFetched ==
    <>[](Parses(Payload[content], subnets) =>
           adopted # None /\ adopted.name = content /\ adopted.under = subnets)

\* An operator's trigger is followed by a read of all devices, unless the process
\* dies with it after its counter was stored in the cache: then it is lost, and
\* only the operator can ask again (refresh_nonce, take_refresh_request,
\* load_from_cache).
TriggerIsRun == owed ~> ~owed \/ lost

=============================================================================
