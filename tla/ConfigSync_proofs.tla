--------------------------- MODULE ConfigSync_proofs ---------------------------
(***************************************************************************)
(* Proofs about the way of a configuration into the gateway, for every set *)
(* of payloads, every bound and any order of fetches, polls, faults and    *)
(* restarts: the stored ETag belongs to the stored configuration, whatever *)
(* is adopted was parsed whole, and under the subnets of today once this   *)
(* process has an answer, no device gets another model's signals, and no   *)
(* older configuration replaces a newer one.  No change is forgotten on its*)
(* way, and no trigger but by a death of the process that has stored its   *)
(* counter; that each is acted upon then is fairness.                      *)
(***************************************************************************)
EXTENDS ConfigSync, FiniteSetTheorems, TLAPS

\* The answer in flight: a 304 is only sent to a client that holds a
\* configuration, everything else carries a published one.
ReplyOK ==
    cpc = "received" =>
        \/ reply.kind = "same" /\ last # None
        \/ reply.kind = "full" /\ Published(reply.config)

ToldOK == ppc = "apply" => told.cn \in 0..cn /\ told.rn \in 0..rn

\* Every configuration the gateway holds was parsed, by itself or by the process
\* that wrote the cache.
HeldIsParsed ==
    /\ last # None => Parses(Payload[last.name], last.under)
    /\ adopted # None => Parses(Payload[adopted.name], adopted.under)
    /\ cache # None => Parses(Payload[cache.name], cache.under)

\* What this process was answered it parsed, or will parse, under its own subnets,
\* and what it holds of an answer is what it has adopted.  Only the cache may be
\* of other subnets.
AnsweredToday ==
    /\ cpc = "received" /\ reply.kind = "full" => reply.config.under = subnets
    /\ last # None => last.under = subnets /\ adopted = last

\* The inductive invariant.
SyncInvariant ==
    /\ TypeOK /\ ReplyOK /\ ToldOK
    /\ cpc = "persist" => adopted # None
    /\ PairBelongsTogether /\ HeldIsParsed /\ AnsweredToday

-----------------------------------------------------------------------------
(* The configurations and the version                                      *)

LEMMA VersionTyped == TypeOK => Version \in Versions
BY DEF TypeOK, Version, Versions

LEMMA CurrentIsPublished == TypeOK => Published(Current)
BY VersionTyped DEF TypeOK, Published, Current, Configs

\* What Update adopts is a published configuration that was parsed.
LEMMA FetchedIsGood ==
    SyncInvariant /\ cpc = "received" /\ Usable
      => /\ Published(Fetched) /\ Fetched # None /\ Fetched.under = subnets
         /\ Parses(Payload[Fetched.name], Fetched.under)
BY SyncAssumption
   DEF SyncInvariant, TypeOK, ReplyOK, HeldIsParsed, AnsweredToday, Usable, Fetched,
       Published

-----------------------------------------------------------------------------
(* The invariant                                                           *)

LEMMA SyncInit == Init => SyncInvariant
<1> SUFFICES ASSUME Init PROVE SyncInvariant
  OBVIOUS
<1> USE DEF Init
<1>1. /\ hashed \in BOOLEAN /\ rPending \in BOOLEAN /\ cPending \in BOOLEAN
      /\ wake \in BOOLEAN /\ owed \in BOOLEAN /\ lost \in BOOLEAN
  BY Zenon
<1>2. TypeOK
  BY <1>1 DEF TypeOK
<1> QED
  BY <1>2
  DEF SyncInvariant, ReplyOK, ToldOK, PairBelongsTogether, HeldIsParsed, AnsweredToday

\* A step that leaves the backend, the client, the state and the cache alone
\* keeps what is said about them.
LEMMA HeldUnchanged ==
    ASSUME SyncInvariant, UNCHANGED <<backendVars, clientVars, adopted, cache, subnets>>
    PROVE  /\ content' \in Name /\ cn' \in Nat /\ rn' \in Nat /\ hashed' \in BOOLEAN
           /\ subnets' \in Settings
           /\ last' # None => last'.under = subnets' /\ adopted' = last'
           /\ etag' # None => etag' \in Versions
           /\ last' # None => Published(last)'
           /\ adopted' # None => Published(adopted)'
           /\ cache' # None => Published(cache)'
           /\ PairBelongsTogether' /\ HeldIsParsed'
BY DEF SyncInvariant, TypeOK, Published, backendVars, clientVars,
       PairBelongsTogether, HeldIsParsed, AnsweredToday, Parses, Configs

LEMMA SyncStep == SyncInvariant /\ [Next]_vars => SyncInvariant'
<1> SUFFICES ASSUME SyncInvariant, [Next]_vars
             PROVE  SyncInvariant'
  OBVIOUS
<1> USE SyncAssumption DEF SyncInvariant, TypeOK, ReplyOK, ToldOK, AnsweredToday
<1>1. ASSUME NEW n \in Name, Edit(n) PROVE SyncInvariant'
  <2>1. /\ content' \in Name /\ cn' \in Nat /\ rn' \in Nat /\ cn <= cn' /\ rn <= rn'
        /\ UNCHANGED <<etag, last, cpc, reply, adopted, rNonce, cNonce, ppc, told,
                       cache, subnets>>
    BY <1>1 DEF Edit, clientVars, configVars, stateVars, pollVars
  <2>2. /\ UNCHANGED <<hashed, rPending, cPending, wake>>
        /\ owed' \in BOOLEAN /\ lost' \in BOOLEAN
    BY <1>1, Zenon DEF Edit, stateVars
  <2>3. /\ hashed' \in BOOLEAN /\ rPending' \in BOOLEAN /\ cPending' \in BOOLEAN
        /\ wake' \in BOOLEAN /\ owed' \in BOOLEAN /\ lost' \in BOOLEAN
    BY <2>2, Zenon
  <2>4. rNonce' \in 0..rn' /\ cNonce' \in 0..cn'
    BY <2>1
  <2>5. /\ last' # None => Published(last)'
        /\ adopted' # None => Published(adopted)'
        /\ cache' # None => Published(cache)'
    BY <2>1 DEF Published, Configs
  <2>6. TypeOK'
    BY <2>1, <2>3, <2>4, <2>5
  <2>7. ReplyOK'
    BY <2>1 DEF Published, Configs
  <2>8. ToldOK'
    BY <2>1
  <2>9. PairBelongsTogether' /\ HeldIsParsed'
    BY <2>1 DEF PairBelongsTogether, HeldIsParsed, Parses
  <2> QED
    BY <2>1, <2>6, <2>7, <2>8, <2>9
<1>2. ASSUME Trigger PROVE SyncInvariant'
  <2>1. /\ content' \in Name /\ cn' \in Nat /\ rn' \in Nat /\ cn <= cn' /\ rn <= rn'
        /\ UNCHANGED <<etag, last, cpc, reply, adopted, rNonce, cNonce, ppc, told,
                       cache, subnets>>
    BY <1>2 DEF Trigger, clientVars, configVars, stateVars, pollVars
  <2>2. /\ UNCHANGED <<hashed, rPending, cPending, wake>>
        /\ owed' \in BOOLEAN /\ lost' \in BOOLEAN
    BY <1>2, Zenon DEF Trigger, stateVars
  <2>3. /\ hashed' \in BOOLEAN /\ rPending' \in BOOLEAN /\ cPending' \in BOOLEAN
        /\ wake' \in BOOLEAN /\ owed' \in BOOLEAN /\ lost' \in BOOLEAN
    BY <2>2, Zenon
  <2>4. rNonce' \in 0..rn' /\ cNonce' \in 0..cn'
    BY <2>1
  <2>5. /\ last' # None => Published(last)'
        /\ adopted' # None => Published(adopted)'
        /\ cache' # None => Published(cache)'
    BY <2>1 DEF Published, Configs
  <2>6. TypeOK'
    BY <2>1, <2>3, <2>4, <2>5
  <2>7. ReplyOK'
    BY <2>1 DEF Published, Configs
  <2>8. ToldOK'
    BY <2>1
  <2>9. PairBelongsTogether' /\ HeldIsParsed'
    BY <2>1 DEF PairBelongsTogether, HeldIsParsed, Parses
  <2> QED
    BY <2>1, <2>6, <2>7, <2>8, <2>9
<1>3. ASSUME Answer PROVE SyncInvariant'
  <2>1. UNCHANGED <<backendVars, clientVars, adopted, cache, subnets>>
    BY <1>3 DEF Answer, stateVars, steadyVars
  <2>2. TypeOK'
    BY <1>3, <2>1, HeldUnchanged DEF Answer, stateVars, pollVars, backendVars, steadyVars
  <2>3. ReplyOK'
    BY <1>3, CurrentIsPublished DEF Answer, backendVars, clientVars, Published
  <2>4. AnsweredToday'
    BY <1>3, <2>1, HeldUnchanged DEF Answer, Current
  <2> QED
    BY <1>3, <2>1, <2>2, <2>3, <2>4, HeldUnchanged DEF Answer, backendVars, pollVars
<1>4. ASSUME Refused \/ NotParsed PROVE SyncInvariant'
  <2>1. UNCHANGED <<backendVars, clientVars, adopted, cache, subnets>>
    BY <1>4 DEF Refused, NotParsed, stateVars, steadyVars
  <2> QED
    BY <1>4, <2>1, HeldUnchanged
    DEF Refused, NotParsed, backendVars, stateVars, pollVars, steadyVars
<1>5. ASSUME Update PROVE SyncInvariant'
  <2>1. /\ Published(Fetched) /\ Fetched # None /\ Fetched.under = subnets
        /\ Parses(Payload[Fetched.name], Fetched.under)
    BY <1>5, FetchedIsGood DEF Update
  <2>2. /\ Fetched.version \in Versions /\ Fetched.version # None
        /\ Fetched.rn \in 0..rn /\ Fetched.cn \in 0..cn
    BY <2>1 DEF Published, Configs
  <2>3. /\ cn' = cn /\ rn' = rn /\ content' = content
        /\ last' = Fetched /\ adopted' = Fetched /\ etag' = Fetched.version
        /\ cache' = cache /\ told' = told /\ ppc' = ppc /\ subnets' = subnets
    BY <1>5 DEF Update, backendVars, pollVars, steadyVars
  <2>4. hashed' \in BOOLEAN /\ wake' \in BOOLEAN /\ owed' \in BOOLEAN /\ lost' \in BOOLEAN
    BY <1>5 DEF Update, backendVars, steadyVars
  <2>5. rPending' \in BOOLEAN /\ rNonce' \in 0..rn
    BY <1>5, <2>2 DEF Update, TakeRefreshNonce
  <2>6. cPending' \in BOOLEAN /\ cNonce' \in 0..cn
    BY <1>5, <2>2 DEF Update
  <2>7. cpc' \in {"persist", "wait"}
    BY <1>5 DEF Update
  <2>8. last' # None /\ adopted' # None /\ Published(last)' /\ Published(adopted)'
        /\ (cache' # None => Published(cache)')
    BY <2>1, <2>3 DEF Published
  <2>9. TypeOK'
    BY <2>2, <2>3, <2>4, <2>5, <2>6, <2>7, <2>8
  <2>10. ReplyOK' /\ ToldOK'
    BY <2>3, <2>7
  <2>11. PairBelongsTogether'
    BY <2>1, <2>2, <2>3 DEF PairBelongsTogether
  <2>12. HeldIsParsed'
    BY <2>1, <2>3 DEF HeldIsParsed, Parses
  <2>13. AnsweredToday'
    BY <2>1, <2>3, <2>7
  <2> QED
    BY <2>8, <2>9, <2>10, <2>11, <2>12, <2>13
<1>6. ASSUME Persist PROVE SyncInvariant'
  <2>1. adopted # None /\ Published(adopted)
    BY <1>6 DEF Persist
  <2>2. [adopted EXCEPT !.rn = rNonce] \in Configs
        /\ [adopted EXCEPT !.rn = rNonce].name = adopted.name
        /\ [adopted EXCEPT !.rn = rNonce].under = adopted.under
        /\ [adopted EXCEPT !.rn = rNonce].rn = rNonce
        /\ [adopted EXCEPT !.rn = rNonce].cn = adopted.cn
    BY <2>1 DEF Published, Configs
  <2>3. Published([adopted EXCEPT !.rn = rNonce])
    BY <2>1, <2>2 DEF Published
  <2>4. /\ cache' # None => Published(cache)'
        /\ cache' # None => Parses(Payload[cache'.name], cache'.under)
    BY <1>6, <2>1, <2>2, <2>3 DEF Persist, Published, HeldIsParsed, backendVars
  <2>5. TypeOK'
    BY <1>6, <2>4
    DEF Persist, backendVars, clientVars, stateVars, pollVars, steadyVars, Published
  <2>6. PairBelongsTogether' /\ HeldIsParsed'
    BY <1>6, <2>4
    DEF Persist, PairBelongsTogether, HeldIsParsed, clientVars, stateVars, Parses
  <2>7. AnsweredToday'
    BY <1>6 DEF Persist, clientVars, stateVars, steadyVars
  <2> QED
    BY <1>6, <2>5, <2>6, <2>7 DEF Persist, backendVars, pollVars
<1>7. ASSUME Woken \/ IntervalPasses \/ ClearWake \/ BackoffEnds PROVE SyncInvariant'
  <2>1. UNCHANGED <<backendVars, clientVars, adopted, cache, subnets>>
    BY <1>7 DEF Woken, IntervalPasses, ClearWake, BackoffEnds, stateVars, steadyVars
  <2> QED
    BY <1>7, <2>1, HeldUnchanged
    DEF Woken, IntervalPasses, ClearWake, BackoffEnds, backendVars, stateVars, pollVars,
        steadyVars
<1>8. ASSUME Poll \/ ApplyPoll \/ TakeConfigRequest \/ ReadAll PROVE SyncInvariant'
  <2>1. UNCHANGED <<backendVars, clientVars, adopted, cache, subnets>>
    BY <1>8 DEF Poll, ApplyPoll, TakeConfigRequest, ReadAll, stateVars, steadyVars
  <2>2. cpc' = cpc /\ reply' = reply /\ last' = last /\ cn' = cn /\ rn' = rn
    BY <1>8, <2>1
    DEF Poll, ApplyPoll, TakeConfigRequest, ReadAll, configVars, backendVars, clientVars
  <2>3. rNonce' \in 0..rn /\ cNonce' \in 0..cn
    BY <1>8 DEF Poll, ApplyPoll, TakeConfigRequest, ReadAll, TakeRefreshNonce, stateVars
  <2>4. /\ rPending' \in BOOLEAN /\ cPending' \in BOOLEAN /\ wake' \in BOOLEAN
        /\ owed' \in BOOLEAN /\ lost' \in BOOLEAN
    BY <1>8
    DEF Poll, ApplyPoll, TakeConfigRequest, ReadAll, TakeRefreshNonce, stateVars, steadyVars
  <2>5. ToldOK' /\ ppc' \in {"idle", "apply", "take"}
    BY <1>8, <2>2 DEF Poll, ApplyPoll, TakeConfigRequest, ReadAll, pollVars
  <2>6. TypeOK'
    BY <2>1, <2>2, <2>3, <2>4, <2>5, HeldUnchanged
  <2>7. ReplyOK' /\ AnsweredToday'
    BY <2>1, <2>2, HeldUnchanged DEF Published
  <2> QED
    BY <2>1, <2>2, <2>5, <2>6, <2>7, HeldUnchanged
<1>9. ASSUME Restart PROVE SyncInvariant'
  <2>1. /\ etag' = None /\ last' = None /\ adopted' = cache /\ cache' = cache
        /\ cpc' = "fetch" /\ ppc' = "idle" /\ subnets' \in Settings
        /\ cn' = cn /\ rn' = rn /\ content' = content /\ cNonce' = 0
    BY <1>9 DEF Restart, Reborn, backendVars
  <2>2. rNonce' \in 0..rn
    BY <1>9 DEF Restart, Reborn, Published, Configs
  <2>3. /\ rPending' \in BOOLEAN /\ cPending' \in BOOLEAN /\ wake' \in BOOLEAN
        /\ owed' \in BOOLEAN /\ lost' \in BOOLEAN /\ hashed' \in BOOLEAN
    BY <1>9 DEF Restart, Reborn, backendVars
  <2>4. TypeOK'
    BY <2>1, <2>2, <2>3 DEF Published
  <2>5. PairBelongsTogether' /\ HeldIsParsed'
    BY <2>1 DEF PairBelongsTogether, HeldIsParsed, Parses
  <2> QED
    BY <2>1, <2>4, <2>5
<1>10. ASSUME UNCHANGED vars PROVE SyncInvariant'
  <2>1. UNCHANGED <<backendVars, clientVars, adopted, cache, subnets>>
    BY <1>10 DEF vars, stateVars, steadyVars
  <2> QED
    BY <1>10, <2>1, HeldUnchanged
    DEF vars, backendVars, clientVars, configVars, stateVars, pollVars, steadyVars, Published
<1> QED
  BY <1>1, <1>2, <1>3, <1>4, <1>5, <1>6, <1>7, <1>8, <1>9, <1>10 DEF Next

\* The inductive invariant holds in every reachable state.
THEOREM SyncInvariantHolds == Spec => []SyncInvariant
<1>1. Init => SyncInvariant
  BY SyncInit
<1>2. SyncInvariant /\ [Next]_vars => SyncInvariant'
  BY SyncStep
<1> QED
  BY <1>1, <1>2, PTL DEF Spec

-----------------------------------------------------------------------------
\* The state of the configuration channel is well-typed, and no counter of the
\* gateway is ahead of the backend's (state.py: _refresh_nonce, _config_nonce).
THEOREM TypeCorrect == Spec => []TypeOK
<1>1. SyncInvariant => TypeOK
  BY DEF SyncInvariant
<1> QED
  BY <1>1, SyncInvariantHolds, PTL

\* The stored ETag and the stored configuration always come from one answer, so
\* that a 304 never stands for another configuration (fetch_config).
THEOREM PairsStayTogether == Spec => []PairBelongsTogether
<1>1. SyncInvariant => PairBelongsTogether
  BY DEF SyncInvariant
<1> QED
  BY <1>1, SyncInvariantHolds, PTL

\* What a payload that was parsed whole under given subnets keeps.
LEMMA ParsedIsSound ==
    ASSUME NEW p, NEW under, Parses(p, under)
    PROVE  /\ \A i, j \in Kept(p, under) :
                p.devices[i].endpoint = "initiating" =>
                  /\ PortOK(p.devices[i])
                  /\ i # j /\ p.devices[j].endpoint = "initiating" =>
                       p.devices[i].port # p.devices[j].port
           /\ \A i \in Kept(p, under) :
                p.devices[i].ip # "unsafe" /\ Allows(under, p.devices[i].ip)
<1>1. Kept(p, under) \subseteq Admitted(p, under)
  BY DEF Kept
<1>2. ASSUME NEW i \in Kept(p, under)
      PROVE  p.devices[i].ip # "unsafe" /\ Allows(under, p.devices[i].ip)
  BY <1>1 DEF Admitted
<1>3. ASSUME NEW i \in Kept(p, under), p.devices[i].endpoint = "initiating"
      PROVE  PortOK(p.devices[i])
  BY <1>1, <1>3 DEF Parses, Refuses
<1>4. ASSUME NEW i \in Kept(p, under), NEW j \in Kept(p, under), i # j,
             p.devices[i].endpoint = "initiating", p.devices[j].endpoint = "initiating"
      PROVE  p.devices[i].port # p.devices[j].port
  BY <1>4 DEF Parses, SharedPort
<1> QED
  BY <1>2, <1>3, <1>4

\* The same in the words of the property, for a payload of known shape.
LEMMA ParsedKeepsItsPromise ==
    ASSUME NEW p, NEW under, IsPayload(p), Parses(p, under)
    PROVE  IsSound(p, under)
<1>1. ASSUME NEW i \in Kept(p, under) PROVE p.devices[i].port \in Nat
  <2>1. i \in DOMAIN p.devices /\ p.devices \in Seq(RawDevice)
    BY DEF IsPayload, Kept, Admitted
  <2>2. p.devices[i] \in RawDevice
    BY <2>1
  <2> QED
    BY <2>2 DEF RawDevice
<1>2. ASSUME NEW i \in Kept(p, under), PortOK(p.devices[i])
      PROVE  p.devices[i].port \in MinPort..MaxPort
  <2>1. MinPort \in Nat /\ MaxPort \in Nat
    BY DEF MinPort, MaxPort
  <2> QED
    BY <1>1, <1>2, <2>1 DEF PortOK
<1>3. \A i, j \in Kept(p, under) :
         p.devices[i].endpoint = "initiating" =>
           /\ p.devices[i].port \in MinPort..MaxPort
           /\ i # j /\ p.devices[j].endpoint = "initiating" =>
                p.devices[i].port # p.devices[j].port
  BY <1>2, ParsedIsSound
<1>4. \A i \in Kept(p, under) :
         /\ p.devices[i].ip # "unsafe"
         /\ under = "on" => p.devices[i].ip \in {"none", "inside"}
  BY ParsedIsSound DEF Allows
<1> QED
  BY <1>3, <1>4 DEF IsSound

\* Whatever is adopted was parsed whole under the subnets of the process that took
\* it from the backend: no shared port, no device outside them. Once this process
\* has an answer, that is itself; before, it may be the one that wrote the cache
\* (_parse_gateway_config, load_from_cache).
THEOREM AdoptedSoundly == Spec => []AdoptedIsSound
<1>1. SyncInvariant => AdoptedIsSound
  <2> SUFFICES ASSUME SyncInvariant
               PROVE  AdoptedIsSound
    OBVIOUS
  <2>1. ASSUME adopted # None PROVE IsSound(Payload[adopted.name], adopted.under)
    <3>1. Parses(Payload[adopted.name], adopted.under)
      BY <2>1 DEF SyncInvariant, HeldIsParsed
    <3>2. adopted.name \in Name
      BY <2>1 DEF SyncInvariant, TypeOK, Published, Configs
    <3>3. IsPayload(Payload[adopted.name])
      BY <3>2, SyncAssumption
    <3> QED
      BY <3>1, <3>3, ParsedKeepsItsPromise
  <2>2. last # None => adopted # None /\ adopted.under = subnets
    BY DEF SyncInvariant, AnsweredToday
  <2> QED
    BY <2>1, <2>2 DEF AdoptedIsSound
<1> QED
  BY <1>1, SyncInvariantHolds, PTL

\* The models of a configuration can be counted.
LEMMA FleetIsFinite ==
    ASSUME NEW p, NEW under, IsPayload(p)
    PROVE  Cardinality(Fleet(p, under)) \in Nat
<1>1. p.devices \in Seq(RawDevice)
  BY DEF IsPayload
<1>2. IsFiniteSet(1..Len(p.devices))
  BY <1>1, FS_Interval
<1>3. Kept(p, under) \subseteq 1..Len(p.devices)
  BY <1>1 DEF Kept, Admitted
<1>4. IsFiniteSet(Kept(p, under))
  BY <1>2, <1>3, FS_Subset
<1>5. IsFiniteSet(Fleet(p, under))
  <2> DEFINE profile == [i \in Kept(p, under) |-> p.devices[i].profile]
  <2>1. Fleet(p, under) = {profile[i] : i \in Kept(p, under)}
    BY DEF Fleet
  <2>2. profile \in Surjection(Kept(p, under), Fleet(p, under))
    BY DEF Surjection, Fleet
  <2> QED
    BY <1>4, <2>2, FS_Surjection
<1> QED
  BY <1>5, FS_CardinalityType

\* In a fleet of several models no device is polled with the signals of another
\* one, as long as the backend's own sets are right (signals_for).
THEOREM SignalsAreOwn == Spec => []OwnSignals
<1>1. SyncInvariant => OwnSignals
  <2> SUFFICES ASSUME SyncInvariant, adopted # None
               PROVE  OwnSignals
    BY DEF OwnSignals
  <2> DEFINE p == Payload[adopted.name]
             under == adopted.under
  <2>1. adopted.name \in Name
    BY DEF SyncInvariant, TypeOK, Published, Configs
  <2>2. IsPayload(p)
    BY <2>1, SyncAssumption
  <2>3. Cardinality(Fleet(p, under)) \in Nat
    BY <2>2, FleetIsFinite
  <2> HIDE DEF p, under
  <2>4. ASSUME NEW f \in Fleet(p, under), Known(p) # {}, HonestCatalog(p),
               Cardinality(Fleet(p, under)) > 1
        PROVE  SignalsFor(p, under, f) \subseteq {f}
    <3>1. ~(Cardinality(Fleet(p, under)) <= 1)
      BY <2>3, <2>4
    <3> QED
      BY <2>4, <3>1 DEF SignalsFor, HonestCatalog
  <2> QED
    BY <2>4 DEF OwnSignals, p, under
<1> QED
  BY <1>1, SyncInvariantHolds, PTL
-----------------------------------------------------------------------------
(* No news is lost: what the liveness of the channel rests on              *)

\* What the config thread holds once it has taken the answer in flight.
Carried == IF reply.kind = "same" THEN last ELSE reply.config

\* A configuration with the newest counter is the newest one, and a version is
\* a hash of the content it comes with.
IsGenuine(c) == (c.cn = cn => c.name = content) /\ c.version[1] = c.name

HeldIsGenuine ==
    /\ last # None => IsGenuine(last)
    /\ cpc = "received" /\ reply.kind = "full" => IsGenuine(reply.config)

\* While the gateway knows of the newest change and does not hold it, it is about
\* to fetch, or what it waits for carries the change, or a request for a fetch is
\* pending or has woken the config thread: no order of fetches, polls, wakes and
\* clears loses the news (config_wake, take_config_refresh_request).
NewsIsKept ==
    cNonce = cn /\ (adopted = None \/ adopted.name # content) =>
        \/ cPending \/ wake
        \/ cpc \in {"fetch", "clear", "backoff"}
        \/ cpc = "received" /\ Carried.name = content

\* The same, told of what the config thread will hold: inductive, because an
\* answer in flight may be older than what is adopted.
NewsInvariant ==
    /\ cpc \in {"persist", "wait"} => adopted # None
    /\ cNonce = cn =>
          /\ cpc = "received" /\ Carried.name # content => cPending \/ wake
          /\ cpc \in {"persist", "wait"} /\ adopted.name # content => cPending \/ wake

\* An operator's trigger that was not run is pending, or its counter has not been
\* taken yet and will be larger than the one last seen, or the process died after
\* it had stored that counter (take_refresh_request, _persist_unsafe).
TriggerIsKept == owed => rPending \/ rNonce < rn \/ lost

LEMMA VersionNamesContent == Version[1] = content
BY DEF Version

\* An edit makes every configuration so far an older one; nothing else changes
\* what is genuine, and an answer carries what is genuine now.
LEMMA GenuineStep ==
    SyncInvariant /\ HeldIsGenuine /\ [Next]_vars => HeldIsGenuine'
<1> SUFFICES ASSUME SyncInvariant, HeldIsGenuine, [Next]_vars
             PROVE  HeldIsGenuine'
  OBVIOUS
<1>1. ASSUME NEW n \in Name, Edit(n) PROVE HeldIsGenuine'
  <2>1. /\ UNCHANGED <<last, cpc, reply>> /\ cn' = cn + 1 /\ cn \in Nat
    BY <1>1 DEF Edit, clientVars, configVars, SyncInvariant, TypeOK
  <2>2. ASSUME NEW c, Published(c), IsGenuine(c) PROVE IsGenuine(c)'
    <3>1. c.cn \in Nat /\ c.cn <= cn
      BY <2>2 DEF Published, Configs
    <3>2. c.cn # cn'
      BY <2>1, <3>1
    <3> QED
      BY <2>2, <3>2 DEF IsGenuine
  <2>3. last' # None => IsGenuine(last)'
    <3>1. CASE last = None
      BY <2>1, <3>1
    <3>2. CASE last # None
      <4>1. Published(last) /\ IsGenuine(last)
        BY <3>2 DEF SyncInvariant, TypeOK, HeldIsGenuine
      <4>2. (last.cn = cn' => last.name = content') /\ last.version[1] = last.name
        BY <4>1, <2>2 DEF IsGenuine
      <4> QED
        BY <2>1, <4>2 DEF IsGenuine
    <3> QED
      BY <3>1, <3>2
  <2>4. cpc' = "received" /\ reply'.kind = "full" => IsGenuine(reply.config)'
    <3>1. ASSUME cpc = "received", reply.kind = "full"
          PROVE  IsGenuine(reply.config)'
      <4>1. Published(reply.config) /\ IsGenuine(reply.config)
        BY <3>1 DEF SyncInvariant, ReplyOK, HeldIsGenuine
      <4>2. /\ reply.config.cn = cn' => reply.config.name = content'
            /\ reply.config.version[1] = reply.config.name
        BY <4>1, <2>2 DEF IsGenuine
      <4> QED
        BY <2>1, <4>2 DEF IsGenuine
    <3> QED
      BY <3>1, <2>1
  <2> QED
    BY <2>3, <2>4 DEF HeldIsGenuine
<1>2. ASSUME Answer PROVE HeldIsGenuine'
  <2>1. Current.version[1] = Current.name /\ Current.name = content
    BY VersionNamesContent DEF Current
  <2> QED
    BY <1>2, <2>1 DEF Answer, HeldIsGenuine, IsGenuine, backendVars, clientVars
<1>3. ASSUME Update PROVE HeldIsGenuine'
  <2>1. IsGenuine(Fetched)
    BY <1>3 DEF Update, Fetched, HeldIsGenuine, SyncInvariant, ReplyOK
  <2>2. cpc' # "received" /\ last' = Fetched /\ UNCHANGED <<cn, content>>
    BY <1>3 DEF Update, backendVars
  <2> QED
    BY <2>1, <2>2 DEF HeldIsGenuine, IsGenuine
<1>4. ASSUME UNCHANGED <<cn, content, last>>, UNCHANGED <<cpc, reply>> \/ cpc' # "received"
      PROVE HeldIsGenuine'
  BY <1>4 DEF HeldIsGenuine, IsGenuine
<1>5. ASSUME \/ Trigger \/ Refused \/ NotParsed \/ Persist \/ Woken \/ IntervalPasses
             \/ ClearWake \/ BackoffEnds \/ Poll \/ ApplyPoll \/ TakeConfigRequest
             \/ ReadAll \/ UNCHANGED vars
      PROVE  HeldIsGenuine'
  BY <1>4, <1>5 DEF Trigger, Refused, NotParsed, Persist, Woken, IntervalPasses, ClearWake,
       BackoffEnds, Poll, ApplyPoll, TakeConfigRequest, ReadAll, vars,
       backendVars, clientVars, configVars
<1>6. ASSUME Restart PROVE HeldIsGenuine'
  BY <1>6 DEF Restart, Reborn, HeldIsGenuine
<1> QED
  BY <1>1, <1>2, <1>3, <1>5, <1>6 DEF Next

LEMMA NewsStep ==
    SyncInvariant /\ HeldIsGenuine /\ NewsInvariant /\ [Next]_vars => NewsInvariant'
<1> SUFFICES ASSUME SyncInvariant, HeldIsGenuine, NewsInvariant, [Next]_vars
             PROVE  NewsInvariant'
  OBVIOUS
<1>0. cn \in Nat /\ cNonce \in Nat /\ cNonce <= cn
  BY DEF SyncInvariant, TypeOK
<1>1. ASSUME NEW n \in Name, Edit(n) PROVE NewsInvariant'
  <2>1. cn' = cn + 1 /\ UNCHANGED <<cNonce, cpc, adopted>>
    BY <1>1 DEF Edit, configVars, stateVars
  <2>2. cNonce' # cn'
    BY <2>1, <1>0
  <2> QED
    BY <2>1, <2>2 DEF NewsInvariant
<1>2. ASSUME Answer PROVE NewsInvariant'
  <2>1. UNCHANGED <<content, last, etag>> /\ cpc' = "received"
    BY <1>2 DEF Answer, backendVars, clientVars
  <2>2. CASE last # None /\ etag = Version
    <3>1. Carried' = last
      BY <1>2, <2>1, <2>2 DEF Answer, Carried
    <3>2. last.name = content
      BY <2>2, VersionNamesContent DEF SyncInvariant, PairBelongsTogether, HeldIsGenuine, IsGenuine
    <3> QED
      BY <2>1, <3>1, <3>2 DEF NewsInvariant
  <2>3. CASE ~(last # None /\ etag = Version)
    <3>1. Carried'.name = content
      BY <1>2, <2>3 DEF Answer, Carried, Current
    <3> QED
      BY <2>1, <3>1 DEF NewsInvariant
  <2> QED
    BY <2>2, <2>3
<1>3. ASSUME Update PROVE NewsInvariant'
  <2>1. /\ adopted' = Fetched /\ cpc' \in {"persist", "wait"}
        /\ UNCHANGED <<cn, content, wake>> /\ cpc = "received"
    BY <1>3 DEF Update, backendVars
  <2>2. Fetched # None /\ Fetched.cn \in Nat
    BY <1>3, FetchedIsGood DEF Update, Published, Configs
  <2>3. IsGenuine(Fetched)
    BY <1>3 DEF Update, Fetched, HeldIsGenuine, SyncInvariant, ReplyOK
  <2>4. Carried = Fetched
    BY DEF Carried, Fetched
  <2>5. ASSUME cNonce' = cn', adopted'.name # content'
        PROVE  cPending' \/ wake'
    <3>1. Fetched.cn # cn
      BY <2>1, <2>3, <2>5 DEF IsGenuine
    <3>2. ~(Fetched.cn >= cNonce)
      BY <1>3, <2>1, <2>5, <3>1 DEF Update
    <3>3. UNCHANGED <<cNonce, cPending>>
      BY <1>3, <3>2 DEF Update
    <3>4. cPending \/ wake
      BY <2>1, <2>4, <2>5, <3>3 DEF NewsInvariant
    <3> QED
      BY <2>1, <3>3, <3>4
  <2> QED
    BY <2>1, <2>2, <2>5 DEF NewsInvariant
<1>4. ASSUME ApplyPoll PROVE NewsInvariant'
  <2>1. UNCHANGED <<cn, content, cpc, reply, last, adopted, wake>>
    BY <1>4 DEF ApplyPoll, backendVars, configVars, clientVars
  <2>2. /\ cNonce' = told.cn /\ cPending' = (cPending \/ told.cn > cNonce)
        /\ told.cn \in Nat
    BY <1>4, <1>0 DEF ApplyPoll, SyncInvariant, ToldOK
  <2>3. CASE cNonce = cn
    <3>1. ~cPending' => ~cPending
      BY <2>2
    <3> QED
      BY <2>1, <2>3, <3>1 DEF NewsInvariant, Carried
  <2>4. CASE cNonce # cn
    <3>1. cNonce' = cn => told.cn > cNonce
      BY <1>0, <2>2, <2>4
    <3>2. told.cn > cNonce => cPending'
      BY <2>2
    <3> QED
      BY <2>1, <3>1, <3>2 DEF NewsInvariant
  <2> QED
    BY <2>3, <2>4
<1>5. ASSUME TakeConfigRequest PROVE NewsInvariant'
  <2>1. UNCHANGED <<cn, content, cpc, reply, last, adopted, cNonce>>
    BY <1>5 DEF TakeConfigRequest, backendVars, configVars, clientVars
  <2>2. cPending \/ wake => wake'
    BY <1>5 DEF TakeConfigRequest
  <2> QED
    BY <2>1, <2>2 DEF NewsInvariant, Carried
<1>6. ASSUME Persist PROVE NewsInvariant'
  <2>1. /\ UNCHANGED <<cn, content, adopted, cNonce, cPending, wake>>
        /\ cpc = "persist" /\ cpc' = "wait"
    BY <1>6 DEF Persist, backendVars, stateVars
  <2> QED
    BY <2>1 DEF NewsInvariant
<1>7. ASSUME \/ Refused \/ NotParsed \/ Woken \/ IntervalPasses \/ ClearWake
             \/ BackoffEnds \/ Restart
      PROVE  NewsInvariant'
  <2>1. cpc' \in {"fetch", "clear", "backoff"}
    BY <1>7
    DEF Refused, NotParsed, Woken, IntervalPasses, ClearWake, BackoffEnds, Restart, Reborn
  <2> QED
    BY <2>1 DEF NewsInvariant
<1>8. ASSUME Trigger \/ Poll \/ ReadAll \/ UNCHANGED vars PROVE NewsInvariant'
  <2>1. UNCHANGED <<cn, content, cpc, reply, last, adopted, cNonce, cPending, wake>>
    BY <1>8 DEF Trigger, Poll, ReadAll, vars, backendVars, configVars, clientVars, stateVars
  <2> QED
    BY <2>1 DEF NewsInvariant, Carried
<1> QED
  BY <1>1, <1>2, <1>3, <1>4, <1>5, <1>6, <1>7, <1>8 DEF Next

\* The news of a change is never lost on its way: what ChangeIsFetched rests on,
\* for every set of payloads and with any number of faults and restarts.
THEOREM NewsStaysKept == Spec => []NewsIsKept
<1>1. Init => HeldIsGenuine /\ NewsInvariant
  BY DEF Init, HeldIsGenuine, NewsInvariant
<1>2. SyncInvariant /\ HeldIsGenuine /\ NewsInvariant => NewsIsKept
  <2> SUFFICES ASSUME SyncInvariant, NewsInvariant, cNonce = cn,
                      adopted = None \/ adopted.name # content
               PROVE  \/ cPending \/ wake
                      \/ cpc \in {"fetch", "clear", "backoff"}
                      \/ cpc = "received" /\ Carried.name = content
    BY DEF NewsIsKept
  <2>1. cpc \in {"fetch", "received", "persist", "wait", "clear", "backoff"}
    BY DEF SyncInvariant, TypeOK
  <2> QED
    BY <2>1 DEF NewsInvariant
<1> QED
  BY <1>1, <1>2, GenuineStep, NewsStep, SyncInvariantHolds, PTL DEF Spec

LEMMA TriggerStep == SyncInvariant /\ TriggerIsKept /\ [Next]_vars => TriggerIsKept'
<1> SUFFICES ASSUME SyncInvariant, TriggerIsKept, [Next]_vars
             PROVE  TriggerIsKept'
  OBVIOUS
<1>0. rn \in Nat /\ rNonce \in Nat /\ rNonce <= rn
  BY DEF SyncInvariant, TypeOK
<1>1. CASE Trigger
  <2>1. rn' = rn + 1 /\ rNonce' = rNonce
    BY <1>1 DEF Trigger, stateVars
  <2> QED
    BY <2>1, <1>0 DEF TriggerIsKept
<1>2. ASSUME NEW new \in 0..rn, TakeRefreshNonce(new), UNCHANGED <<rn, owed, lost>>
      PROVE  TriggerIsKept'
  <2>1. CASE rPending \/ new > rNonce
    BY <1>2, <2>1 DEF TakeRefreshNonce, TriggerIsKept
  <2>2. CASE ~(rPending \/ new > rNonce)
    BY <1>0, <1>2, <2>2 DEF TakeRefreshNonce, TriggerIsKept
  <2> QED
    BY <2>1, <2>2
<1>3. CASE Update
  <2>1. Fetched.rn \in 0..rn
    BY <1>3, FetchedIsGood DEF Update, Published, Configs
  <2> QED
    BY <1>2, <1>3, <2>1 DEF Update, backendVars, steadyVars
<1>4. CASE ApplyPoll
  <2>1. told.rn \in 0..rn
    BY <1>4 DEF ApplyPoll, SyncInvariant, ToldOK
  <2> QED
    BY <1>2, <1>4, <2>1 DEF ApplyPoll, backendVars, steadyVars
<1>5. CASE ReadAll
  BY <1>5 DEF ReadAll, TriggerIsKept
<1>6. CASE Restart
  <2>1. rn' = rn /\ owed' = owed /\ lost' = (lost \/ (owed /\ rNonce' = rn))
    BY <1>6 DEF Restart, Reborn, backendVars
  <2>2. rNonce' \in 0..rn
    BY <1>0, <1>6 DEF Restart, Reborn, SyncInvariant, TypeOK, Published, Configs
  <2>3. ASSUME owed, ~lost' PROVE rNonce' < rn
    <3>1. rNonce' # rn
      BY <2>1, <2>3
    <3> QED
      BY <1>0, <2>2, <3>1
  <2> QED
    BY <2>1, <2>3 DEF TriggerIsKept
<1>7. CASE \/ \E n \in Name : Edit(n)
           \/ Answer \/ Refused \/ NotParsed \/ Persist \/ Woken \/ IntervalPasses
           \/ ClearWake \/ BackoffEnds \/ Poll \/ TakeConfigRequest \/ UNCHANGED vars
  <2>1. UNCHANGED <<rn, rNonce, rPending, owed, lost>>
    BY <1>7
    DEF Edit, Answer, Refused, NotParsed, Persist, Woken, IntervalPasses, ClearWake,
        BackoffEnds, Poll, TakeConfigRequest, vars, backendVars, stateVars, steadyVars
  <2> QED
    BY <2>1 DEF TriggerIsKept
<1> QED
  BY <1>1, <1>3, <1>4, <1>5, <1>6, <1>7 DEF Next

\* No trigger is forgotten by the counter that comes on the other channel, a
\* smaller or an older one included, nor by a restart, unless the cache holds its
\* counter already: what TriggerIsRun rests on.
THEOREM TriggersStayKept == Spec => []TriggerIsKept
<1>1. Init => TriggerIsKept
  BY DEF Init, TriggerIsKept
<1> QED
  BY <1>1, TriggerStep, SyncInvariantHolds, PTL DEF Spec
-----------------------------------------------------------------------------
(* A process does not go back to an older configuration                    *)

\* The client's pair is what is adopted, and the answer in flight is no older.
AnswerIsNoOlder ==
    /\ last # None => adopted = last
    /\ cpc = "received" /\ reply.kind = "full" /\ adopted # None =>
          adopted.cn <= reply.config.cn

\* As long as the process lives, what it adopts is no older than what it has,
\* whether the backend answers 304 or in full, late or at once: the stored pair
\* of fetch_config never brings an earlier configuration back.
NoStepBack ==
    [][adopted # None /\ ~Restart => adopted' # None /\ adopted.cn <= adopted'.cn]_vars

\* An update adopts what the answer in flight stands for.
LEMMA UpdateIsNoOlder ==
    ASSUME SyncInvariant, AnswerIsNoOlder, Update, adopted # None
    PROVE  Fetched # None /\ adopted.cn <= Fetched.cn
<1>1. Fetched # None /\ Published(Fetched)
  BY FetchedIsGood DEF Update
<1>2. Fetched.cn \in Nat
  BY <1>1 DEF Published, Configs
<1>3. cpc = "received"
  BY DEF Update
<1>4. CASE reply.kind = "same"
  <2>1. last # None
    BY <1>1, <1>4 DEF Fetched
  <2>2. adopted = Fetched
    BY <1>4, <2>1 DEF Fetched, AnswerIsNoOlder
  <2> QED
    BY <1>1, <1>2, <2>2
<1>5. CASE reply.kind # "same"
  <2>1. reply.kind = "full"
    BY <1>3, <1>5 DEF SyncInvariant, ReplyOK
  <2> QED
    BY <1>1, <1>3, <2>1, <1>5 DEF Fetched, AnswerIsNoOlder
<1> QED
  BY <1>4, <1>5

LEMMA NoOlderStep ==
    SyncInvariant /\ AnswerIsNoOlder /\ [Next]_vars => AnswerIsNoOlder'
<1> SUFFICES ASSUME SyncInvariant, AnswerIsNoOlder, [Next]_vars
             PROVE  AnswerIsNoOlder'
  OBVIOUS
<1>1. CASE Answer
  <2>1. UNCHANGED <<last, adopted>>
    BY <1>1 DEF Answer, clientVars, stateVars
  <2>2. adopted # None => adopted.cn <= cn
    BY DEF SyncInvariant, TypeOK, Published
  <2>3. reply'.kind = "full" => reply'.config.cn = cn
    BY <1>1 DEF Answer, Current
  <2> QED
    BY <2>1, <2>2, <2>3 DEF AnswerIsNoOlder
<1>2. CASE Update
  <2>1. last' = Fetched /\ adopted' = Fetched /\ cpc' # "received"
    BY <1>2 DEF Update
  <2> QED
    BY <2>1 DEF AnswerIsNoOlder
<1>3. CASE Restart
  BY <1>3 DEF Restart, Reborn, AnswerIsNoOlder
<1>4. CASE UNCHANGED <<last, adopted>> /\ (UNCHANGED <<cpc, reply>> \/ cpc' # "received")
  BY <1>4 DEF AnswerIsNoOlder
<1>5. CASE \/ \E n \in Name : Edit(n)
           \/ Trigger \/ Refused \/ NotParsed \/ Persist \/ Woken \/ IntervalPasses
           \/ ClearWake \/ BackoffEnds \/ Poll \/ ApplyPoll \/ TakeConfigRequest
           \/ ReadAll \/ UNCHANGED vars
  BY <1>4, <1>5 DEF Edit, Trigger, Refused, NotParsed, Persist, Woken, IntervalPasses, ClearWake,
       BackoffEnds, Poll, ApplyPoll, TakeConfigRequest, ReadAll, vars,
       clientVars, configVars, stateVars
<1> QED
  BY <1>1, <1>2, <1>3, <1>5 DEF Next

\* Within a life of the process the adopted configuration is never replaced by an
\* older one (fetch_config, state.update).
THEOREM NeverStepsBack == Spec => NoStepBack
<1>1. Init => AnswerIsNoOlder
  BY DEF Init, AnswerIsNoOlder
<1>2. SyncInvariant /\ AnswerIsNoOlder /\ [Next]_vars
        => [adopted # None /\ ~Restart => adopted' # None /\ adopted.cn <= adopted'.cn]_vars
  <2> SUFFICES ASSUME SyncInvariant, AnswerIsNoOlder, Next,
                      adopted # None, ~Restart
               PROVE  adopted' # None /\ adopted.cn <= adopted'.cn
    OBVIOUS
  <2>1. CASE Update
    BY <2>1, UpdateIsNoOlder DEF Update
  <2>2. CASE UNCHANGED adopted
    BY <2>2 DEF SyncInvariant, TypeOK, Published, Configs
  <2> QED
    BY <2>1, <2>2 DEF Next, Edit, Trigger, Answer, Refused, NotParsed, Persist, Woken,
       IntervalPasses, ClearWake, BackoffEnds, Poll, ApplyPoll, TakeConfigRequest, ReadAll,
       stateVars
<1> QED
  BY <1>1, <1>2, NoOlderStep, SyncInvariantHolds, PTL DEF Spec, NoStepBack
=============================================================================
