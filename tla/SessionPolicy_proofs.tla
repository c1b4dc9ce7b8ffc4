------------------------- MODULE SessionPolicy_proofs -------------------------
(***************************************************************************)
(* Proofs about the session of a device, for every number of probes before *)
(* a relink and any events: types, the few questions to a smart device,    *)
(* the sleep that survives an orderly stop, the policy that follows the    *)
(* mode of an auto device, and the probes that lead to a relink.           *)
(***************************************************************************)
EXTENDS SessionPolicy, TLAPS

-----------------------------------------------------------------------------
(* Masters and caches after an update                                      *)

LEMMA NewMasterTyped ==
    ASSUME NEW c \in {"continuous", "smart", "auto"}, NEW m \in Modes \cup {Unknown},
           NEW n \in Modes \cup {Unknown}
    PROVE  /\ [NewMaster(c, m) EXCEPT !.mode = n] \in Masters
           /\ [NewMaster(c, m) EXCEPT !.mode = n].policy = StartPolicy(c, m)
<1>1. StartPolicy(c, m) \in {"continuous", "smart"}
  BY DEF StartPolicy
<1> DEFINE p == StartPolicy(c, m)
           M == [up |-> TRUE, configured |-> c, policy |-> p, mode |-> m,
                 fallback |-> FALSE, since |-> "unset", asked |-> FALSE]
<1>2. NewMaster(c, m) = M
  BY DEF NewMaster
<1> HIDE DEF p
<1>3. M \in Masters
  BY <1>1, Zenon DEF Masters, p
<1>4. [M EXCEPT !.mode = n] \in Masters
  <2>1. \A x \in Masters : [x EXCEPT !.mode = n] \in Masters
    BY Zenon DEF Masters
  <2> QED
    BY <1>3, <2>1
<1>5. [M EXCEPT !.mode = n].policy = p
  OBVIOUS
<1> QED
  BY <1>2, <1>4, <1>5 DEF p

LEMMA NoMasterTyped == NoMaster \in Masters /\ ~NoMaster.up /\ ~NoMaster.asked
<1> DEFINE M == [up |-> TRUE, configured |-> "continuous", policy |-> "continuous",
                 mode |-> "unknown", fallback |-> FALSE, since |-> "unset", asked |-> FALSE]
<1>1. NewMaster("continuous", Unknown) = M
  BY DEF NewMaster, StartPolicy, Unknown
<1>2. M \in Masters
  BY Zenon DEF Masters, Unknown
<1>3. [M EXCEPT !.up = FALSE] \in Masters
  <2>1. \A x \in Masters : [x EXCEPT !.up = FALSE] \in Masters
    BY Zenon DEF Masters
  <2> QED
    BY <1>2, <2>1
<1>4. ~[M EXCEPT !.up = FALSE].up /\ ~[M EXCEPT !.up = FALSE].asked
  OBVIOUS
<1> QED
  BY <1>1, <1>3, <1>4 DEF NoMaster

LEMMA MasterUpdates ==
    ASSUME NEW m \in Masters, NEW md \in Modes \cup {Unknown}, NEW b \in BOOLEAN
    PROVE  /\ [m EXCEPT !.up = FALSE] \in Masters
           /\ [m EXCEPT !.mode = md] \in Masters
           /\ [m EXCEPT !.since = "over"] \in Masters
           /\ [m EXCEPT !.since = "unset", !.asked = FALSE] \in Masters
           /\ [m EXCEPT !.since = "running", !.asked = b] \in Masters
           /\ [m EXCEPT !.fallback = TRUE] \in Masters
           /\ [m EXCEPT !.policy = "continuous"] \in Masters
           /\ Observed(m, md) \in Masters
BY Zenon DEF Masters, Observed

LEMMA MasterFields ==
    ASSUME NEW m \in Masters, NEW md, NEW b
    PROVE  /\ ~[m EXCEPT !.up = FALSE].up
           /\ [m EXCEPT !.up = FALSE].asked = m.asked
           /\ [m EXCEPT !.up = FALSE].policy = m.policy
           /\ [m EXCEPT !.mode = md].asked = m.asked
           /\ [m EXCEPT !.mode = md].policy = m.policy
           /\ [m EXCEPT !.mode = md].up = m.up
           /\ [m EXCEPT !.since = "over"].asked = m.asked
           /\ [m EXCEPT !.since = "over"].policy = m.policy
           /\ [m EXCEPT !.since = "over"].up = m.up
           /\ [m EXCEPT !.since = "running", !.asked = b].asked = b
           /\ [m EXCEPT !.fallback = TRUE].asked = m.asked
           /\ [m EXCEPT !.policy = "continuous"].asked = m.asked
           /\ Observed(m, md).asked = m.asked
BY DEF Masters, Observed

LEMMA NewCacheTyped ==
    ASSUME NEW a \in BOOLEAN
    PROVE  /\ NewCache(a) \in Caches /\ ~NewCache(a).connected /\ NewCache(a).asleep = a
           /\ ~NewCache(a).strings
<1>1. NewCache(a) \in Caches
  BY Zenon DEF NewCache, Caches
<1>2. ~NewCache(a).connected /\ NewCache(a).asleep = a /\ ~NewCache(a).strings
  BY DEF NewCache
<1> QED
  BY <1>1, <1>2

LEMMA CacheUpdates ==
    ASSUME NEW c \in Caches, NEW a \in BOOLEAN, NEW b \in BOOLEAN, NEW md \in Modes,
           NEW s \in {"lost", "recovering", "online", "smart_idle"}
    PROVE  /\ [c EXCEPT !.connected = TRUE, !.evidence = FALSE, !.asleep = FALSE,
                        !.strings = b, !.state = s] \in Caches
           /\ [c EXCEPT !.connected = FALSE, !.fresh = FALSE, !.asleep = a,
                        !.strings = FALSE, !.state = s] \in Caches
           /\ [c EXCEPT !.connected = FALSE, !.fresh = FALSE] \in Caches
           /\ [Heard(c) EXCEPT !.state = s] \in Caches
           /\ [Heard(c) EXCEPT !.point = md, !.state = s] \in Caches
           /\ [c EXCEPT !.fresh = FALSE] \in Caches
           /\ [c EXCEPT !.strings = FALSE] \in Caches
           /\ [c EXCEPT !.aged = a] \in Caches
           /\ [c EXCEPT !.asleep = FALSE] \in Caches
           /\ [c EXCEPT !.asleep = TRUE, !.state = s] \in Caches
           /\ [c EXCEPT !.asleep = FALSE, !.evidence = FALSE, !.state = s] \in Caches
           /\ [c EXCEPT !.state = s] \in Caches
BY Zenon DEF Caches, Heard

LEMMA CacheFields ==
    ASSUME NEW c \in Caches, NEW a, NEW md, NEW s
    PROVE  /\ ~[c EXCEPT !.connected = FALSE, !.fresh = FALSE].connected
           /\ [c EXCEPT !.connected = FALSE, !.fresh = FALSE].strings = c.strings
           /\ [c EXCEPT !.strings = FALSE].connected = c.connected
           /\ ~[c EXCEPT !.strings = FALSE].strings
           /\ [Heard(c) EXCEPT !.state = s].connected = c.connected
           /\ [Heard(c) EXCEPT !.state = s].strings = c.strings
           /\ [Heard(c) EXCEPT !.point = md, !.state = s].connected = c.connected
           /\ [Heard(c) EXCEPT !.point = md, !.state = s].strings = c.strings
           /\ [c EXCEPT !.fresh = FALSE].connected = c.connected
           /\ [c EXCEPT !.fresh = FALSE].strings = c.strings
           /\ [c EXCEPT !.aged = a].connected = c.connected
           /\ [c EXCEPT !.aged = a].strings = c.strings
           /\ [c EXCEPT !.asleep = FALSE].connected = c.connected
           /\ [c EXCEPT !.asleep = FALSE].strings = c.strings
           /\ [c EXCEPT !.asleep = TRUE, !.state = s].connected = c.connected
           /\ [c EXCEPT !.asleep = TRUE, !.state = s].strings = c.strings
           /\ [c EXCEPT !.asleep = FALSE, !.evidence = FALSE, !.state = s].connected = c.connected
           /\ [c EXCEPT !.asleep = FALSE, !.evidence = FALSE, !.state = s].strings = c.strings
           /\ [c EXCEPT !.state = s].connected = c.connected
           /\ [c EXCEPT !.state = s].strings = c.strings
BY DEF Caches, Heard

LEMMA Closed ==
    ASSUME NEW c \in Caches, NEW policy
    PROVE  /\ AfterClose(c, policy) \in Caches /\ ~AfterClose(c, policy).connected
           /\ ~AfterClose(c, policy).strings
<1> DEFINE a == c.asleep \/ (policy = "smart" /\ c.evidence)
           s == IF a THEN "smart_idle" ELSE "lost"
<1> HIDE DEF a, s
<1>1. AfterClose(c, policy) = [c EXCEPT !.connected = FALSE, !.fresh = FALSE, !.asleep = a,
                                        !.strings = FALSE, !.state = s]
  BY DEF AfterClose, a, s
<1>2. a \in BOOLEAN
  BY Zenon DEF Caches, a
<1>3. s \in {"lost", "recovering", "online", "smart_idle"}
  BY DEF s
<1> DEFINE d == [c EXCEPT !.connected = FALSE, !.fresh = FALSE, !.asleep = a,
                         !.strings = FALSE, !.state = s]
<1>4. ~d.connected /\ ~d.strings
  BY DEF Caches
<1>5. d \in Caches
  <2>1. "smart" \in Modes
    BY DEF Modes
  <2> QED
    BY Zenon, <1>2, <1>3, <2>1, CacheUpdates
<1> QED
  BY Zenon, <1>1, <1>4, <1>5

-----------------------------------------------------------------------------
(* The invariant                                                           *)

\* A smart device that was asked for its mode is known to have been asked, as long
\* as the connection lasts in which it was; a poll that would forget it has read
\* that the connection is gone.  Probes are for scanned devices.
AskingOK ==
    /\ asks <= refreshes + 1
    /\ asks = refreshes + 1 => master.asked \/ ~cache.connected
    /\ asks = refreshes + 1 /\ pc = "classify" =>
          IF saw THEN master.asked ELSE ~cache.connected
    /\ pc \in {"probe", "relink"} => master.policy # "smart"

\* Strings that are wanted were not read in this connection.
ReadsOK == reads <= 1 /\ (cache.strings => reads = 0)

\* Without the mark the file has what the memory has.
StoreOK == ~dirty => file = memory

\* Between the stop and the first master the record stays, and says how to start.
OwedOK ==
    owed => /\ pc = "start" /\ ~master.up
            /\ memory.asleep /\ known = memory.mode
            /\ wanted = "smart" \/ (wanted = "auto" /\ known # "boost")

\* Only a poll about to relink has counted beyond the threshold.
TriesOK == tries = RelinkAfter + 1 => pc = "relink"

SessionInvariant == TypeOK /\ AskingOK /\ ReadsOK /\ StoreOK /\ OwedOK /\ TriesOK

USE SessionAssumption

LEMMA InitOK == Init => SessionInvariant
<1> SUFFICES ASSUME Init PROVE SessionInvariant
  OBVIOUS
<1>1. master \in Masters /\ ~master.up
  BY NoMasterTyped DEF Init
<1>2. cache \in Caches
  BY NewCacheTyped DEF Init
<1>3. NoRecord \in Records
  BY Zenon DEF NoRecord, Records
<1>4. StoreTypeOK
  BY <1>3 DEF Init, StoreTypeOK
<1>5. TypeOK
  <2>1. silent \in BOOLEAN /\ due \in BOOLEAN /\ hold \in BOOLEAN /\ saw \in BOOLEAN
        /\ texts \in BOOLEAN /\ owed \in BOOLEAN /\ changed \in BOOLEAN
    BY Zenon DEF Init
  <2>2. /\ endpoint \in Endpoints /\ wanted \in Policies /\ known \in Modes \cup {Unknown}
        /\ tries \in 0..RelinkAfter + 1 /\ pc \in Stages /\ events \in Nat
        /\ asks \in Nat /\ refreshes \in Nat /\ reads \in Nat
    BY DEF Init, Unknown, Stages
  <2> QED
    BY <1>1, <1>2, <1>4, <2>1, <2>2 DEF TypeOK
<1> QED
  BY <1>1, <1>5, NewCacheTyped
  DEF Init, SessionInvariant, AskingOK, ReadsOK, StoreOK, OwedOK, TriesOK

-----------------------------------------------------------------------------
(* The device, its link and the clock                                      *)

USE DEF worldVars, procVars, pollVars, askVars, ghostVars, storeVars, Happens, NothingAsked,
        At, Goto, GotoStrings, SessionInvariant

LEMMA OpenOK == ASSUME SessionInvariant, Open PROVE SessionInvariant'
<1>1. cache' \in Caches
  <2>1. "smart" \in Modes
    BY DEF Modes
  <2> QED
    BY <2>1, CacheUpdates DEF Open, TypeOK
<1>2. TypeOK'
  BY <1>1 DEF Open, TypeOK, StoreTypeOK
<1> QED
  BY <1>1, <1>2 DEF Open, AskingOK, ReadsOK, StoreOK, OwedOK, TriesOK

LEMMA CloseOK == ASSUME SessionInvariant, Close PROVE SessionInvariant'
<1>1. cache' \in Caches /\ ~cache'.connected /\ (cache'.strings => cache.strings)
  BY Closed DEF Close, TypeOK
<1>2. TypeOK'
  BY <1>1 DEF Close, TypeOK, StoreTypeOK
<1> QED
  BY <1>1, <1>2 DEF Close, AskingOK, ReadsOK, StoreOK, OwedOK, TriesOK

LEMMA AnswerOK == ASSUME SessionInvariant, Answer PROVE SessionInvariant'
<1> PICK measured \in BOOLEAN :
         cache' = [Heard(cache) EXCEPT
                     !.state = IF measured /\ @ = "recovering" THEN "online" ELSE @]
  BY Zenon DEF Answer
<1> DEFINE s == IF measured /\ Heard(cache).state = "recovering" THEN "online"
                ELSE Heard(cache).state
<1>2. cache' = [Heard(cache) EXCEPT !.state = s]
  BY DEF s
<1> HIDE DEF s
<1>3. s \in {"lost", "recovering", "online", "smart_idle"}
  BY DEF s, Heard, TypeOK, Caches
<1>4. cache' \in Caches /\ cache'.connected = cache.connected /\ cache'.strings = cache.strings
  <2>1. "smart" \in Modes /\ cache \in Caches
    BY DEF Modes, TypeOK
  <2>2. \A c \in Caches : [Heard(c) EXCEPT !.state = s] \in Caches
    BY <1>3, <2>1, CacheUpdates, Zenon
  <2>3. /\ [Heard(cache) EXCEPT !.state = s].connected = cache.connected
       /\ [Heard(cache) EXCEPT !.state = s].strings = cache.strings
    BY <2>1, CacheFields
  <2> QED
    BY <1>2, <2>1, <2>2, <2>3, Zenon
<1>5. TypeOK'
  BY <1>4 DEF Answer, TypeOK, StoreTypeOK
<1> QED
  BY <1>4, <1>5 DEF Answer, AskingOK, ReadsOK, StoreOK, OwedOK, TriesOK

LEMMA ReportOK == ASSUME NEW mode \in Modes, SessionInvariant, Report(mode) PROVE SessionInvariant'
<1> DEFINE s == IF Heard(cache).state = "recovering" THEN "online" ELSE Heard(cache).state
<1>2. cache' = [Heard(cache) EXCEPT !.point = mode, !.state = s]
  BY DEF Report, Heard, TypeOK, Caches
<1> HIDE DEF s
<1>3. s \in {"lost", "recovering", "online", "smart_idle"}
  BY DEF s, Heard, TypeOK, Caches
<1>4. cache' \in Caches /\ cache'.connected = cache.connected /\ cache'.strings = cache.strings
  <2>1. cache \in Caches
    BY DEF TypeOK
  <2>2. [Heard(cache) EXCEPT !.point = mode, !.state = s] \in Caches
    BY <1>3, <2>1, CacheUpdates, Zenon
  <2>3. /\ [Heard(cache) EXCEPT !.point = mode, !.state = s].connected = cache.connected
       /\ [Heard(cache) EXCEPT !.point = mode, !.state = s].strings = cache.strings
    BY <2>1, CacheFields
  <2> QED
    BY <1>2, <2>2, <2>3, Zenon
<1>5. silent' \in BOOLEAN
  BY Zenon DEF Report
<1>6. events' \in Nat
  BY DEF Report, TypeOK
<1>7. TypeOK'
  BY <1>4, <1>5, <1>6 DEF Report, TypeOK, StoreTypeOK
<1> QED
  BY <1>4, <1>5, <1>6, <1>7 DEF Report, AskingOK, ReadsOK, StoreOK, OwedOK, TriesOK

LEMMA EvidenceAgesOK == ASSUME SessionInvariant, EvidenceAges PROVE SessionInvariant'
<1>1. cache' \in Caches /\ cache'.connected = cache.connected /\ cache'.strings = cache.strings
  <2>1. "smart" \in Modes
    BY DEF Modes
  <2> QED
    BY <2>1, CacheUpdates, CacheFields DEF EvidenceAges, TypeOK
<1>2. TypeOK'
  BY <1>1 DEF EvidenceAges, TypeOK, StoreTypeOK
<1> QED
  BY <1>1, <1>2 DEF EvidenceAges, AskingOK, ReadsOK, StoreOK, OwedOK, TriesOK

LEMMA SilenceGrowsOK == ASSUME SessionInvariant, SilenceGrows PROVE SessionInvariant'
<1>1. cache' \in Caches /\ cache'.connected = cache.connected /\ cache'.strings = cache.strings
  <2>1. "smart" \in Modes /\ master.up \in BOOLEAN
    BY DEF Modes, TypeOK, Masters
  <2> QED
    BY <2>1, CacheUpdates, CacheFields DEF SilenceGrows, TypeOK
<1>2. TypeOK'
  BY <1>1 DEF SilenceGrows, TypeOK, StoreTypeOK
<1> QED
  BY <1>1, <1>2 DEF SilenceGrows, AskingOK, ReadsOK, StoreOK, OwedOK, TriesOK

LEMMA WindowEndsOK == ASSUME SessionInvariant, WindowEnds PROVE SessionInvariant'
<1>1. master' \in Masters /\ master'.asked = master.asked
      /\ master'.policy = master.policy /\ master'.up = master.up
  BY MasterUpdates, MasterFields DEF WindowEnds, TypeOK
<1>2. TypeOK'
  BY <1>1 DEF WindowEnds, TypeOK, StoreTypeOK
<1> QED
  BY <1>1, <1>2 DEF WindowEnds, AskingOK, ReadsOK, StoreOK, OwedOK, TriesOK

LEMMA ProbeDueOK == ASSUME SessionInvariant, ProbeDue PROVE SessionInvariant'
<1>1. TypeOK'
  BY DEF ProbeDue, TypeOK, StoreTypeOK
<1> QED
  BY <1>1 DEF ProbeDue, AskingOK, ReadsOK, StoreOK, OwedOK, TriesOK

LEMMA HoldEndsOK == ASSUME SessionInvariant, HoldEnds PROVE SessionInvariant'
<1>1. TypeOK'
  BY DEF HoldEnds, TypeOK, StoreTypeOK
<1> QED
  BY <1>1 DEF HoldEnds, AskingOK, ReadsOK, StoreOK, OwedOK, TriesOK

LEMMA CommandOK == ASSUME SessionInvariant, Command PROVE SessionInvariant'
<1>1. TypeOK'
  BY DEF Command, TypeOK, StoreTypeOK
<1> QED
  BY <1>1 DEF Command, AskingOK, ReadsOK, StoreOK, OwedOK, TriesOK

LEMMA RefreshAllOK == ASSUME SessionInvariant, RefreshAll PROVE SessionInvariant'
<1>1. /\ asks' \in Nat /\ refreshes' \in Nat /\ events' \in Nat
      /\ \/ asks' = asks + 1 /\ refreshes' = refreshes + 1
         \/ asks' = asks /\ refreshes' = refreshes
  BY DEF RefreshAll, TypeOK
<1>2. TypeOK'
  BY <1>1 DEF RefreshAll, TypeOK, StoreTypeOK
<1>3. AskingOK'
  <2>1. UNCHANGED <<master, cache, pc, saw>> /\ asks \in Nat /\ refreshes \in Nat
    BY DEF RefreshAll, TypeOK
  <2>2. asks' <= refreshes' + 1 /\ (asks' = refreshes' + 1 => asks = refreshes + 1)
    <3>1. asks <= refreshes + 1
      BY DEF AskingOK
    <3>2. ASSUME NEW a \in Nat, NEW r \in Nat, a <= r + 1
          PROVE  /\ a + 1 <= (r + 1) + 1
                 /\ a + 1 = (r + 1) + 1 => a = r + 1
      BY <3>2
    <3> QED
      BY <1>1, <2>1, <3>1, <3>2, Zenon
  <2> QED
    BY <2>1, <2>2 DEF AskingOK
<1> QED
  BY <1>2, <1>3 DEF RefreshAll, ReadsOK, StoreOK, OwedOK, TriesOK

LEMMA ReconfigureOK == ASSUME SessionInvariant, Reconfigure PROVE SessionInvariant'
<1>1. owed' = FALSE /\ owed' \in BOOLEAN /\ changed' \in BOOLEAN
  BY Zenon DEF Reconfigure
<1>2. TypeOK'
  BY <1>1 DEF Reconfigure, TypeOK, StoreTypeOK
<1> QED
  BY <1>1, <1>2 DEF Reconfigure, AskingOK, ReadsOK, StoreOK, OwedOK, TriesOK

-----------------------------------------------------------------------------
(* What the steps share                                                    *)

LEMMA DropFacts ==
    ASSUME NEW m \in Masters, NEW c \in Caches, Drop(m, c)
    PROVE  /\ master' \in Masters /\ ~master'.up
           /\ master'.asked = m.asked /\ master'.policy = m.policy
           /\ cache' \in Caches /\ ~cache'.connected /\ (cache'.strings => c.strings)
           /\ pc' = "record"
<1>1. "smart" \in Modes
  BY DEF Modes
<1>2. cache' \in Caches /\ ~cache'.connected /\ (cache'.strings => c.strings)
  BY <1>1, CacheUpdates, CacheFields DEF Drop
<1>3. master' \in Masters
  BY <1>1, MasterUpdates DEF Drop
<1>4. ~master'.up /\ master'.asked = m.asked /\ master'.policy = m.policy
  BY MasterFields DEF Drop
<1> QED
  BY <1>2, <1>3, <1>4 DEF Drop

LEMMA ScanOrDropFacts ==
    ASSUME NEW m \in Masters, NEW c \in Caches, events \in Nat, ScanOrDrop(m, c)
    PROVE  /\ master' \in Masters /\ master'.asked = m.asked
           /\ cache' \in Caches /\ (cache'.connected => c.connected)
           /\ (cache'.strings => c.strings)
           /\ pc' \in {"strings", "sleep", "record"} /\ events' \in Nat
<1>1. CASE Drop(m, c) /\ IF m.policy = "smart" THEN Happens ELSE UNCHANGED events
  <2>1. events' \in Nat
    BY <1>1
  <2> QED
    BY <1>1, <2>1, DropFacts
<1>2. CASE /\ m.policy = "smart" /\ master' = [m EXCEPT !.policy = "continuous"]
           /\ cache' = c /\ GotoStrings /\ UNCHANGED events
  <2>1. "smart" \in Modes
    BY DEF Modes
  <2>2. master' \in Masters
    BY <1>2, <2>1, MasterUpdates
  <2>3. master'.asked = m.asked
    BY <1>2, MasterFields
  <2> QED
    BY <1>2, <2>2, <2>3
<1> QED
  BY <1>1, <1>2 DEF ScanOrDrop

LEMMA ObservedFacts ==
    ASSUME NEW m \in Masters, NEW mode \in Modes
    PROVE  Observed(m, mode) \in Masters /\ Observed(m, mode).asked = m.asked
<1>1. Observed(m, mode) \in Masters
  BY MasterUpdates
<1>2. Observed(m, mode).asked = m.asked
  BY MasterFields
<1> QED
  BY <1>1, <1>2

LEMMA RecordTyped ==
    ASSUME NEW mode \in Modes \cup {Unknown}, NEW asleep \in BOOLEAN
    PROVE  RecordOf(mode, asleep) \in Records
<1>1. mode \in {"unknown", "smart", "boost"}
  BY DEF Modes, Unknown
<1> QED
  BY <1>1, Zenon DEF RecordOf, Records

LEMMA NoRecordTyped == NoRecord \in Records
BY Zenon DEF NoRecord, Records

LEMMA ModeRecorded ==
    ASSUME NEW r \in Records
    PROVE  r.mode \in Modes \cup {Unknown} /\ r.asleep \in BOOLEAN
<1>1. r.mode \in {"unknown", "smart", "boost"} /\ r.asleep \in BOOLEAN
  BY Zenon DEF Records
<1> QED
  BY <1>1 DEF Modes, Unknown

\* A file that is written, or needed no write, has what the memory has.
LEMMA FlushFacts ==
    ASSUME StoreTypeOK, StoreOK, NEW r \in Records, NEW outcome,
           Flush(r, dirty \/ r # memory, outcome)
    PROVE  StoreTypeOK' /\ StoreOK'
<1>1. memory' \in Records /\ file' \in Records
  BY DEF Flush, StoreTypeOK
<1>2. dirty' \in BOOLEAN
  BY Zenon DEF Flush
<1>3. StoreOK'
  BY DEF Flush, StoreOK
<1> QED
  BY <1>1, <1>2, <1>3 DEF StoreTypeOK

LEMMA NewProcessFacts ==
    ASSUME NewProcess, file' \in Records
    PROVE  /\ master' \in Masters /\ ~master'.up
           /\ cache' \in Caches /\ ~cache'.connected /\ (cache'.strings => cache.strings)
           /\ known' \in Modes \cup {Unknown} /\ tries' \in 0..RelinkAfter + 1
           /\ tries' # RelinkAfter + 1
           /\ due' \in BOOLEAN /\ hold' \in BOOLEAN /\ saw' \in BOOLEAN
           /\ pc' = "start" /\ pc' \in Stages
           /\ UNCHANGED <<endpoint, texts, wanted, silent, changed>>
<1>1. master' \in Masters /\ ~master'.up
  BY NoMasterTyped DEF NewProcess
<1>2. cache' \in Caches /\ ~cache'.connected /\ (cache'.strings => cache.strings)
  BY NewCacheTyped DEF NewProcess
<1>3. known' \in Modes \cup {Unknown}
  BY ModeRecorded DEF NewProcess
<1>4. due' \in BOOLEAN /\ hold' \in BOOLEAN /\ saw' \in BOOLEAN
  BY Zenon DEF NewProcess
<1>5. tries' \in 0..RelinkAfter + 1 /\ tries' # RelinkAfter + 1
      /\ pc' = "start" /\ pc' \in Stages
  BY DEF NewProcess, Stages
<1> QED
  BY <1>1, <1>2, <1>3, <1>4, <1>5 DEF NewProcess

-----------------------------------------------------------------------------
(* The end of a master and of the process                                  *)

LEMMA ForgetOK == ASSUME SessionInvariant, Forget PROVE SessionInvariant'
<1>1. /\ master' \in Masters /\ ~master'.up
      /\ cache' \in Caches /\ ~cache'.connected /\ (cache'.strings => cache.strings)
  BY NoMasterTyped, NewCacheTyped DEF Forget
<1>2. owed' = FALSE /\ owed' \in BOOLEAN /\ changed' \in BOOLEAN
  BY Zenon DEF Forget
<1>3. StoreTypeOK' /\ StoreOK'
  <2>1. CASE memory.there
    <3>1. memory' = NoRecord /\ file' = NoRecord
      BY <2>1 DEF Forget, Flush
    <3>2. dirty' \in BOOLEAN
      BY <2>1, Zenon DEF Forget, Flush
    <3> QED
      BY <3>1, <3>2, NoRecordTyped DEF StoreTypeOK, StoreOK
  <2>2. CASE ~memory.there
    BY <2>2 DEF Forget, StoreTypeOK, StoreOK, TypeOK
  <2> QED
    BY <2>1, <2>2
<1>4. /\ UNCHANGED <<endpoint, texts, wanted, silent, known, tries, due, hold, pc, saw, askVars>>
      /\ pc = "start" /\ events' \in Nat
  BY DEF Forget, TypeOK
<1>5. TypeOK'
  BY <1>1, <1>2, <1>3, <1>4 DEF TypeOK
<1> QED
  BY <1>1, <1>2, <1>3, <1>4, <1>5 DEF AskingOK, ReadsOK, OwedOK, TriesOK

LEMMA CrashOK == ASSUME SessionInvariant, Crash PROVE SessionInvariant'
<1>1. file' \in Records /\ memory' = file'
  BY DEF Crash, Load, TypeOK, StoreTypeOK
<1>2. StoreTypeOK' /\ StoreOK'
  <2>1. dirty' \in BOOLEAN
    BY Zenon DEF Crash, Load
  <2> QED
    BY <1>1, <2>1 DEF StoreTypeOK, StoreOK
<1>3. owed' = FALSE /\ owed' \in BOOLEAN
  BY Zenon DEF Crash
<1>4. asks' = 0 /\ refreshes' = 0 /\ reads' = 0 /\ events' \in Nat
  BY DEF Crash, TypeOK
<1>5. NewProcess
  BY DEF Crash
<1>6. TypeOK'
  BY <1>1, <1>2, <1>3, <1>4, <1>5, NewProcessFacts DEF TypeOK
<1> QED
  BY <1>1, <1>2, <1>3, <1>4, <1>5, <1>6, NewProcessFacts DEF AskingOK, ReadsOK, OwedOK, TriesOK

LEMMA StopOK == ASSUME SessionInvariant, Stop PROVE SessionInvariant'
<1>1. file' \in Records /\ memory' = file' /\ memory' = memory
  BY DEF Stop, Load, TypeOK, StoreTypeOK, StoreOK
<1>2. StoreTypeOK' /\ StoreOK'
  <2>1. dirty' \in BOOLEAN
    BY Zenon DEF Stop, Load
  <2> QED
    BY <1>1, <2>1 DEF StoreTypeOK, StoreOK
<1>3. owed' \in BOOLEAN
  BY Zenon DEF Stop
<1>4. asks' = 0 /\ refreshes' = 0 /\ reads' = 0 /\ events' \in Nat
  BY DEF Stop, TypeOK
<1>5. NewProcess
  BY DEF Stop
<1>6. TypeOK'
  BY <1>1, <1>2, <1>3, <1>4, <1>5, NewProcessFacts DEF TypeOK
<1>7. OwedOK'
  <2>1. known' = memory'.mode /\ pc' = "start" /\ ~master'.up /\ wanted' = wanted
    BY <1>1, <1>5, NewProcessFacts DEF NewProcess
  <2>2. owed' => memory.asleep /\ (wanted = "smart" \/ (wanted = "auto" /\ memory.mode # "boost"))
    BY DEF Stop
  <2> QED
    BY <1>1, <2>1, <2>2 DEF OwedOK
<1> QED
  BY <1>1, <1>2, <1>4, <1>5, <1>6, <1>7, NewProcessFacts DEF AskingOK, ReadsOK, TriesOK

-----------------------------------------------------------------------------
(* The steps of a poll                                                     *)

LEMMA BuildOK == ASSUME SessionInvariant, Build PROVE SessionInvariant'
<1> DEFINE md == IF wanted = "auto" /\ memory.mode # Unknown THEN memory.mode ELSE known
           back == Restored(memory, master'.policy)
<1>1. md \in Modes \cup {Unknown} /\ wanted \in {"continuous", "smart", "auto"}
  BY ModeRecorded DEF TypeOK, StoreTypeOK
<1>2. back \in BOOLEAN
  BY Zenon DEF Restored
<1> HIDE DEF md, back
<1>3. /\ master' = [NewMaster(wanted, known) EXCEPT !.mode = md]
      /\ known' = IF wanted = "auto" THEN md ELSE known
      /\ cache' = NewCache(back)
  BY DEF Build, StartMaster, md, back
<1>4. master' \in Masters
  BY <1>1, <1>3, NewMasterTyped DEF TypeOK
<1>5. cache' \in Caches
  BY <1>2, <1>3, NewCacheTyped
<1>6. known' \in Modes \cup {Unknown}
  BY <1>1, <1>3 DEF TypeOK
<1>7. owed' = FALSE /\ owed' \in BOOLEAN
  BY Zenon DEF Build
<1>8. /\ UNCHANGED <<worldVars, tries, due, hold, pollVars, changed, events, storeVars>>
      /\ pc = "start" /\ asks' = 0 /\ refreshes' = 0 /\ reads' = 0
  BY DEF Build
<1>9. TypeOK'
  BY <1>4, <1>5, <1>6, <1>7, <1>8 DEF TypeOK, StoreTypeOK
<1> QED
  BY <1>7, <1>8, <1>9 DEF AskingOK, ReadsOK, StoreOK, OwedOK, TriesOK

LEMMA BuildFailsOK == ASSUME SessionInvariant, BuildFails PROVE SessionInvariant'
<1>1. /\ master' \in Masters /\ ~master'.up
      /\ cache' \in Caches /\ ~cache'.connected /\ (cache'.strings => cache.strings)
  BY NoMasterTyped, NewCacheTyped DEF BuildFails
<1>2. /\ UNCHANGED <<worldVars, procVars, pollVars, ghostVars, storeVars>>
      /\ pc = "start" /\ events' \in Nat
  BY DEF BuildFails, TypeOK
<1>3. TypeOK'
  BY <1>1, <1>2 DEF TypeOK, StoreTypeOK
<1> QED
  BY <1>1, <1>2, <1>3 DEF AskingOK, ReadsOK, StoreOK, OwedOK, TriesOK

LEMMA ReadLinkOK == ASSUME SessionInvariant, ReadLink PROVE SessionInvariant'
<1>1. saw' = cache.connected /\ saw' \in BOOLEAN /\ pc' = "classify" /\ pc = "start" /\ master.up
  BY DEF ReadLink, Fits, TypeOK, Caches
<1>2. TypeOK'
  BY <1>1 DEF ReadLink, TypeOK, StoreTypeOK, Stages
<1> QED
  BY <1>1, <1>2 DEF ReadLink, AskingOK, ReadsOK, StoreOK, OwedOK, TriesOK

LEMMA ClassifyNothingOK == ASSUME SessionInvariant, ClassifyNothing PROVE SessionInvariant'
<1>1. master' \in Masters /\ master'.asked = master.asked
  <2>1. CASE master' = [master EXCEPT !.mode = IF cache.point # Unknown THEN cache.point ELSE @]
    <3> DEFINE md == IF cache.point # Unknown THEN cache.point ELSE master.mode
    <3>1. md \in Modes \cup {Unknown}
      BY DEF TypeOK, Masters, Caches
    <3>2. master' = [master EXCEPT !.mode = md]
      BY <2>1
    <3> HIDE DEF md
    <3>3. [master EXCEPT !.mode = md] \in Masters
      BY <3>1, MasterUpdates DEF TypeOK
    <3>4. [master EXCEPT !.mode = md].asked = master.asked
      BY MasterFields DEF TypeOK
    <3> QED
      BY <3>2, <3>3, <3>4
  <2>2. CASE UNCHANGED master
    BY <2>2 DEF TypeOK
  <2> QED
    BY <2>1, <2>2 DEF ClassifyNothing
<1>2. pc = "classify" /\ pc' \in {"strings", "sleep"}
  BY DEF ClassifyNothing
<1>3. TypeOK'
  BY <1>1, <1>2 DEF ClassifyNothing, TypeOK, StoreTypeOK, Stages
<1> QED
  BY <1>1, <1>2, <1>3 DEF ClassifyNothing, AskingOK, ReadsOK, StoreOK, OwedOK, TriesOK

LEMMA ObserveSmartOK == ASSUME SessionInvariant, ObserveSmart PROVE SessionInvariant'
<1> DEFINE m == Observed(master, "smart")
<1>1. m \in Masters /\ m.asked = master.asked
  BY ObservedFacts DEF TypeOK, Modes
<1> HIDE DEF m
<1>2. CASE master.policy = "smart"
  <2>1. /\ master' = m /\ UNCHANGED <<cache, known>>
        /\ pc = "classify" /\ pc' \in {"strings", "sleep"}
    BY <1>2 DEF ObserveSmart, Differs, m
  <2>2. TypeOK'
    BY <1>1, <2>1 DEF ObserveSmart, TypeOK, StoreTypeOK, Stages
  <2> QED
    BY <1>1, <2>1, <2>2 DEF ObserveSmart, AskingOK, ReadsOK, StoreOK, OwedOK, TriesOK
<1>3. CASE master.policy # "smart"
  <2>1. Drop(m, cache) /\ known' = "smart" /\ pc = "classify"
    BY <1>3 DEF ObserveSmart, Differs, m
  <2>2. /\ master' \in Masters /\ master'.asked = master.asked /\ cache' \in Caches
        /\ ~cache'.connected /\ (cache'.strings => cache.strings) /\ pc' = "record"
    BY <1>1, <2>1, DropFacts DEF TypeOK
  <2>3. TypeOK'
    BY <2>1, <2>2 DEF ObserveSmart, TypeOK, StoreTypeOK, Stages, Modes
  <2> QED
    BY <2>1, <2>2, <2>3 DEF ObserveSmart, AskingOK, ReadsOK, StoreOK, OwedOK, TriesOK
<1> QED
  BY <1>2, <1>3

LEMMA ObserveBoostOK == ASSUME SessionInvariant, ObserveBoost PROVE SessionInvariant'
<1> DEFINE m == Observed(master, "boost")
           c == [cache EXCEPT !.asleep = FALSE]
<1>1. m \in Masters /\ m.asked = master.asked
  BY ObservedFacts DEF TypeOK, Modes
<1>2. c \in Caches /\ c.connected = cache.connected /\ c.strings = cache.strings
  <2>1. "smart" \in Modes
    BY DEF Modes
  <2> QED
    BY <2>1, CacheUpdates, CacheFields DEF TypeOK
<1> HIDE DEF m, c
<1>3. ScanOrDrop(m, c) /\ known' = "boost" /\ pc = "classify"
  BY DEF ObserveBoost, Differs, m, c
<1>4. /\ master' \in Masters /\ master'.asked = master.asked
      /\ cache' \in Caches /\ (cache'.connected => cache.connected)
      /\ (cache'.strings => cache.strings)
      /\ pc' \in {"strings", "sleep", "record"} /\ events' \in Nat
  BY <1>1, <1>2, <1>3, ScanOrDropFacts DEF TypeOK
<1>5. TypeOK'
  BY <1>3, <1>4 DEF ObserveBoost, TypeOK, StoreTypeOK, Stages, Modes
<1> QED
  BY <1>3, <1>4, <1>5 DEF ObserveBoost, AskingOK, ReadsOK, StoreOK, OwedOK, TriesOK

LEMMA WaitForLinkOK == ASSUME SessionInvariant, WaitForLink PROVE SessionInvariant'
<1>1. master' \in Masters
  <2>1. "smart" \in Modes
    BY DEF Modes
  <2> QED
    BY <2>1, MasterUpdates DEF WaitForLink, TypeOK
<1>2. pc = "classify" /\ pc' \in {"strings", "sleep"} /\ ~saw
  BY DEF WaitForLink, Unclassified
<1>3. TypeOK'
  BY <1>1, <1>2 DEF WaitForLink, TypeOK, StoreTypeOK, Stages
<1> QED
  BY <1>2, <1>3 DEF WaitForLink, AskingOK, ReadsOK, StoreOK, OwedOK, TriesOK

LEMMA AskModeOK == ASSUME SessionInvariant, AskMode PROVE SessionInvariant'
<1> DEFINE asking == endpoint = "listening" /\ ~master.asked
           b == master.asked \/ asking
<1>1. master' = [master EXCEPT !.since = "running", !.asked = b]
  BY DEF AskMode
<1>2. b \in BOOLEAN
  OBVIOUS
<1>3. /\ asks' \in Nat /\ (IF asking THEN asks' \in {asks, asks + 1} ELSE asks' = asks)
      /\ UNCHANGED <<refreshes, reads>>
  BY DEF AskMode, Ask, TypeOK
<1>4. asking => ~master.asked /\ b
  OBVIOUS
<1>5. ~asking => (b <=> master.asked)
  OBVIOUS
<1> HIDE DEF asking, b
<1>6. master' \in Masters
  <2>1. "smart" \in Modes
    BY DEF Modes
  <2>2. master \in Masters
    BY DEF TypeOK
  <2> QED
    BY <1>1, <1>2, <2>1, <2>2, MasterUpdates, Zenon
<1>7. master'.asked = b
  BY <1>1, MasterFields DEF TypeOK
<1>8. pc = "classify" /\ pc' \in {"strings", "sleep"} /\ saw
  BY DEF AskMode, Unclassified
<1>9. TypeOK'
  BY <1>3, <1>6, <1>8 DEF AskMode, TypeOK, StoreTypeOK, Stages
<1>10. AskingOK'
  <2>1. asks = refreshes + 1 => master.asked
    BY <1>8 DEF AskingOK
  <2>2. CASE asking
    BY <1>3, <1>4, <1>7, <1>8, <2>1, <2>2 DEF AskingOK, TypeOK
  <2>3. CASE ~asking
    BY <1>3, <1>5, <1>7, <1>8, <2>1, <2>3 DEF AskingOK
  <2> QED
    BY <2>2, <2>3
<1> QED
  BY <1>8, <1>9, <1>10 DEF AskMode, ReadsOK, StoreOK, OwedOK, TriesOK

LEMMA AwaitModeOK == ASSUME SessionInvariant, AwaitMode PROVE SessionInvariant'
<1>1. pc = "classify" /\ pc' \in {"strings", "sleep"} /\ saw
  BY DEF AwaitMode, Unclassified
<1>2. TypeOK'
  BY <1>1 DEF AwaitMode, TypeOK, StoreTypeOK, Stages
<1> QED
  BY <1>1, <1>2 DEF AwaitMode, AskingOK, ReadsOK, StoreOK, OwedOK, TriesOK

LEMMA FallBackOK == ASSUME SessionInvariant, FallBack PROVE SessionInvariant'
<1> DEFINE m == [master EXCEPT !.fallback = TRUE]
<1>1. m \in Masters /\ m.asked = master.asked
  <2>1. "smart" \in Modes
    BY DEF Modes
  <2> QED
    BY <2>1, MasterUpdates, MasterFields DEF TypeOK
<1> HIDE DEF m
<1>2. ScanOrDrop(m, cache) /\ pc = "classify" /\ saw
  BY DEF FallBack, Unclassified, m
<1>3. /\ master' \in Masters /\ master'.asked = master.asked
      /\ cache' \in Caches /\ (cache'.connected => cache.connected)
      /\ (cache'.strings => cache.strings)
      /\ pc' \in {"strings", "sleep", "record"} /\ events' \in Nat
  BY <1>1, <1>2, ScanOrDropFacts DEF TypeOK
<1>4. TypeOK'
  BY <1>2, <1>3 DEF FallBack, TypeOK, StoreTypeOK, Stages
<1> QED
  BY <1>2, <1>3, <1>4 DEF FallBack, AskingOK, ReadsOK, StoreOK, OwedOK, TriesOK

LEMMA ReadStringsOK == ASSUME SessionInvariant, ReadStrings PROVE SessionInvariant'
<1>1. cache' \in Caches /\ cache'.connected = cache.connected /\ ~cache'.strings
  <2>1. "smart" \in Modes
    BY DEF Modes
  <2> QED
    BY <2>1, CacheUpdates, CacheFields DEF ReadStrings, TypeOK
<1>2. reads' \in Nat /\ reads' <= 1
  BY DEF ReadStrings, ReadsOK, TypeOK
<1>3. TypeOK'
  BY <1>1, <1>2 DEF ReadStrings, TypeOK, StoreTypeOK, Stages
<1> QED
  BY <1>1, <1>2, <1>3 DEF ReadStrings, AskingOK, ReadsOK, StoreOK, OwedOK, TriesOK

LEMMA SkipStringsOK == ASSUME SessionInvariant, SkipStrings PROVE SessionInvariant'
<1>1. cache' \in Caches /\ cache'.connected = cache.connected /\ ~cache'.strings
  <2>1. "smart" \in Modes
    BY DEF Modes
  <2> QED
    BY <2>1, CacheUpdates, CacheFields DEF SkipStrings, TypeOK
<1>2. TypeOK'
  BY <1>1 DEF SkipStrings, TypeOK, StoreTypeOK, Stages
<1> QED
  BY <1>1, <1>2 DEF SkipStrings, AskingOK, ReadsOK, StoreOK, OwedOK, TriesOK

LEMMA SkipSleepOK == ASSUME SessionInvariant, SkipSleep PROVE SessionInvariant'
<1>1. TypeOK'
  BY DEF SkipSleep, TypeOK, StoreTypeOK, Stages
<1> QED
  BY <1>1 DEF SkipSleep, AskingOK, ReadsOK, StoreOK, OwedOK, TriesOK

LEMMA CheckSleepOK == ASSUME SessionInvariant, CheckSleep PROVE SessionInvariant'
<1>1. /\ \/ cache' = [cache EXCEPT !.asleep = TRUE, !.state = "smart_idle"]
         \/ cache' = [cache EXCEPT !.asleep = FALSE, !.evidence = FALSE, !.state = "lost"]
         \/ cache' = cache
      /\ pc = "sleep" /\ pc' \in {"record", "judge"}
      /\ UNCHANGED <<worldVars, master, procVars, saw, ghostVars, events, storeVars>>
  BY DEF CheckSleep
<1>2. cache' \in Caches /\ cache'.connected = cache.connected /\ cache'.strings = cache.strings
  <2>1. "smart" \in Modes /\ cache \in Caches
    BY DEF Modes, TypeOK
  <2>2. CASE cache' = [cache EXCEPT !.asleep = TRUE, !.state = "smart_idle"]
    BY <2>1, <2>2, CacheUpdates, CacheFields
  <2>3. CASE cache' = [cache EXCEPT !.asleep = FALSE, !.evidence = FALSE, !.state = "lost"]
    BY <2>1, <2>3, CacheUpdates, CacheFields
  <2>4. CASE cache' = cache
    BY <2>1, <2>4
  <2> QED
    BY <1>1, <2>2, <2>3, <2>4
<1>3. TypeOK'
  BY <1>1, <1>2 DEF TypeOK, StoreTypeOK, Stages
<1> QED
  BY <1>1, <1>2, <1>3 DEF AskingOK, ReadsOK, StoreOK, OwedOK, TriesOK

LEMMA JudgeOK == ASSUME SessionInvariant, Judge PROVE SessionInvariant'
<1>1. PICK over \in BOOLEAN : cache' = [cache EXCEPT !.state = Judged(over)]
  BY DEF Judge
<1>2. Judged(over) \in {"lost", "recovering", "online", "smart_idle"}
  BY DEF Judged, TypeOK, Caches
<1>3. cache' \in Caches /\ cache'.connected = cache.connected /\ cache'.strings = cache.strings
  <2>1. "smart" \in Modes /\ cache \in Caches
    BY DEF Modes, TypeOK
  <2>2. [cache EXCEPT !.state = Judged(over)] \in Caches
    BY <1>2, <2>1, CacheUpdates, Zenon
  <2>3. /\ [cache EXCEPT !.state = Judged(over)].connected = cache.connected
       /\ [cache EXCEPT !.state = Judged(over)].strings = cache.strings
    BY <2>1, CacheFields
  <2> QED
    BY <1>1, <2>2, <2>3, Zenon
<1>4. tries' \in {0, tries} /\ pc = "judge" /\ pc' \in {"probe", "record"}
      /\ (pc' = "probe" => master.policy # "smart")
      /\ UNCHANGED <<worldVars, master, known, hold, saw, ghostVars, events, storeVars>>
  BY DEF Judge, Smart
<1>5. due' \in BOOLEAN
  BY Zenon DEF Judge
<1>6. TypeOK'
  BY <1>3, <1>4, <1>5 DEF TypeOK, StoreTypeOK, Stages
<1> QED
  BY <1>3, <1>4, <1>6 DEF AskingOK, ReadsOK, StoreOK, OwedOK, TriesOK, TypeOK

LEMMA NotYetOK == ASSUME SessionInvariant, NotYet PROVE SessionInvariant'
<1>1. TypeOK'
  BY DEF NotYet, TypeOK, StoreTypeOK, Stages
<1> QED
  BY <1>1 DEF NotYet, AskingOK, ReadsOK, StoreOK, OwedOK, TriesOK

LEMMA ProbeOK == ASSUME SessionInvariant, Probe PROVE SessionInvariant'
<1>1. /\ pc = "probe" /\ tries' = tries + 1 /\ asks' = asks
      /\ IF tries' <= RelinkAfter THEN pc' = "record" ELSE pc' = "relink"
      /\ UNCHANGED <<worldVars, master, cache, known, hold, saw, refreshes, reads, owed, changed,
                     events, storeVars>>
  BY DEF Probe, Ask, AskingOK
<1>2. due' \in BOOLEAN
  BY Zenon DEF Probe
<1>3. tries' \in 0..RelinkAfter + 1
  BY <1>1 DEF TypeOK, TriesOK
<1>4. TypeOK'
  BY <1>1, <1>2, <1>3 DEF TypeOK, StoreTypeOK, Stages
<1> QED
  BY <1>1, <1>4 DEF AskingOK, ReadsOK, StoreOK, OwedOK, TriesOK, TypeOK

LEMMA DeferOK == ASSUME SessionInvariant, Defer PROVE SessionInvariant'
<1>1. TypeOK'
  BY DEF Defer, TypeOK, StoreTypeOK, Stages
<1> QED
  BY <1>1 DEF Defer, AskingOK, ReadsOK, StoreOK, OwedOK, TriesOK

LEMMA RelinkOK == ASSUME SessionInvariant, Relink PROVE SessionInvariant'
<1>1. /\ master' \in Masters /\ master'.asked = master.asked
      /\ cache' \in Caches /\ ~cache'.connected /\ (cache'.strings => cache.strings)
      /\ pc' = "record"
  BY DropFacts DEF Relink, TypeOK
<1>2. due' \in BOOLEAN /\ hold' \in BOOLEAN
  BY Zenon DEF Relink
<1>3. TypeOK'
  BY <1>1, <1>2 DEF Relink, TypeOK, StoreTypeOK, Stages
<1> QED
  BY <1>1, <1>3 DEF Relink, AskingOK, ReadsOK, StoreOK, OwedOK, TriesOK

LEMMA RecordOK == ASSUME SessionInvariant, Record PROVE SessionInvariant'
<1>1. saw' \in BOOLEAN
  BY Zenon DEF Record
<1>2. /\ pc = "record" /\ pc' = "start"
      /\ UNCHANGED <<worldVars, master, cache, procVars, ghostVars>>
  BY DEF Record
<1>3. StoreTypeOK' /\ StoreOK' /\ events' \in Nat
  <2>1. CASE UNCHANGED <<storeVars, events>>
    BY <2>1 DEF TypeOK, StoreTypeOK, StoreOK
  <2>2. CASE ~UNCHANGED <<storeVars, events>>
    <3> DEFINE record == RecordOf(master.mode, cache.asleep)
    <3>1. record \in Records
      <4>1. master.mode \in Modes \cup {Unknown} /\ cache.asleep \in BOOLEAN
        BY DEF TypeOK, Masters, Caches
      <4> QED
        BY <4>1, RecordTyped
    <3> HIDE DEF record
    <3>2. PICK outcome : /\ IF outcome = "failed" THEN Happens ELSE UNCHANGED events
                         /\ Flush(record, dirty \/ record # memory, outcome)
      BY <2>2, Zenon DEF Record, record
    <3>3. StoreTypeOK' /\ StoreOK'
      BY <3>1, <3>2, FlushFacts DEF TypeOK
    <3>4. events' \in Nat
      BY <3>2 DEF TypeOK
    <3> QED
      BY <3>3, <3>4
  <2> QED
    BY <2>1, <2>2
<1>4. TypeOK'
  BY <1>1, <1>2, <1>3 DEF TypeOK, Stages
<1> QED
  BY <1>2, <1>3, <1>4 DEF AskingOK, ReadsOK, OwedOK, TriesOK

-----------------------------------------------------------------------------
(* The invariant, and what follows from it                                 *)

\* A step of the poll keeps the invariant.
LEMMA PollOK == ASSUME SessionInvariant, Poll PROVE SessionInvariant'
<1> HIDE DEF SessionInvariant
<1>1. CASE Build
  BY <1>1, BuildOK
<1>2. CASE BuildFails
  BY <1>2, BuildFailsOK
<1>3. CASE ReadLink
  BY <1>3, ReadLinkOK
<1>4. CASE ClassifyNothing
  BY <1>4, ClassifyNothingOK
<1>5. CASE ObserveSmart
  BY <1>5, ObserveSmartOK
<1>6. CASE ObserveBoost
  BY <1>6, ObserveBoostOK
<1>7. CASE WaitForLink
  BY <1>7, WaitForLinkOK
<1>8. CASE AskMode
  BY <1>8, AskModeOK
<1>9. CASE AwaitMode
  BY <1>9, AwaitModeOK
<1>10. CASE FallBack
  BY <1>10, FallBackOK
<1>11. CASE SkipSleep
  BY <1>11, SkipSleepOK
<1>12. CASE CheckSleep
  BY <1>12, CheckSleepOK
<1>13. CASE Judge
  BY <1>13, JudgeOK
<1>14. CASE NotYet
  BY <1>14, NotYetOK
<1>15. CASE Probe
  BY <1>15, ProbeOK
<1>16. CASE Defer
  BY <1>16, DeferOK
<1>17. CASE Relink
  BY <1>17, RelinkOK
<1>18. CASE Record
  BY <1>18, RecordOK
<1>19. CASE ReadStrings
  BY <1>19, ReadStringsOK
<1>20. CASE SkipStrings
  BY <1>20, SkipStringsOK
<1> QED
  BY <1>1, <1>2, <1>3, <1>4, <1>5, <1>6, <1>7, <1>8, <1>9, <1>10, <1>11, <1>12, <1>13,
     <1>14, <1>15, <1>16, <1>17, <1>18, <1>19, <1>20 DEF Poll

\* A tick of the clock keeps the invariant.
LEMMA ClockOK == ASSUME SessionInvariant, Clock PROVE SessionInvariant'
<1> HIDE DEF SessionInvariant
<1>1. CASE EvidenceAges
  BY <1>1, EvidenceAgesOK
<1>2. CASE SilenceGrows
  BY <1>2, SilenceGrowsOK
<1>3. CASE WindowEnds
  BY <1>3, WindowEndsOK
<1>4. CASE ProbeDue
  BY <1>4, ProbeDueOK
<1>5. CASE HoldEnds
  BY <1>5, HoldEndsOK
<1> QED
  BY <1>1, <1>2, <1>3, <1>4, <1>5 DEF Clock

\* So does every step.
LEMMA StepOK == ASSUME SessionInvariant, [Next]_vars PROVE SessionInvariant'
<1> HIDE DEF SessionInvariant
<1>1. CASE Poll
  BY <1>1, PollOK
<1>2. CASE Clock
  BY <1>2, ClockOK
<1>3. CASE Open
  BY <1>3, OpenOK
<1>4. CASE Close
  BY <1>4, CloseOK
<1>5. CASE Answer
  BY <1>5, AnswerOK
<1>6. CASE Command
  BY <1>6, CommandOK
<1>7. CASE Reconfigure
  BY <1>7, ReconfigureOK
<1>8. CASE Forget
  BY <1>8, ForgetOK
<1>9. CASE Crash
  BY <1>9, CrashOK
<1>10. CASE Stop
  BY <1>10, StopOK
<1>11. CASE \E mode \in Modes : Report(mode)
  BY <1>11, ReportOK
<1>12. CASE RefreshAll
  BY <1>12, RefreshAllOK
<1>13. CASE UNCHANGED vars
  <2>1. UNCHANGED SessionInvariant
    BY <1>13 DEF SessionInvariant, TypeOK, StoreTypeOK, AskingOK, ReadsOK, StoreOK, OwedOK,
                    TriesOK, vars
  <2> QED
    BY <2>1
<1> QED
  BY <1>1, <1>2, <1>3, <1>4, <1>5, <1>6, <1>7, <1>8, <1>9, <1>10, <1>11, <1>12,
     <1>13 DEF Next

\* The invariant holds in every state, whatever the device, the clock and the
\* operator do.
THEOREM SessionInvariantHolds == Spec => []SessionInvariant
<1> HIDE DEF SessionInvariant
<1>1. Init => SessionInvariant
  BY InitOK
<1>2. SessionInvariant /\ [Next]_vars => SessionInvariant'
  BY StepOK
<1> QED
  BY <1>1, <1>2, PTL DEF Spec

\* The variables keep their types: the count of probes stays within its
\* threshold and a master has one of the two policies (_kopuk_cihazi_yokla).
THEOREM TypeCorrect == Spec => []TypeOK
<1>1. SessionInvariant => TypeOK
  OBVIOUS
<1> QED
  BY <1>1, SessionInvariantHolds, PTL

\* In every connection a smart device gets at most one integrity poll that no
\* operator asked for, and at most one read of its strings (_auto_politikayi_coz,
\* _oku).
THEOREM AskedAtMostOnce == Spec => []AskedOnce
<1>1. SessionInvariant => AskedOnce
  BY DEF AskingOK, ReadsOK, AskedOnce
<1> QED
  BY <1>1, SessionInvariantHolds, PTL

\* A device that was asleep at an orderly stop is asleep under the first master
\* of the next process, unless it was silent for the limit (_durumu_geri_yukle).
THEOREM SleepIsRestored == Spec => SleepSurvives
<1>1. ASSUME SessionInvariant, [Next]_vars, ~master.up, master'.up, owed, ~silent
      PROVE  cache'.asleep
  <2>1. /\ pc = "start" /\ memory.asleep /\ known = memory.mode
        /\ wanted = "smart" \/ (wanted = "auto" /\ known # "boost")
    BY <1>1 DEF OwedOK
  <2>2. Build
    <3>1. CASE Poll
      <4>1. ~NoMaster.up
        BY NoMasterTyped
      <4> QED
        BY <1>1, <2>1, <3>1, <4>1
           DEF Poll, BuildFails, ReadLink, ClassifyNothing, ObserveSmart, ObserveBoost, Differs,
               WaitForLink, AskMode, AwaitMode, FallBack, Unclassified, ReadStrings, SkipStrings,
               SkipSleep, CheckSleep, Judge, NotYet, Probe, Defer, Relink, Record, Fits
    <3>2. CASE Forget \/ Crash \/ Stop
      BY <1>1, <3>2, NoMasterTyped DEF Forget, Crash, Stop, NewProcess
    <3>3. CASE Clock
      <4>1. master'.up = master.up
        BY <1>1, <3>3, MasterFields
           DEF Clock, EvidenceAges, SilenceGrows, WindowEnds, ProbeDue, HoldEnds, TypeOK
      <4> QED
        BY <1>1, <4>1
    <3>4. ASSUME UNCHANGED master PROVE Build
      BY <1>1, <3>4
    <3> QED
      BY <1>1, <3>1, <3>2, <3>3, <3>4
         DEF Next, Open, Close, Answer, Report, Command, RefreshAll, Reconfigure, vars
  <2> DEFINE md == IF wanted = "auto" /\ memory.mode # Unknown THEN memory.mode ELSE known
             back == Restored(memory, master'.policy)
  <2>3. master' = [NewMaster(wanted, known) EXCEPT !.mode = md] /\ cache' = NewCache(back)
    BY <2>2 DEF Build, StartMaster
  <2>4. md \in Modes \cup {Unknown} /\ wanted \in {"continuous", "smart", "auto"}
    BY <1>1, ModeRecorded DEF TypeOK, StoreTypeOK
  <2>5. master'.policy = "smart"
    <3>1. StartPolicy(wanted, known) = "smart"
      BY <2>1 DEF StartPolicy
    <3> HIDE DEF md
    <3> QED
      BY <1>1, <2>3, <2>4, <3>1, NewMasterTyped DEF TypeOK
  <2>6. back = TRUE
    <3>1. memory.asleep \in BOOLEAN
      BY <1>1, ModeRecorded DEF TypeOK, StoreTypeOK
    <3> QED
      BY <1>1, <2>1, <2>5, <3>1, Zenon DEF Restored
  <2> HIDE DEF back
  <2> QED
    BY <2>3, <2>6, NewCacheTyped
<1>2. SessionInvariant /\ [Next]_vars
        => [~master.up /\ master'.up /\ owed /\ ~silent => cache'.asleep]_vars
  BY <1>1
<1> HIDE DEF SessionInvariant
<1> QED
  BY <1>2, SessionInvariantHolds, PTL DEF Spec, SleepSurvives

-----------------------------------------------------------------------------
(* The policy of an auto device                                            *)

\* The policy an auto device is to run under in a mode.
Rule(mode) == StartPolicy("auto", mode)

\* An auto master runs under the policy of the mode it knows; only while the
\* device says no mode may it be scanned instead (_oturum_durumunu_kur,
\* _auto_modu_uygula, _auto_politikayi_coz).
PolicyIsRight ==
    master.up /\ master.configured = "auto" =>
        master.policy = IF master.fallback THEN "continuous" ELSE Rule(master.mode)

\* What the adapter knows of the mode chooses the same policy as what the
\* master knows, and between two polls as what was recorded.
ModeAgrees ==
    master.configured = "auto" /\ (master.up \/ pc # "start") =>
        Rule(known) = Rule(master.mode)
RecordAgrees ==
    (pc = "start" \/ master.configured # "auto") /\ memory.mode # Unknown =>
        Rule(memory.mode) = Rule(known)

\* A device configured continuous is scanned; none was ever configured smart.
ConfiguredOK ==
    /\ master.configured # "smart"
    /\ master.configured = "continuous" => master.policy = "continuous"

PolicyInvariant == PolicyIsRight /\ ModeAgrees /\ RecordAgrees /\ ConfiguredOK

HIDE DEF SessionInvariant

\* Rules of the two modes.
LEMMA RuleIs ==
    /\ Rule("smart") = "smart" /\ Rule("boost") = "continuous" /\ Rule(Unknown) = "smart"
    /\ \A c \in {"continuous", "smart"} : \A m : StartPolicy(c, m) = c
BY DEF Rule, StartPolicy, Unknown

LEMMA ModesAre == "smart" \in Modes /\ "boost" \in Modes
BY DEF Modes

LEMMA Fields ==
    ASSUME NEW m \in Masters, NEW md, NEW b
    PROVE  /\ [m EXCEPT !.mode = md].mode = md
           /\ [m EXCEPT !.mode = md].configured = m.configured
           /\ [m EXCEPT !.mode = md].policy = m.policy
           /\ [m EXCEPT !.mode = md].fallback = m.fallback
           /\ [m EXCEPT !.mode = md].up = m.up
           /\ [m EXCEPT !.fallback = TRUE].fallback
           /\ [m EXCEPT !.fallback = TRUE].mode = m.mode
           /\ [m EXCEPT !.fallback = TRUE].configured = m.configured
           /\ [m EXCEPT !.fallback = TRUE].up = m.up
           /\ [m EXCEPT !.policy = "continuous"].policy = "continuous"
           /\ [m EXCEPT !.policy = "continuous"].mode = m.mode
           /\ [m EXCEPT !.policy = "continuous"].configured = m.configured
           /\ [m EXCEPT !.policy = "continuous"].fallback = m.fallback
           /\ [m EXCEPT !.policy = "continuous"].up = m.up
           /\ [m EXCEPT !.up = FALSE].mode = m.mode
           /\ [m EXCEPT !.up = FALSE].configured = m.configured
           /\ [m EXCEPT !.up = FALSE].policy = m.policy
BY DEF Masters

LEMMA ObservedFields ==
    ASSUME NEW m \in Masters, NEW mode \in Modes
    PROVE  /\ Observed(m, mode) \in Masters
           /\ Observed(m, mode).mode = mode /\ ~Observed(m, mode).fallback
           /\ Observed(m, mode).policy = m.policy
           /\ Observed(m, mode).configured = m.configured
           /\ Observed(m, mode).up = m.up
<1>1. Observed(m, mode) \in Masters
  BY ObservedFacts
<1>2. /\ Observed(m, mode).mode = mode /\ ~Observed(m, mode).fallback
      /\ Observed(m, mode).policy = m.policy
      /\ Observed(m, mode).configured = m.configured
      /\ Observed(m, mode).up = m.up
  BY DEF Masters, Observed
<1> QED
  BY <1>1, <1>2

LEMMA FallbackFields ==
    ASSUME NEW m \in Masters
    PROVE  /\ [m EXCEPT !.fallback = TRUE] \in Masters
           /\ [m EXCEPT !.fallback = TRUE].fallback
           /\ [m EXCEPT !.fallback = TRUE].mode = m.mode
           /\ [m EXCEPT !.fallback = TRUE].configured = m.configured
           /\ [m EXCEPT !.fallback = TRUE].up = m.up
<1>1. [m EXCEPT !.fallback = TRUE] \in Masters
  BY Zenon DEF Masters
<1> QED
  BY <1>1, Fields

\* Steps that only change when the master asked for a mode, and since when.
LEMMA WindowFields ==
    ASSUME NEW m \in Masters, NEW b
    PROVE  /\ [m EXCEPT !.since = "over"].up = m.up
           /\ [m EXCEPT !.since = "over"].configured = m.configured
           /\ [m EXCEPT !.since = "over"].policy = m.policy
           /\ [m EXCEPT !.since = "over"].mode = m.mode
           /\ [m EXCEPT !.since = "over"].fallback = m.fallback
           /\ [m EXCEPT !.since = "unset", !.asked = FALSE].up = m.up
           /\ [m EXCEPT !.since = "unset", !.asked = FALSE].configured = m.configured
           /\ [m EXCEPT !.since = "unset", !.asked = FALSE].policy = m.policy
           /\ [m EXCEPT !.since = "unset", !.asked = FALSE].mode = m.mode
           /\ [m EXCEPT !.since = "unset", !.asked = FALSE].fallback = m.fallback
           /\ [m EXCEPT !.since = "running", !.asked = b].up = m.up
           /\ [m EXCEPT !.since = "running", !.asked = b].configured = m.configured
           /\ [m EXCEPT !.since = "running", !.asked = b].policy = m.policy
           /\ [m EXCEPT !.since = "running", !.asked = b].mode = m.mode
           /\ [m EXCEPT !.since = "running", !.asked = b].fallback = m.fallback
BY DEF Masters

LEMMA NoMasterFields ==
    ~NoMaster.up /\ NoMaster.configured = "continuous" /\ NoMaster.policy = "continuous"
BY DEF NoMaster, NewMaster, StartPolicy

\* A master that is dropped, or scanned from now on.
LEMMA Dropped ==
    ASSUME NEW m \in Masters, NEW c, Drop(m, c)
    PROVE  /\ ~master'.up /\ master'.mode = m.mode /\ master'.configured = m.configured
           /\ master'.policy = m.policy /\ pc' = "record"
BY Fields, MasterFields DEF Drop

LEMMA ScannedOrDropped ==
    ASSUME NEW m \in Masters, NEW c, m.up, ScanOrDrop(m, c)
    PROVE  /\ master'.mode = m.mode /\ master'.configured = m.configured
           /\ \/ /\ master'.up /\ master'.policy = "continuous" /\ pc' \in {"strings", "sleep"}
                 /\ master'.fallback = m.fallback
              \/ /\ ~master'.up /\ master'.policy = m.policy /\ pc' = "record"
<1>1. CASE Drop(m, c)
  BY <1>1, Dropped
<1>2. CASE master' = [m EXCEPT !.policy = "continuous"] /\ GotoStrings
  BY <1>2, Fields
<1> QED
  BY <1>1, <1>2 DEF ScanOrDrop

LEMMA PolicyInit == Init /\ wanted # "smart" => PolicyInvariant
BY NoMasterFields
DEF Init, PolicyInvariant, PolicyIsRight, ModeAgrees, RecordAgrees, ConfiguredOK, NoRecord, Unknown

\* A start takes the mode that was recorded, by the policy of the known one.
LEMMA BuildPolicy ==
    ASSUME SessionInvariant, PolicyInvariant, wanted # "smart", Build
    PROVE  /\ PolicyInvariant'
           /\ wanted = "auto" => master'.policy = Rule(known) /\ Rule(known') = Rule(known)
<1> DEFINE md == IF wanted = "auto" /\ memory.mode # Unknown THEN memory.mode ELSE known
<1>1. /\ master' = [NewMaster(wanted, known) EXCEPT !.mode = md]
      /\ known' = IF wanted = "auto" THEN md ELSE known
      /\ pc = "start" /\ pc' = "start" /\ memory' = memory
  BY DEF Build, StartMaster
<1>2. wanted \in {"continuous", "auto"}
  BY DEF SessionInvariant, TypeOK
<1>3. memory.mode # Unknown => Rule(memory.mode) = Rule(known)
  BY <1>1 DEF PolicyInvariant, RecordAgrees
<1>4. wanted = "auto" => Rule(md) = Rule(known)
  BY <1>3
<1> HIDE DEF md
<1>5. /\ master'.up = TRUE /\ master'.configured = wanted /\ master'.mode = md
      /\ master'.policy = StartPolicy(wanted, known) /\ master'.fallback = FALSE
  <2>1. master' = [NewMaster(wanted, known) EXCEPT !.mode = md]
    BY <1>1
  <2> DEFINE p == StartPolicy(wanted, known)
             M == [up |-> TRUE, configured |-> wanted, policy |-> p, mode |-> known,
                   fallback |-> FALSE, since |-> "unset", asked |-> FALSE]
  <2>2. NewMaster(wanted, known) = M
    BY DEF NewMaster
  <2> HIDE DEF p
  <2>3. master' = [M EXCEPT !.mode = md]
    BY <2>1, <2>2
  <2>4. /\ master'.up = TRUE /\ master'.configured = wanted /\ master'.policy = p
        /\ master'.mode = md /\ master'.fallback = FALSE
    BY <2>3
  <2> QED
    BY <2>4 DEF p
<1>6. CASE wanted = "auto"
  <2>1. master'.policy = Rule(known) /\ known' = md
    BY <1>1, <1>5, <1>6 DEF Rule
  <2> QED
    BY <1>1, <1>3, <1>4, <1>5, <1>6, <2>1
    DEF PolicyInvariant, PolicyIsRight, ModeAgrees, RecordAgrees, ConfiguredOK
<1>7. CASE wanted = "continuous"
  <2>1. master'.policy = "continuous" /\ known' = known
    BY <1>1, <1>5, <1>7, RuleIs
  <2> QED
    BY <1>1, <1>3, <1>5, <1>7, <2>1
    DEF PolicyInvariant, PolicyIsRight, ModeAgrees, RecordAgrees, ConfiguredOK
<1> QED
  BY <1>2, <1>6, <1>7

\* What a poll makes of a mode that the device says.
LEMMA ClassifyPolicy ==
    ASSUME SessionInvariant, PolicyInvariant, master.up,
           ClassifyNothing \/ ObserveSmart \/ ObserveBoost \/ FallBack
    PROVE  /\ PolicyInvariant'
           /\ master'.configured = master.configured
           /\ \A mode \in Modes :
                 master.configured = "auto" /\ cache.point = mode
                 /\ ~(master.fallback /\ mode = "smart") =>
                    /\ master'.mode = mode
                    /\ IF master'.up THEN master'.policy = Rule(mode) ELSE known' = mode
<1> USE DEF PolicyInvariant, PolicyIsRight, ModeAgrees, RecordAgrees, ConfiguredOK
<1>1. master \in Masters /\ cache.point \in Modes \cup {Unknown}
  BY DEF SessionInvariant, TypeOK, Caches
<1>2. Unknown \notin Modes /\ \A mode \in Modes : mode \in {"smart", "boost"}
  BY DEF Modes, Unknown
<1>3. CASE ClassifyNothing
  <2>1. /\ pc = "classify" /\ pc' \in {"strings", "sleep"} /\ UNCHANGED <<known, memory>>
    BY <1>3 DEF ClassifyNothing
  <2>2. CASE master.configured # "auto"
    <3>1. PICK md : master' = [master EXCEPT !.mode = md]
      BY <1>3, <2>2 DEF ClassifyNothing
    <3> QED
      BY <1>1, <2>1, <2>2, <3>1, Fields
  <2>3. CASE master.configured = "auto"
    <3>1. cache.point # Unknown /\ cache.point = master.mode /\ UNCHANGED master
      BY <1>3, <2>3 DEF ClassifyNothing
    <3>2. master.fallback /\ cache.point # "smart" => cache.point = "boost"
      BY <1>1, <1>2, <3>1
    <3> QED
      BY <1>1, <2>1, <2>3, <3>1, <3>2, RuleIs
  <2> QED
    BY <2>2, <2>3
<1>4. CASE ObserveSmart
  <2> DEFINE m == Observed(master, "smart")
  <2>1. /\ m \in Masters /\ m.mode = "smart" /\ ~m.fallback /\ m.policy = master.policy
        /\ m.configured = master.configured /\ m.up = master.up
    BY <1>1, <1>2, ObservedFields, ModesAre
  <2>2. /\ pc = "classify" /\ master.configured = "auto" /\ cache.point = "smart"
        /\ memory' = memory
    BY <1>4 DEF ObserveSmart, Differs
  <2> HIDE DEF m
  <2>3. CASE master.policy = "smart"
    <3>1. master' = m /\ known' = known /\ pc' \in {"strings", "sleep"}
      BY <1>4, <2>3 DEF ObserveSmart, m
    <3>2. Rule(known) = "smart"
      <4>1. ~master.fallback /\ Rule(master.mode) = "smart"
        BY <2>2, <2>3
      <4> QED
        BY <2>2, <4>1
    <3> QED
      BY <1>2, <2>1, <2>2, <2>3, <3>1, <3>2, RuleIs
  <2>4. CASE master.policy # "smart"
    <3>1. Drop(m, cache) /\ known' = "smart"
      BY <1>4, <2>4 DEF ObserveSmart, m
    <3>2. /\ ~master'.up /\ master'.mode = "smart" /\ master'.configured = "auto"
          /\ pc' = "record"
      BY <2>1, <2>2, <3>1, Dropped
    <3> QED
      BY <1>2, <2>2, <3>1, <3>2, RuleIs
  <2> QED
    BY <2>3, <2>4
<1>5. CASE ObserveBoost
  <2> DEFINE m == Observed(master, "boost")
             c == [cache EXCEPT !.asleep = FALSE]
  <2>1. /\ m \in Masters /\ m.mode = "boost" /\ ~m.fallback
        /\ m.configured = master.configured /\ m.up = master.up
    BY <1>1, <1>2, ObservedFields, ModesAre
  <2>2. /\ pc = "classify" /\ master.configured = "auto" /\ cache.point = "boost"
        /\ memory' = memory /\ known' = "boost" /\ ScanOrDrop(m, c)
    BY <1>5 DEF ObserveBoost, Differs
  <2> HIDE DEF m, c
  <2>3. /\ master'.mode = "boost" /\ master'.configured = "auto"
        /\ \/ /\ master'.up /\ master'.policy = "continuous" /\ ~master'.fallback
              /\ pc' \in {"strings", "sleep"}
           \/ ~master'.up /\ pc' = "record"
    BY <2>1, <2>2, ScannedOrDropped
  <2> QED
    BY <1>2, <2>2, <2>3, RuleIs
<1>6. CASE FallBack
  <2> DEFINE m == [master EXCEPT !.fallback = TRUE]
  <2>1. /\ m \in Masters /\ m.mode = master.mode /\ m.fallback
        /\ m.configured = master.configured /\ m.up = master.up
    BY <1>1, FallbackFields
  <2>2. /\ pc = "classify" /\ master.configured = "auto" /\ cache.point = Unknown
        /\ memory' = memory /\ known' = known /\ ScanOrDrop(m, cache)
    BY <1>6 DEF FallBack, Unclassified
  <2> HIDE DEF m
  <2>3. /\ master'.mode = master.mode /\ master'.configured = "auto"
        /\ \/ /\ master'.up /\ master'.policy = "continuous" /\ master'.fallback
              /\ pc' \in {"strings", "sleep"}
           \/ ~master'.up /\ pc' = "record"
    BY <2>1, <2>2, ScannedOrDropped
  <2>4. PolicyInvariant'
    BY <2>2, <2>3
  <2> QED
    BY <1>2, <2>2, <2>3, <2>4
<1> QED
  BY <1>3, <1>4, <1>5, <1>6

\* What a poll records is what its master knows.
LEMMA RecordPolicy ==
    ASSUME SessionInvariant, PolicyInvariant, Record
    PROVE  PolicyInvariant'
<1> USE DEF PolicyInvariant, PolicyIsRight, ModeAgrees, RecordAgrees, ConfiguredOK
<1>1. pc = "record" /\ pc' = "start" /\ UNCHANGED <<master, known>>
  BY DEF Record
<1>2. master.policy \in {"continuous", "smart"}
      /\ master.configured \in {"continuous", "auto", "smart"}
  BY DEF SessionInvariant, TypeOK, Masters
<1>3. CASE master.configured = "auto"
  <2>1. \E outcome : Flush(RecordOf(master.mode, cache.asleep),
                           dirty \/ RecordOf(master.mode, cache.asleep) # memory, outcome)
    BY <1>3, Zenon DEF Record
  <2>2. memory'.mode = master.mode
    BY <2>1 DEF Flush, RecordOf
  <2> QED
    BY <1>1, <1>3, <2>2
<1>4. CASE master.configured # "auto"
  <2>1. master.configured = "continuous" /\ master.policy # "smart"
    BY <1>2, <1>4
  <2>2. memory' = memory
    BY <1>4, <2>1 DEF Record, Smart
  <2> QED
    BY <1>1, <1>4, <2>2
<1> QED
  BY <1>3, <1>4

\* The link and the device change nothing that the gateway knows.
LEMMA LinkSteps ==
    ASSUME Open \/ Close \/ Answer \/ \E mode \in Modes : Report(mode)
    PROVE  UNCHANGED <<master, known, memory, pc, tries>>
<1>1. CASE Open
  BY <1>1 DEF Open
<1>2. CASE Close
  BY <1>2 DEF Close
<1>3. CASE Answer
  BY <1>3 DEF Answer
<1>4. ASSUME NEW mode \in Modes, Report(mode)
      PROVE  UNCHANGED <<master, known, memory, pc, tries>>
  <2>1. UNCHANGED <<endpoint, texts, wanted, master, procVars, pollVars, ghostVars, storeVars>>
    BY <1>4, Zenon DEF Report
  <2> QED
    BY <2>1, Zenon
<1> QED
  BY <1>1, <1>2, <1>3, <1>4

\* Steps that leave the master's policy, the mode and the record alone.
LEMMA PolicyRests ==
    ASSUME PolicyInvariant, UNCHANGED <<known, memory>>,
           master'.up = master.up, master'.configured = master.configured,
           master'.policy = master.policy, master'.mode = master.mode,
           master'.fallback = master.fallback,
           pc' = pc \/ (pc' # "start" /\ (master.up \/ pc # "start"))
    PROVE  PolicyInvariant'
BY DEF PolicyInvariant, PolicyIsRight, ModeAgrees, RecordAgrees, ConfiguredOK

\* While a poll classifies, its master is there.
MasterThere == pc = "classify" => master.up

LEMMA PolicyStep ==
    ASSUME SessionInvariant, PolicyInvariant, MasterThere, wanted # "smart", [Next]_vars
    PROVE  PolicyInvariant' /\ MasterThere'
<1>0. master \in Masters
  BY DEF SessionInvariant, TypeOK
<1>1. CASE Build
  <2>1. pc' # "classify"
    BY <1>1 DEF Build
  <2> QED
    BY <1>1, <2>1, BuildPolicy DEF MasterThere
<1>2. CASE ClassifyNothing \/ ObserveSmart \/ ObserveBoost \/ FallBack
  <2>1. pc = "classify"
    BY <1>2 DEF ClassifyNothing, ObserveSmart, ObserveBoost, FallBack, Differs, Unclassified
  <2>2. pc' # "classify"
    BY <1>2 DEF ClassifyNothing, ObserveSmart, ObserveBoost, FallBack, ScanOrDrop, Drop
  <2> QED
    BY <1>2, <2>1, <2>2, ClassifyPolicy DEF MasterThere
<1>3. CASE Record
  <2>1. pc' # "classify"
    BY <1>3 DEF Record
  <2> QED
    BY <1>3, <2>1, RecordPolicy DEF MasterThere
<1>4. CASE BuildFails \/ Forget
  <2>1. master' = NoMaster /\ pc = "start" /\ pc' = "start" /\ known' = known
        /\ memory' \in {memory, NoRecord}
    BY <1>4 DEF BuildFails, Forget, Flush
  <2> QED
    BY <2>1, NoMasterFields
    DEF PolicyInvariant, PolicyIsRight, ModeAgrees, RecordAgrees, ConfiguredOK, NoRecord,
        Unknown, MasterThere
<1>5. CASE Crash \/ Stop
  <2>1. master' = NoMaster /\ pc' = "start" /\ known' = file'.mode /\ memory' = file'
    <3>1. CASE Crash
      BY <3>1 DEF Crash, Load, NewProcess
    <3>2. CASE Stop
      <4>1. master' = NoMaster /\ pc' = "start" /\ known' = file'.mode
        BY <3>2 DEF Stop, NewProcess
      <4>2. \E r : Load(r)
        BY <3>2 DEF Stop
      <4>3. memory' = file'
        BY <4>2 DEF Load
      <4> QED
        BY <4>1, <4>3
    <3> QED
      BY <1>5, <3>1, <3>2
  <2> QED
    BY <2>1, NoMasterFields
    DEF PolicyInvariant, PolicyIsRight, ModeAgrees, RecordAgrees, ConfiguredOK, MasterThere
<1>6. CASE Relink
  <2>1. Drop(master, cache) /\ pc = "relink" /\ UNCHANGED <<known, memory>>
    BY <1>6 DEF Relink
  <2>2. /\ ~master'.up /\ master'.mode = master.mode /\ master'.configured = master.configured
        /\ master'.policy = master.policy /\ pc' = "record"
    BY <1>0, <2>1, Dropped
  <2> QED
    BY <2>1, <2>2
    DEF PolicyInvariant, PolicyIsRight, ModeAgrees, RecordAgrees, ConfiguredOK, MasterThere
<1>7. CASE WindowEnds \/ WaitForLink \/ AskMode
  <2>2. /\ UNCHANGED <<known, memory>>
        /\ pc' = pc \/ (pc = "classify" /\ pc' \in {"strings", "sleep"})
    <3>1. CASE WindowEnds
      BY <3>1 DEF WindowEnds
    <3>2. CASE WaitForLink
      BY <3>2 DEF WaitForLink, Unclassified
    <3>3. CASE AskMode
      BY <3>3 DEF AskMode, Unclassified
    <3> QED
      BY <1>7, <3>1, <3>2, <3>3
  <2>3. /\ master'.up = master.up /\ master'.configured = master.configured
        /\ master'.policy = master.policy /\ master'.mode = master.mode
        /\ master'.fallback = master.fallback
    <3>1. CASE WindowEnds
      BY <1>0, <3>1, WindowFields DEF WindowEnds
    <3>2. CASE WaitForLink
      BY <1>0, <3>2, WindowFields DEF WaitForLink
    <3>3. CASE AskMode
      <4> DEFINE b == master.asked \/ (endpoint = "listening" /\ ~master.asked)
      <4>1. master' = [master EXCEPT !.since = "running", !.asked = b]
        BY <3>3 DEF AskMode
      <4> HIDE DEF b
      <4> QED
        BY <1>0, <4>1, WindowFields
    <3> QED
      BY <1>7, <3>1, <3>2, <3>3
  <2>4. PolicyInvariant'
    BY <2>2, <2>3, PolicyRests
  <2> QED
    BY <2>2, <2>3, <2>4 DEF MasterThere
<1>8. CASE \/ ReadLink \/ AwaitMode \/ ReadStrings \/ SkipStrings \/ SkipSleep \/ CheckSleep
           \/ Judge \/ NotYet \/ Probe \/ Defer
  <2>1. UNCHANGED <<master, known, memory>>
    BY <1>8 DEF ReadLink, AwaitMode, ReadStrings, SkipStrings, SkipSleep, CheckSleep, Judge,
                NotYet, Probe, Defer
  <2>2. pc' # "start" /\ (master.up \/ pc # "start") /\ (pc' = "classify" => master.up)
    BY <1>8 DEF ReadLink, AwaitMode, ReadStrings, SkipStrings, SkipSleep, CheckSleep, Judge,
                NotYet, Probe, Defer, Fits, Unclassified
  <2> QED
    BY <2>1, <2>2, PolicyRests DEF MasterThere
<1>9. CASE \/ Open \/ Close \/ Answer \/ (\E mode \in Modes : Report(mode)) \/ Command
           \/ RefreshAll \/ Reconfigure \/ EvidenceAges \/ SilenceGrows \/ ProbeDue \/ HoldEnds
           \/ UNCHANGED vars
  <2>1. UNCHANGED <<master, known, memory, pc>>
    <3>1. CASE Open \/ Close \/ Answer \/ \E mode \in Modes : Report(mode)
      BY <3>1, LinkSteps
    <3>2. CASE Command \/ RefreshAll \/ Reconfigure \/ UNCHANGED vars
      BY <3>2 DEF Command, RefreshAll, Reconfigure, vars
    <3>3. CASE EvidenceAges \/ SilenceGrows \/ ProbeDue \/ HoldEnds
      BY <3>3 DEF EvidenceAges, SilenceGrows, ProbeDue, HoldEnds
    <3> QED
      BY <1>9, <3>1, <3>2, <3>3
  <2> QED
    BY <2>1, PolicyRests DEF MasterThere
<1> QED
  BY <1>1, <1>2, <1>3, <1>4, <1>5, <1>6, <1>7, <1>8, <1>9 DEF Next, Poll, Clock

LEMMA PolicyInvariantHolds ==
    Spec /\ [](wanted # "smart") => [](SessionInvariant /\ PolicyInvariant /\ MasterThere)
<1>1. Init /\ wanted # "smart" => PolicyInvariant /\ MasterThere
  <2>1. Init => MasterThere
    BY DEF Init, MasterThere
  <2> QED
    BY <2>1, PolicyInit
<1>2. SessionInvariant /\ PolicyInvariant /\ MasterThere /\ wanted # "smart" /\ [Next]_vars
        => PolicyInvariant' /\ MasterThere'
  BY PolicyStep
<1> QED
  BY <1>1, <1>2, SessionInvariantHolds, PTL DEF Spec

\* A device that is never configured smart runs under the policy of the mode its
\* master knows, through dropped masters, restarts, lost writes and changes
\* between auto and continuous (_oturum_durumunu_kur, _durumu_geri_yukle).
THEOREM PolicyFollowsMode == Spec /\ [](wanted # "smart") => []PolicyIsRight
<1>1. PolicyInvariant => PolicyIsRight
  BY DEF PolicyInvariant
<1> QED
  BY <1>1, PolicyInvariantHolds, PTL

\* The poll that classifies a device takes the mode that it says: it is scanned
\* or left alone accordingly from then on, or its master goes and the next one
\* starts by this mode; only a device that once was given up as unclassified
\* stays scanned (_auto_modu_uygula).
SaidModeIsTaken ==
    [][\A mode \in Modes :
          /\ pc = "classify" /\ pc' \in {"strings", "sleep", "record"}
          /\ master.configured = "auto" /\ cache.point = mode
          /\ ~(master.fallback /\ mode = "smart")
          => IF master'.up THEN Follows(mode)' ELSE known' = mode]_vars

\* Every poll of a device that is never configured smart takes its mode
\* (_auto_politikayi_coz): the step on which ChangeIsFollowed rests.
THEOREM ClassifyTakesMode == Spec /\ [](wanted # "smart") => SaidModeIsTaken
<1>1. ASSUME SessionInvariant, PolicyInvariant, MasterThere, [Next]_vars, NEW mode \in Modes,
             pc = "classify", pc' \in {"strings", "sleep", "record"}, master.configured = "auto",
             cache.point = mode, ~(master.fallback /\ mode = "smart")
      PROVE  IF master'.up THEN Follows(mode)' ELSE known' = mode
  <2>1. mode # Unknown
    BY DEF Modes, Unknown
  <2>2. ~(WaitForLink \/ AskMode \/ AwaitMode)
    BY <1>1, <2>1 DEF WaitForLink, AskMode, AwaitMode, Unclassified
  <2>3. ClassifyNothing \/ ObserveSmart \/ ObserveBoost \/ FallBack
    <3>1. ~(\/ Build \/ BuildFails \/ ReadLink \/ ReadStrings \/ SkipStrings \/ SkipSleep
            \/ CheckSleep \/ Judge \/ NotYet \/ Probe \/ Defer \/ Relink \/ Record
            \/ Forget \/ Crash \/ Stop)
      BY <1>1 DEF Build, BuildFails, ReadLink, ReadStrings, SkipStrings, SkipSleep, CheckSleep,
                  Judge, NotYet, Probe, Defer, Relink, Record, Forget, Crash, Stop, NewProcess
    <3>2. ~(Open \/ Close \/ Answer \/ (\E m \in Modes : Report(m)))
      BY <1>1, LinkSteps
    <3>3. ~(Command \/ RefreshAll \/ Reconfigure \/ UNCHANGED vars)
      BY <1>1 DEF Command, RefreshAll, Reconfigure, vars
    <3>4. ~Clock
      BY <1>1 DEF Clock, EvidenceAges, SilenceGrows, WindowEnds, ProbeDue, HoldEnds
    <3> QED
      BY <1>1, <2>2, <3>1, <3>2, <3>3, <3>4 DEF Next, Poll
  <2>4. IF master'.up THEN master'.policy = Rule(mode) ELSE known' = mode
    BY <1>1, <2>3, ClassifyPolicy DEF MasterThere
  <2> QED
    BY <2>4 DEF Follows, Rule
<1>2. SessionInvariant /\ PolicyInvariant /\ MasterThere /\ [Next]_vars =>
        [\A mode \in Modes :
            /\ pc = "classify" /\ pc' \in {"strings", "sleep", "record"}
            /\ master.configured = "auto" /\ cache.point = mode
            /\ ~(master.fallback /\ mode = "smart")
            => IF master'.up THEN Follows(mode)' ELSE known' = mode]_vars
  BY <1>1
<1> QED
  BY <1>2, PolicyInvariantHolds, PTL DEF Spec, SaidModeIsTaken

\* A new master of an auto device starts by the mode that was known before
\* (_oturum_durumunu_kur), whichever of its two memories had it.
NextMasterFollows ==
    [][wanted = "auto" /\ ~master.up /\ master'.up =>
          master'.policy = Rule(known) /\ Rule(known') = Rule(known)]_vars

\* A master appears only by a start.
LEMMA OnlyBuild ==
    ASSUME SessionInvariant, MasterThere, [Next]_vars, ~master.up, master'.up
    PROVE  Build
<1>1. ASSUME Poll, ~Build PROVE FALSE
  <2>1. pc # "classify"
    BY DEF MasterThere
  <2>2. ~(\/ ClassifyNothing \/ ObserveSmart \/ ObserveBoost \/ WaitForLink \/ AskMode
          \/ AwaitMode \/ FallBack)
    BY <2>1 DEF ClassifyNothing, ObserveSmart, ObserveBoost, Differs, WaitForLink, AskMode,
                AwaitMode, FallBack, Unclassified
  <2>3. ~(\/ ReadLink \/ ReadStrings \/ SkipStrings \/ SkipSleep \/ CheckSleep \/ Judge
          \/ NotYet \/ Probe \/ Defer \/ Record)
    <3>1. ~(ReadLink \/ ReadStrings \/ SkipStrings \/ SkipSleep \/ NotYet \/ Defer)
      BY DEF ReadLink, Fits, ReadStrings, SkipStrings, SkipSleep, NotYet, Defer
    <3>2. ~(CheckSleep \/ Judge \/ Probe)
      BY DEF CheckSleep, Judge, Probe
    <3>3. ~Record
      BY DEF Record
    <3> QED
      BY <3>1, <3>2, <3>3
  <2>4. ~BuildFails
    BY NoMasterFields DEF BuildFails
  <2>5. ~Relink
    <3>1. master \in Masters
      BY DEF SessionInvariant, TypeOK
    <3>2. Relink => Drop(master, cache)
      BY DEF Relink
    <3> QED
      BY <3>1, <3>2, Dropped
  <2> QED
    BY <1>1, <2>2, <2>3, <2>4, <2>5 DEF Poll
<1>2. ~(Forget \/ Crash \/ Stop)
  <2>1. Forget \/ Crash \/ Stop => master' = NoMaster
    BY DEF Forget, Crash, Stop, NewProcess
  <2> QED
    BY <2>1, NoMasterFields
<1>3. ~Clock
  <2>1. Clock => master'.up = master.up
    BY MasterFields
       DEF Clock, EvidenceAges, SilenceGrows, WindowEnds, ProbeDue, HoldEnds, SessionInvariant,
           TypeOK
  <2> QED
    BY <2>1
<1>4. ~(Command \/ RefreshAll \/ Reconfigure \/ UNCHANGED vars)
  BY DEF Command, RefreshAll, Reconfigure, vars
<1>5. ~(Open \/ Close \/ Answer \/ \E mode \in Modes : Report(mode))
  BY LinkSteps
<1> QED
  BY <1>1, <1>2, <1>3, <1>4, <1>5 DEF Next

\* Every start of a device that is never configured smart follows what was known
\* (_ensure_master): the other step on which ChangeIsFollowed rests.
THEOREM StartKeepsPolicy == Spec /\ [](wanted # "smart") => NextMasterFollows
<1>1. ASSUME SessionInvariant, PolicyInvariant, MasterThere, wanted # "smart", [Next]_vars,
             wanted = "auto",
             ~master.up, master'.up
      PROVE  master'.policy = Rule(known) /\ Rule(known') = Rule(known)
  <2>1. Build
    BY <1>1, OnlyBuild
  <2> QED
    BY <1>1, <2>1, BuildPolicy
<1>2. SessionInvariant /\ PolicyInvariant /\ MasterThere /\ wanted # "smart" /\ [Next]_vars =>
        [wanted = "auto" /\ ~master.up /\ master'.up =>
            master'.policy = Rule(known) /\ Rule(known') = Rule(known)]_vars
  BY <1>1
<1> QED
  BY <1>2, PolicyInvariantHolds, PTL DEF Spec, NextMasterFollows

-----------------------------------------------------------------------------
(* The probes of a lost device                                             *)

\* A poll stands before the relink only when the device was asked in vain as
\* often as configured (_kopuk_cihazi_yokla).
TriedOut == pc = "relink" => tries = RelinkAfter + 1

LEMMA TriedOutStep ==
    ASSUME SessionInvariant, TriedOut, [Next]_vars
    PROVE  TriedOut'
<1> USE DEF TriedOut
<1>0. tries \in 0..RelinkAfter + 1 /\ (tries = RelinkAfter + 1 => pc = "relink")
  BY DEF SessionInvariant, TypeOK, TriesOK
<1>1. CASE Probe
  BY <1>0, <1>1 DEF Probe
<1>2. CASE Poll /\ ~Probe
  <2>1. pc' = "relink" => Build \/ BuildFails
    BY <1>2 DEF Poll, ReadLink, ClassifyNothing, ObserveSmart, ObserveBoost, WaitForLink, AskMode,
       AwaitMode, FallBack, ScanOrDrop, Drop, ReadStrings, SkipStrings, SkipSleep, CheckSleep, Judge,
       NotYet, Defer, Relink, Record
  <2>2. Build \/ BuildFails => pc' # "relink"
    BY DEF Build, BuildFails
  <2> QED
    BY <2>1, <2>2
<1>3. CASE Clock
  BY <1>3 DEF Clock, EvidenceAges, SilenceGrows, WindowEnds, ProbeDue, HoldEnds
<1>4. CASE Command \/ RefreshAll \/ Reconfigure \/ Forget \/ UNCHANGED vars
  BY <1>4 DEF Command, RefreshAll, Reconfigure, Forget, vars
<1>5. CASE Crash \/ Stop
  <2>1. NewProcess
    BY <1>5 DEF Crash, Stop
  <2> QED
    BY <2>1 DEF NewProcess
<1>6. CASE Open \/ Close \/ Answer \/ \E mode \in Modes : Report(mode)
  BY <1>6, LinkSteps
<1> QED
  BY <1>1, <1>2, <1>3, <1>4, <1>5, <1>6 DEF Next

\* A relink comes after the probes, in every reachable state.
THEOREM RelinkIsEarned == Spec => []TriedOut
<1>1. Init => TriedOut
  BY DEF Init, TriedOut
<1>2. SessionInvariant /\ TriedOut /\ [Next]_vars => TriedOut'
  BY TriedOutStep
<1> QED
  BY <1>1, <1>2, SessionInvariantHolds, PTL DEF Spec

\* While a connection stays half open nothing forgets the probes: their count
\* only grows, and a relink that is put off costs one probe (_oku,
\* _relink_denemesini_geri_al).
ProbesAddUp ==
    [][HalfOpen /\ HalfOpen' =>
          \/ tries' \in {tries, tries + 1}
          \/ tries = RelinkAfter + 1 /\ tries' = RelinkAfter /\ hold]_vars

LEMMA ProbeStep ==
    ASSUME SessionInvariant, TriedOut, [Next]_vars, HalfOpen, HalfOpen'
    PROVE  \/ tries' \in {tries, tries + 1}
           \/ tries = RelinkAfter + 1 /\ tries' = RelinkAfter /\ hold
<1>1. /\ master.up /\ master'.up /\ ~cache.fresh /\ cache.state = "lost"
  BY DEF HalfOpen
<1>2. CASE Judge
  <2>1. PICK over \in BOOLEAN : cache' = [cache EXCEPT !.state = Judged(over)]
    BY <1>2 DEF Judge
  <2>2. cache'.state = "lost"
    BY DEF HalfOpen
  <2>3. ~((saw /\ cache.fresh) \/ cache'.state = "online")
    BY <1>1, <2>2
  <2>4. tries' = tries
    BY <1>2, <2>3 DEF Judge
  <2> QED
    BY <2>4
<1>3. CASE Probe
  BY <1>3 DEF Probe
<1>4. CASE Defer
  BY <1>4 DEF Defer, TriedOut
<1>5. CASE Relink \/ Crash \/ Stop
  <2>1. ~master'.up
    <3>1. CASE Relink
      BY <3>1, MasterFields DEF Relink, Drop, SessionInvariant, TypeOK
    <3>2. CASE Crash \/ Stop
      <4>1. NewProcess
        BY <3>2 DEF Crash, Stop
      <4> QED
        BY <4>1, NoMasterFields DEF NewProcess
    <3> QED
      BY <1>5, <3>1, <3>2
  <2> QED
    BY <1>1, <2>1
<1>6. CASE \/ Build \/ BuildFails \/ ReadLink \/ ClassifyNothing \/ ObserveSmart \/ ObserveBoost
           \/ WaitForLink \/ AskMode \/ AwaitMode \/ FallBack \/ ReadStrings \/ SkipStrings
           \/ SkipSleep \/ CheckSleep \/ NotYet \/ Record
  BY <1>6 DEF Build, BuildFails, ReadLink, ClassifyNothing, ObserveSmart, ObserveBoost,
     WaitForLink, AskMode, AwaitMode, FallBack, ReadStrings, SkipStrings, SkipSleep, CheckSleep,
     NotYet, Record
<1>7. CASE Clock \/ Command \/ RefreshAll \/ Reconfigure \/ Forget \/ UNCHANGED vars
  BY <1>7 DEF Clock, EvidenceAges, SilenceGrows, WindowEnds, ProbeDue, HoldEnds, Command,
     RefreshAll, Reconfigure, Forget, vars
<1>8. CASE Open \/ Close \/ Answer \/ \E mode \in Modes : Report(mode)
  BY <1>8, LinkSteps
<1> QED
  BY <1>2, <1>3, <1>4, <1>5, <1>6, <1>7, <1>8 DEF Next, Poll

\* In every step the probes of a half open connection add up
\* (_kopuk_cihazi_yokla): what HalfOpenIsReplaced rests on.
THEOREM ProbesAreKept == Spec => ProbesAddUp
<1>1. SessionInvariant /\ TriedOut /\ [Next]_vars =>
        [HalfOpen /\ HalfOpen' =>
            \/ tries' \in {tries, tries + 1}
            \/ tries = RelinkAfter + 1 /\ tries' = RelinkAfter /\ hold]_vars
  BY ProbeStep
<1> QED
  BY <1>1, SessionInvariantHolds, RelinkIsEarned, PTL DEF Spec, ProbesAddUp

=============================================================================
