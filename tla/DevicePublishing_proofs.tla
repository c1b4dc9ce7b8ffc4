----------------------- MODULE DevicePublishing_proofs -----------------------
(***************************************************************************)
(* No change of a point is lost between the device and the publisher, for  *)
(* any number of points, values and overlapping polls and any number of    *)
(* publications that raise; and if polls do not overlap, a point shown as  *)
(* lost is shown again.  Of a rebuilt master the same is proved, provided  *)
(* that it took over while no poll held readings of the one before it.  And*)
(* a device that gives no more evidence is not recovered again and again.  *)
(***************************************************************************)
EXTENDS DevicePublishing, TLAPS

\* The k-th rebuild comes while no poll holds readings of the master before it.
CleanRebuild(k) == Rebuild /\ rebuilds' = k => \A w \in Poller : taken[w] = {}

\* CleanWasPublished and LostIsRepaired of the k-th master, counted from 0.
CleanIn(k) == rebuilds = k => \A p \in Cached : p \notin dirty => p \in sent

LostIn(k) ==
    rebuilds = k => \A p \in Cached : shown[p] = Lost /\ state = "online" => p \in dirty

\* The versions of a cache only grow: a mark is younger than every token.
VersionsBounded(k) ==
    /\ \A p \in Point : rank[p] <= size /\ version[p] <= seq
    /\ \A p \in Point : rank[p] = 0 <=> value[p] = NoValue
    /\ rebuilds = k => \A w \in Poller : \A r \in taken[w] : r.version <= seq /\ r.master = k

\* A poll about to commit holds, among its tokens, none that would clear the
\* mark of a reading that was not published.
CommitIsSafe(k) ==
    rebuilds = k => \A w \in Poller : \A r \in taken[w] :
        pc[w] = "commit" /\ r.version = version[r.point] => r.point \in sent

PublishedInvariant(k) == TypeOK /\ VersionsBounded(k) /\ CommitIsSafe(k) /\ CleanIn(k)

LEMMA InitInvariant == ASSUME NEW k \in Nat PROVE Init => PublishedInvariant(k)
  <1> SUFFICES ASSUME Init PROVE PublishedInvariant(k)
    OBVIOUS
  <1>1. LinkTypeOK
    BY DEF Init, LinkTypeOK, States
  <1>2. CacheTypeOK
    BY DEF Init, CacheTypeOK
  <1>3. PollTypeOK
    BY DEF Init, PollTypeOK, Stages, NothingSeen, NoAlarm
  <1>4. WorldTypeOK
    BY DEF Init, WorldTypeOK
  <1>5. VersionsBounded(k) /\ CommitIsSafe(k) /\ CleanIn(k)
    BY DEF Init, VersionsBounded, CommitIsSafe, CleanIn, Cached
  <1> QED BY <1>1, <1>2, <1>3, <1>4, <1>5 DEF PublishedInvariant, TypeOK

\* The link keeps its types: for every action, what it leaves and what it sets.
LEMMA LinkTypes == ASSUME TypeOK, [Next]_vars PROVE LinkTypeOK'
  <1> USE DEF LinkTypeOK, States
  <1>0. LinkTypeOK
    BY DEF TypeOK
  <1>s. CASE UNCHANGED vars
    <2>1. UNCHANGED <<policy, linkVars>>
      BY <1>s DEF vars
    <2> QED BY <1>0, <2>1 DEF linkVars
  <1>1. CASE OpenLink
    <2>1. UNCHANGED <<policy, state, fresh, contacted, silent, graceOver, deferral, pendingPublish, announced, gen>>
      BY <1>1 DEF OpenLink
    <2>2. connected' \in BOOLEAN
      BY <1>0, <1>1 DEF OpenLink
    <2>3. opening' \in BOOLEAN
      BY <1>0, <1>1 DEF OpenLink
    <2>4. relinkOk' \in BOOLEAN
      BY <1>0, <1>1 DEF OpenLink
    <2>5. idle' \in BOOLEAN
      BY <1>0, <1>1 DEF OpenLink
    <2>6. evidence' \in BOOLEAN
      BY <1>0, <1>1 DEF OpenLink
    <2> QED BY <1>0, <2>1, <2>2, <2>3, <2>4, <2>5, <2>6
  <1>2. CASE BeginAfterOpen
    <2>1. UNCHANGED <<policy, connected, idle, evidence, fresh, contacted, silent, deferral, announced, gen>>
      BY <1>2 DEF BeginAfterOpen, BeginRecovery
    <2>2. opening' \in BOOLEAN
      BY <1>0, <1>2 DEF BeginAfterOpen, BeginRecovery
    <2>3. state' \in States
      BY <1>0, <1>2 DEF BeginAfterOpen, BeginRecovery
    <2>4. graceOver' \in BOOLEAN
      BY <1>0, <1>2 DEF BeginAfterOpen, BeginRecovery
    <2>5. pendingPublish' \in BOOLEAN
      BY <1>0, <1>2 DEF BeginAfterOpen, BeginRecovery
    <2>6. relinkOk' \in BOOLEAN
      BY <1>0, <1>2 DEF BeginAfterOpen, BeginRecovery
    <2> QED BY <1>0, <2>1, <2>2, <2>3, <2>4, <2>5, <2>6
  <1>3. CASE CloseLink
    <2>1. UNCHANGED <<policy, opening, evidence, contacted, silent, relinkOk, deferral, announced, gen>>
      BY <1>3 DEF CloseLink
    <2>2. connected' \in BOOLEAN
      BY <1>0, <1>3 DEF CloseLink, Smart
    <2>3. idle' \in BOOLEAN
      BY <1>0, <1>3 DEF CloseLink, Smart
    <2>4. state' \in States
      BY <1>0, <1>3 DEF CloseLink, Smart
    <2>5. fresh' \in BOOLEAN
      BY <1>0, <1>3 DEF CloseLink, Smart
    <2>6. graceOver' \in BOOLEAN
      BY <1>0, <1>3 DEF CloseLink, Smart
    <2>7. pendingPublish' \in BOOLEAN
      BY <1>0, <1>3 DEF CloseLink, Smart
    <2> QED BY <1>0, <2>1, <2>2, <2>3, <2>4, <2>5, <2>6, <2>7
  <1>4. CASE Evidence
    <2>1. UNCHANGED <<policy, connected, opening, state, idle, graceOver, deferral, pendingPublish, announced, gen>>
      BY <1>4 DEF Evidence, Heard
    <2>2. fresh' \in BOOLEAN
      BY <1>0, <1>4 DEF Evidence, Heard
    <2>3. evidence' \in BOOLEAN
      BY <1>0, <1>4 DEF Evidence, Heard
    <2>4. contacted' \in BOOLEAN
      BY <1>0, <1>4 DEF Evidence, Heard
    <2>5. silent' \in BOOLEAN
      BY <1>0, <1>4 DEF Evidence, Heard
    <2>6. relinkOk' \in BOOLEAN
      BY <1>0, <1>4 DEF Evidence, Heard
    <2> QED BY <1>0, <2>1, <2>2, <2>3, <2>4, <2>5, <2>6
  <1>5. CASE EvidenceAges
    <2>1. UNCHANGED <<policy, connected, opening, state, idle, evidence, contacted, silent, graceOver, relinkOk, deferral, pendingPublish, announced, gen>>
      BY <1>5 DEF EvidenceAges
    <2>2. fresh' \in BOOLEAN
      BY <1>0, <1>5 DEF EvidenceAges
    <2> QED BY <1>0, <2>1, <2>2
  <1>6. CASE GraceEnds
    <2>1. UNCHANGED <<policy, connected, opening, state, idle, evidence, fresh, contacted, silent, relinkOk, deferral, pendingPublish, announced, gen>>
      BY <1>6 DEF GraceEnds
    <2>2. graceOver' \in BOOLEAN
      BY <1>0, <1>6 DEF GraceEnds
    <2> QED BY <1>0, <2>1, <2>2
  <1>7. CASE DeferralEnds
    <2>1. UNCHANGED <<policy, connected, opening, state, idle, evidence, fresh, contacted, silent, graceOver, relinkOk, pendingPublish, announced, gen>>
      BY <1>7 DEF DeferralEnds
    <2>2. deferral' \in {"none", "running", "over"}
      BY <1>0, <1>7 DEF DeferralEnds
    <2> QED BY <1>0, <2>1, <2>2
  <1>8. CASE SilenceGrows
    <2>1. UNCHANGED <<policy, connected, opening, state, idle, evidence, fresh, contacted, graceOver, relinkOk, deferral, pendingPublish, announced, gen>>
      BY <1>8 DEF SilenceGrows
    <2>2. silent' \in BOOLEAN
      BY <1>0, <1>8 DEF SilenceGrows
    <2> QED BY <1>0, <2>1, <2>2
  <1>9. CASE Refresh
    <2>1. UNCHANGED <<policy, linkVars>>
      BY <1>9 DEF Refresh
    <2> QED BY <1>0, <2>1 DEF linkVars
  <1>10. CASE Rebuild
    <2>1. UNCHANGED <<policy>>
      BY <1>10 DEF Rebuild
    <2>2. connected' \in BOOLEAN
      BY <1>0, <1>10 DEF Rebuild
    <2>3. opening' \in BOOLEAN
      BY <1>0, <1>10 DEF Rebuild
    <2>4. state' \in States
      BY <1>0, <1>10 DEF Rebuild
    <2>5. idle' \in BOOLEAN
      BY <1>0, <1>10 DEF Rebuild
    <2>6. evidence' \in BOOLEAN
      BY <1>0, <1>10 DEF Rebuild
    <2>7. fresh' \in BOOLEAN
      BY <1>0, <1>10 DEF Rebuild
    <2>8. contacted' \in BOOLEAN
      BY <1>0, <1>10 DEF Rebuild
    <2>9. silent' \in BOOLEAN
      BY <1>0, <1>10 DEF Rebuild
    <2>10. graceOver' \in BOOLEAN
      BY <1>0, <1>10 DEF Rebuild
    <2>11. relinkOk' \in BOOLEAN
      BY <1>0, <1>10 DEF Rebuild
    <2>12. deferral' \in {"none", "running", "over"}
      BY <1>0, <1>10 DEF Rebuild
    <2>13. pendingPublish' \in BOOLEAN
      BY <1>0, <1>10 DEF Rebuild
    <2>14. announced' \in BOOLEAN
      BY <1>0, <1>10 DEF Rebuild
    <2>15. gen' \in Nat
      BY <1>0, <1>10 DEF Rebuild
    <2> QED BY <1>0, <2>1, <2>2, <2>3, <2>4, <2>5, <2>6, <2>7, <2>8, <2>9, <2>10, <2>11, <2>12, <2>13, <2>14, <2>15
  <1>11. ASSUME NEW p \in Point, NEW v \in Value, Measure(p, v) PROVE LinkTypeOK'
    <2>1. UNCHANGED <<policy, connected, opening, state, idle, graceOver, deferral, pendingPublish, announced, gen>>
      BY <1>11 DEF Measure, Heard
    <2>2. fresh' \in BOOLEAN
      BY <1>0, <1>11 DEF Measure, Heard
    <2>3. evidence' \in BOOLEAN
      BY <1>0, <1>11 DEF Measure, Heard
    <2>4. contacted' \in BOOLEAN
      BY <1>0, <1>11 DEF Measure, Heard
    <2>5. silent' \in BOOLEAN
      BY <1>0, <1>11 DEF Measure, Heard
    <2>6. relinkOk' \in BOOLEAN
      BY <1>0, <1>11 DEF Measure, Heard
    <2> QED BY <1>0, <2>1, <2>2, <2>3, <2>4, <2>5, <2>6
  <1>12. ASSUME NEW p \in Point, NEW v \in Value, Confirm(p, v) PROVE LinkTypeOK'
    <2>1. UNCHANGED <<policy, connected, opening, idle, announced, gen>>
      BY <1>12 DEF Confirm, Heard
    <2>2. fresh' \in BOOLEAN
      BY <1>0, <1>12 DEF Confirm, Heard
    <2>3. evidence' \in BOOLEAN
      BY <1>0, <1>12 DEF Confirm, Heard
    <2>4. contacted' \in BOOLEAN
      BY <1>0, <1>12 DEF Confirm, Heard
    <2>5. silent' \in BOOLEAN
      BY <1>0, <1>12 DEF Confirm, Heard
    <2>6. relinkOk' \in BOOLEAN
      BY <1>0, <1>12 DEF Confirm, Heard
    <2>7. state' \in States
      BY <1>0, <1>12 DEF Confirm, Heard
    <2>8. pendingPublish' \in BOOLEAN
      BY <1>0, <1>12 DEF Confirm, Heard
    <2>9. deferral' \in {"none", "running", "over"}
      BY <1>0, <1>12 DEF Confirm, Heard
    <2>10. graceOver' \in BOOLEAN
      BY <1>0, <1>12 DEF Confirm, Heard
    <2> QED BY <1>0, <2>1, <2>2, <2>3, <2>4, <2>5, <2>6, <2>7, <2>8, <2>9, <2>10
  <1>w. ASSUME NEW w \in Poller, PollStep(w) PROVE LinkTypeOK'
    <2>1. CASE PollStart(w)
      <3>1. UNCHANGED <<policy, linkVars>>
        BY <2>1 DEF PollStart
      <3> QED BY <1>0, <3>1 DEF linkVars
    <2>2. CASE ReadEvidence(w)
      <3>1. UNCHANGED <<policy, linkVars>>
        BY <2>2 DEF ReadEvidence
      <3> QED BY <1>0, <3>1 DEF linkVars
    <2>3. CASE CheckSleep(w)
      <3>1. UNCHANGED <<policy, linkVars>>
        BY <2>3 DEF CheckSleep
      <3> QED BY <1>0, <3>1 DEF linkVars
    <2>4. CASE EnterSleep(w)
      <3>1. UNCHANGED <<policy, connected, opening, evidence, fresh, graceOver, relinkOk, deferral, pendingPublish, announced, gen>>
        BY <2>4 DEF EnterSleep
      <3>2. idle' \in BOOLEAN
        BY <1>0, <2>4 DEF EnterSleep
      <3>3. state' \in States
        BY <1>0, <2>4 DEF EnterSleep
      <3>4. contacted' \in BOOLEAN
        BY <1>0, <2>4 DEF EnterSleep
      <3>5. silent' \in BOOLEAN
        BY <1>0, <2>4 DEF EnterSleep
      <3> QED BY <1>0, <3>1, <3>2, <3>3, <3>4, <3>5
    <2>5. CASE CheckSilence(w)
      <3>1. UNCHANGED <<policy, linkVars>>
        BY <2>5 DEF CheckSilence
      <3> QED BY <1>0, <3>1 DEF linkVars
    <2>6. CASE GiveUp(w)
      <3>1. UNCHANGED <<policy, connected, opening, fresh, contacted, silent, graceOver, relinkOk, deferral, pendingPublish, announced, gen>>
        BY <2>6 DEF GiveUp
      <3>2. idle' \in BOOLEAN
        BY <1>0, <2>6 DEF GiveUp
      <3>3. evidence' \in BOOLEAN
        BY <1>0, <2>6 DEF GiveUp
      <3>4. state' \in States
        BY <1>0, <2>6 DEF GiveUp
      <3> QED BY <1>0, <3>1, <3>2, <3>3, <3>4
    <2>7. CASE ReadState(w)
      <3>1. UNCHANGED <<policy, linkVars>>
        BY <2>7 DEF ReadState
      <3> QED BY <1>0, <3>1 DEF linkVars
    <2>8. CASE StaleEdge(w)
      <3>1. UNCHANGED <<policy, connected, opening, idle, evidence, fresh, contacted, silent, deferral, announced, gen>>
        BY <2>8 DEF StaleEdge, BeginRecovery
      <3>2. state' \in States
        BY <1>0, <2>8 DEF StaleEdge, BeginRecovery
      <3>3. graceOver' \in BOOLEAN
        BY <1>0, <2>8 DEF StaleEdge, BeginRecovery
      <3>4. pendingPublish' \in BOOLEAN
        BY <1>0, <2>8 DEF StaleEdge, BeginRecovery
      <3>5. relinkOk' \in BOOLEAN
        BY <1>0, <2>8 DEF StaleEdge, BeginRecovery
      <3> QED BY <1>0, <3>1, <3>2, <3>3, <3>4, <3>5
    <2>9. CASE CheckGrace(w)
      <3>1. UNCHANGED <<policy, linkVars>>
        BY <2>9 DEF CheckGrace
      <3> QED BY <1>0, <3>1 DEF linkVars
    <2>10. CASE FailRecovery(w)
      <3>1. UNCHANGED <<policy, connected, opening, idle, evidence, fresh, contacted, silent, deferral, announced, gen>>
        BY <2>10 DEF FailRecovery
      <3>2. state' \in States
        BY <1>0, <2>10 DEF FailRecovery
      <3>3. graceOver' \in BOOLEAN
        BY <1>0, <2>10 DEF FailRecovery
      <3>4. pendingPublish' \in BOOLEAN
        BY <1>0, <2>10 DEF FailRecovery
      <3>5. relinkOk' \in BOOLEAN
        BY <1>0, <2>10 DEF FailRecovery
      <3> QED BY <1>0, <3>1, <3>2, <3>3, <3>4, <3>5
    <2>11. CASE CheckRelink(w)
      <3>1. UNCHANGED <<policy, linkVars>>
        BY <2>11 DEF CheckRelink
      <3> QED BY <1>0, <3>1 DEF linkVars
    <2>12. CASE Restart(w)
      <3>1. UNCHANGED <<policy, connected, opening, idle, evidence, fresh, contacted, silent, deferral, announced, gen>>
        BY <2>12 DEF Restart, BeginRecovery
      <3>2. state' \in States
        BY <1>0, <2>12 DEF Restart, BeginRecovery
      <3>3. graceOver' \in BOOLEAN
        BY <1>0, <2>12 DEF Restart, BeginRecovery
      <3>4. pendingPublish' \in BOOLEAN
        BY <1>0, <2>12 DEF Restart, BeginRecovery
      <3>5. relinkOk' \in BOOLEAN
        BY <1>0, <2>12 DEF Restart, BeginRecovery
      <3> QED BY <1>0, <3>1, <3>2, <3>3, <3>4, <3>5
    <2>13. CASE Defer(w)
      <3>1. UNCHANGED <<policy, connected, opening, state, idle, evidence, fresh, contacted, silent, graceOver, relinkOk, pendingPublish, announced, gen>>
        BY <2>13 DEF Defer
      <3>2. deferral' \in {"none", "running", "over"}
        BY <1>0, <2>13 DEF Defer
      <3> QED BY <1>0, <3>1, <3>2
    <2>14. CASE Announce(w)
      <3>1. UNCHANGED <<policy, linkVars>>
        BY <2>14 DEF Announce
      <3> QED BY <1>0, <3>1 DEF linkVars
    <2>15. CASE Consume(w)
      <3>1. UNCHANGED <<policy, connected, opening, state, idle, evidence, fresh, contacted, silent, graceOver, relinkOk, deferral, announced, gen>>
        BY <2>15 DEF Consume
      <3>2. pendingPublish' \in BOOLEAN
        BY <1>0, <2>15 DEF Consume
      <3> QED BY <1>0, <3>1, <3>2
    <2>16. CASE ResetAnnounce(w)
      <3>1. UNCHANGED <<policy, connected, opening, state, idle, evidence, fresh, contacted, silent, graceOver, relinkOk, deferral, pendingPublish>>
        BY <2>16 DEF ResetAnnounce
      <3>2. announced' \in BOOLEAN
        BY <1>0, <2>16 DEF ResetAnnounce
      <3>3. gen' \in Nat
        BY <1>0, <2>16 DEF ResetAnnounce
      <3> QED BY <1>0, <3>1, <3>2, <3>3
    <2>17. CASE Redirty(w)
      <3>1. UNCHANGED <<policy, linkVars>>
        BY <2>17 DEF Redirty
      <3> QED BY <1>0, <3>1 DEF linkVars
    <2>18. CASE Publish(w)
      <3>1. UNCHANGED <<policy, linkVars>>
        BY <2>18 DEF Publish
      <3> QED BY <1>0, <3>1 DEF linkVars
    <2>19. CASE PublishFails(w)
      <3>1. UNCHANGED <<policy, linkVars>>
        BY <2>19 DEF PublishFails
      <3> QED BY <1>0, <3>1 DEF linkVars
    <2>20. CASE Commit(w)
      <3>1. UNCHANGED <<policy, connected, opening, state, idle, evidence, fresh, contacted, silent, graceOver, relinkOk, deferral, pendingPublish, gen>>
        BY <2>20 DEF Commit
      <3>2. announced' \in BOOLEAN
        BY <1>0, <2>20 DEF Commit
      <3> QED BY <1>0, <3>1, <3>2
    <2>21. ASSUME NEW p \in Point, Peek(w, p) PROVE LinkTypeOK'
      <3>1. UNCHANGED <<policy, linkVars>>
        BY <2>21 DEF Peek
      <3> QED BY <1>0, <3>1 DEF linkVars
    <2> HIDE DEF LinkTypeOK
    <2> QED BY <1>w, <2>1, <2>2, <2>3, <2>4, <2>5, <2>6, <2>7, <2>8, <2>9, <2>10, <2>11, <2>12, <2>13, <2>14, <2>15, <2>16, <2>17, <2>18, <2>19, <2>20, <2>21 DEF PollStep
  <1> HIDE DEF LinkTypeOK
  <1> QED BY <1>0, <1>s, <1>1, <1>2, <1>3, <1>4, <1>5, <1>6, <1>7, <1>8, <1>9, <1>10, <1>11, <1>12, <1>w DEF Next, Speaks

-----------------------------------------------------------------------------
(* What a step does to the polls and to the collector.                     *)

\* Going to a stage moves one poll and keeps the types.
LEMMA GotoTypes ==
    ASSUME PollTypeOK, NEW w \in Poller, NEW stage \in Stages, Goto(w, stage)
    PROVE  /\ pc' \in [Poller -> Stages]
           /\ saw' \in [Poller -> [connected: BOOLEAN, stale: BOOLEAN]]
           /\ pc'[w] = stage
           /\ \A u \in Poller : u # w => pc'[u] = pc[u]
  <1>1. pc' = [pc EXCEPT ![w] = stage]
    BY DEF Goto
  <1>2. saw' \in [Poller -> [connected: BOOLEAN, stale: BOOLEAN]]
    BY DEF Goto, PollTypeOK, NothingSeen
  <1> QED BY <1>1, <1>2 DEF PollTypeOK

\* A step that concerns neither the values nor the readings under way.
Quiet ==
    /\ UNCHANGED <<valueVars, taken, shown, sent, rebuilds>>
    /\ \A w \in Poller : pc'[w] = "commit" => pc[w] = "commit"

LEMMA QuietStep ==
    ASSUME NEW k \in Nat, PublishedInvariant(k), Quiet
    PROVE  CacheTypeOK' /\ VersionsBounded(k)' /\ CommitIsSafe(k)' /\ CleanIn(k)'
  <1>1. UNCHANGED <<value, rank, size, dirty, version, seq, taken, sent, rebuilds>>
    BY DEF Quiet, valueVars
  <1>2. CacheTypeOK' /\ CleanIn(k)'
    BY <1>1 DEF PublishedInvariant, TypeOK, CacheTypeOK, CleanIn, Cached
  <1>3. VersionsBounded(k)'
    BY <1>1 DEF PublishedInvariant, VersionsBounded
  <1>4. CommitIsSafe(k)'
    BY <1>1 DEF PublishedInvariant, CommitIsSafe, Quiet
  <1> QED BY <1>2, <1>3, <1>4

\* The IO thread's callbacks that bring no value, and time.
QuietEvent ==
    \/ OpenLink \/ BeginAfterOpen \/ CloseLink \/ Evidence
    \/ EvidenceAges \/ GraceEnds \/ DeferralEnds \/ SilenceGrows

LEMMA QuietEventStep ==
    ASSUME TypeOK, QuietEvent
    PROVE  Quiet /\ PollTypeOK' /\ WorldTypeOK'
  <1>1. CASE OpenLink
    BY <1>1 DEF OpenLink, Quiet, valueVars, pollVars, worldVars, countVars, TypeOK, PollTypeOK, WorldTypeOK
  <1>2. CASE BeginAfterOpen
    BY <1>2 DEF BeginAfterOpen, Quiet, valueVars, pollVars, worldVars, countVars, TypeOK, PollTypeOK, WorldTypeOK
  <1>3. CASE CloseLink
    BY <1>3 DEF CloseLink, Quiet, valueVars, pollVars, worldVars, countVars, TypeOK, PollTypeOK, WorldTypeOK
  <1>4. CASE Evidence
    BY <1>4 DEF Evidence, Quiet, valueVars, pollVars, worldVars, countVars, TypeOK, PollTypeOK, WorldTypeOK
  <1>5. CASE EvidenceAges
    BY <1>5 DEF EvidenceAges, Quiet, valueVars, pollVars, worldVars, countVars, TypeOK, PollTypeOK, WorldTypeOK
  <1>6. CASE GraceEnds
    BY <1>6 DEF GraceEnds, Quiet, valueVars, pollVars, worldVars, countVars, TypeOK, PollTypeOK, WorldTypeOK
  <1>7. CASE DeferralEnds
    BY <1>7 DEF DeferralEnds, Quiet, valueVars, pollVars, worldVars, countVars, TypeOK, PollTypeOK, WorldTypeOK
  <1>8. CASE SilenceGrows
    BY <1>8 DEF SilenceGrows, Quiet, valueVars, pollVars, worldVars, countVars, TypeOK, PollTypeOK, WorldTypeOK
  <1> QED BY <1>1, <1>2, <1>3, <1>4, <1>5, <1>6, <1>7, <1>8 DEF QuietEvent

\* The poll's decisions: they neither read values nor confirm any.
QuietPoll(w) ==
    \/ PollStart(w) \/ ReadEvidence(w) \/ CheckSleep(w) \/ EnterSleep(w) \/ CheckSilence(w)
    \/ GiveUp(w) \/ ReadState(w) \/ StaleEdge(w) \/ CheckGrace(w) \/ FailRecovery(w)
    \/ CheckRelink(w) \/ Restart(w) \/ Defer(w) \/ Announce(w) \/ Consume(w) \/ ResetAnnounce(w)

LEMMA QuietPollStep ==
    ASSUME TypeOK, NEW w \in Poller, QuietPoll(w)
    PROVE  Quiet /\ PollTypeOK' /\ WorldTypeOK'
  <1> DEFINE stages == Stages \ {"commit"}
  <1>0. PollTypeOK /\ WorldTypeOK /\ gen \in Nat
    BY DEF TypeOK, LinkTypeOK
  <1>1. CASE PollStart(w)
    <2>1. pc' \in [Poller -> Stages] /\ \A u \in Poller : pc'[u] = "commit" => pc[u] = "commit"
      BY <1>0, <1>1 DEF PollStart, PollTypeOK, Stages
    <2>2. saw' \in [Poller -> [connected: BOOLEAN, stale: BOOLEAN]]
      BY <1>0, <1>1 DEF PollStart, PollTypeOK, TypeOK, LinkTypeOK
    <2>3. UNCHANGED <<valueVars, todo, taken, alarm, worldVars, countVars>>
      BY <1>1 DEF PollStart
    <2> QED BY <1>0, <2>1, <2>2, <2>3 DEF Quiet, PollTypeOK, WorldTypeOK, worldVars, countVars
  <1>2. CASE ReadEvidence(w)
    <2>1. pc' \in [Poller -> Stages] /\ \A u \in Poller : pc'[u] = "commit" => pc[u] = "commit"
      BY <1>0, <1>2 DEF ReadEvidence, PollTypeOK, Stages
    <2>2. saw' \in [Poller -> [connected: BOOLEAN, stale: BOOLEAN]]
      BY <1>0, <1>2 DEF ReadEvidence, PollTypeOK, TypeOK, LinkTypeOK
    <2>3. UNCHANGED <<valueVars, todo, taken, alarm, worldVars, countVars>>
      BY <1>2 DEF ReadEvidence
    <2> QED BY <1>0, <2>1, <2>2, <2>3 DEF Quiet, PollTypeOK, WorldTypeOK, worldVars, countVars
  <1>3. CASE CheckSleep(w)
    <2>1. \E stage \in stages : Goto(w, stage)
      BY <1>3 DEF CheckSleep, Stages
    <2>2. PICK stage \in stages : Goto(w, stage)
      BY <2>1
    <2>3. UNCHANGED <<valueVars, todo, taken, alarm, worldVars, countVars>>
      BY <1>3 DEF CheckSleep
    <2> QED BY <1>0, <2>2, <2>3, GotoTypes DEF Quiet, PollTypeOK, WorldTypeOK, worldVars, countVars
  <1>4. CASE EnterSleep(w)
    <2>1. \E stage \in stages : Goto(w, stage)
      BY <1>4 DEF EnterSleep, Stages
    <2>2. PICK stage \in stages : Goto(w, stage)
      BY <2>1
    <2>3. UNCHANGED <<valueVars, todo, taken, alarm, worldVars, countVars>>
      BY <1>4 DEF EnterSleep
    <2> QED BY <1>0, <2>2, <2>3, GotoTypes DEF Quiet, PollTypeOK, WorldTypeOK, worldVars, countVars
  <1>5. CASE CheckSilence(w)
    <2>1. \E stage \in stages : Goto(w, stage)
      BY <1>5 DEF CheckSilence, Stages
    <2>2. PICK stage \in stages : Goto(w, stage)
      BY <2>1
    <2>3. UNCHANGED <<valueVars, taken, alarm, worldVars, countVars>>
      BY <1>5 DEF CheckSilence
    <2>4. todo' \in [Poller -> SUBSET Point]
      BY <1>0, <1>5 DEF CheckSilence, PollTypeOK
    <2> QED BY <1>0, <2>2, <2>3, <2>4, GotoTypes DEF Quiet, PollTypeOK, WorldTypeOK, worldVars, countVars
  <1>6. CASE GiveUp(w)
    <2>1. \E stage \in stages : Goto(w, stage)
      BY <1>6 DEF GiveUp, Stages
    <2>2. PICK stage \in stages : Goto(w, stage)
      BY <2>1
    <2>3. UNCHANGED <<valueVars, todo, taken, alarm, worldVars, countVars>>
      BY <1>6 DEF GiveUp
    <2> QED BY <1>0, <2>2, <2>3, GotoTypes DEF Quiet, PollTypeOK, WorldTypeOK, worldVars, countVars
  <1>7. CASE ReadState(w)
    <2>1. \E stage \in stages : Goto(w, stage)
      BY <1>7 DEF ReadState, WhenIn, WhenLost, Stages
    <2>2. PICK stage \in stages : Goto(w, stage)
      BY <2>1
    <2>3. UNCHANGED <<valueVars, todo, taken, alarm, worldVars, countVars>>
      BY <1>7 DEF ReadState
    <2> QED BY <1>0, <2>2, <2>3, GotoTypes DEF Quiet, PollTypeOK, WorldTypeOK, worldVars, countVars
  <1>8. CASE StaleEdge(w)
    <2>1. \E stage \in stages : Goto(w, stage)
      BY <1>8 DEF StaleEdge, Stages
    <2>2. PICK stage \in stages : Goto(w, stage)
      BY <2>1
    <2>3. UNCHANGED <<valueVars, todo, taken, alarm, worldVars, countVars>>
      BY <1>8 DEF StaleEdge
    <2> QED BY <1>0, <2>2, <2>3, GotoTypes DEF Quiet, PollTypeOK, WorldTypeOK, worldVars, countVars
  <1>9. CASE CheckGrace(w)
    <2>1. \E stage \in stages : Goto(w, stage)
      BY <1>9 DEF CheckGrace, WhenRecovering, Stages
    <2>2. PICK stage \in stages : Goto(w, stage)
      BY <2>1
    <2>3. UNCHANGED <<valueVars, todo, taken, alarm, worldVars, countVars>>
      BY <1>9 DEF CheckGrace
    <2> QED BY <1>0, <2>2, <2>3, GotoTypes DEF Quiet, PollTypeOK, WorldTypeOK, worldVars, countVars
  <1>10. CASE FailRecovery(w)
    <2>1. \E stage \in stages : Goto(w, stage)
      BY <1>10 DEF FailRecovery, WhenLost, Stages
    <2>2. PICK stage \in stages : Goto(w, stage)
      BY <2>1
    <2>3. UNCHANGED <<valueVars, todo, taken, alarm, worldVars, countVars>>
      BY <1>10 DEF FailRecovery
    <2> QED BY <1>0, <2>2, <2>3, GotoTypes DEF Quiet, PollTypeOK, WorldTypeOK, worldVars, countVars
  <1>11. CASE CheckRelink(w)
    <2>1. \E stage \in stages : Goto(w, stage)
      BY <1>11 DEF CheckRelink, Stages
    <2>2. PICK stage \in stages : Goto(w, stage)
      BY <2>1
    <2>3. UNCHANGED <<valueVars, todo, taken, alarm, worldVars, countVars>>
      BY <1>11 DEF CheckRelink
    <2> QED BY <1>0, <2>2, <2>3, GotoTypes DEF Quiet, PollTypeOK, WorldTypeOK, worldVars, countVars
  <1>12. CASE Restart(w)
    <2>1. \E stage \in stages : Goto(w, stage)
      BY <1>12 DEF Restart, WhenRecovering, Stages
    <2>2. PICK stage \in stages : Goto(w, stage)
      BY <2>1
    <2>3. UNCHANGED <<valueVars, todo, taken, alarm, worldVars, countVars>>
      BY <1>12 DEF Restart
    <2> QED BY <1>0, <2>2, <2>3, GotoTypes DEF Quiet, PollTypeOK, WorldTypeOK, worldVars, countVars
  <1>13. CASE Defer(w)
    <2>1. \E stage \in stages : Goto(w, stage)
      BY <1>13 DEF Defer, Stages
    <2>2. PICK stage \in stages : Goto(w, stage)
      BY <2>1
    <2>3. UNCHANGED <<valueVars, todo, taken, alarm, worldVars, countVars>>
      BY <1>13 DEF Defer
    <2> QED BY <1>0, <2>2, <2>3, GotoTypes DEF Quiet, PollTypeOK, WorldTypeOK, worldVars, countVars
  <1>14. CASE Announce(w)
    <2>1. \E stage \in stages : Goto(w, stage)
      BY <1>14 DEF Announce, Stages
    <2>2. PICK stage \in stages : Goto(w, stage)
      BY <2>1
    <2>3. UNCHANGED <<valueVars, todo, taken, worldVars, countVars>>
      BY <1>14 DEF Announce
    <2>4. alarm' \in [Poller -> Nat \cup {NoAlarm}]
      BY <1>0, <1>14 DEF Announce, PollTypeOK
    <2> QED BY <1>0, <2>2, <2>3, <2>4, GotoTypes DEF Quiet, PollTypeOK, WorldTypeOK, worldVars, countVars
  <1>15. CASE Consume(w)
    <2>1. \E stage \in stages : Goto(w, stage)
      BY <1>15 DEF Consume, Stages
    <2>2. PICK stage \in stages : Goto(w, stage)
      BY <2>1
    <2>3. UNCHANGED <<valueVars, taken, alarm, worldVars, countVars>>
      BY <1>15 DEF Consume
    <2>4. todo' \in [Poller -> SUBSET Point]
      BY <1>0, <1>15 DEF Consume, PollTypeOK
    <2> QED BY <1>0, <2>2, <2>3, <2>4, GotoTypes DEF Quiet, PollTypeOK, WorldTypeOK, worldVars, countVars
  <1>16. CASE ResetAnnounce(w)
    <2>1. \E stage \in stages : Goto(w, stage)
      BY <1>16 DEF ResetAnnounce, Stages
    <2>2. PICK stage \in stages : Goto(w, stage)
      BY <2>1
    <2>3. UNCHANGED <<valueVars, todo, taken, alarm, worldVars, countVars>>
      BY <1>16 DEF ResetAnnounce
    <2> QED BY <1>0, <2>2, <2>3, GotoTypes DEF Quiet, PollTypeOK, WorldTypeOK, worldVars, countVars
  <1> QED BY <1>1, <1>2, <1>3, <1>4, <1>5, <1>6, <1>7, <1>8, <1>9, <1>10, <1>11, <1>12, <1>13, <1>14, <1>15, <1>16 DEF QuietPoll

-----------------------------------------------------------------------------
(* Steps that mark points.                                                 *)

\* Marking every cached point makes every token of it outdated.
LEMMA MarkAllStep ==
    ASSUME NEW k \in Nat, PublishedInvariant(k), MarkAllDirty, UNCHANGED <<value, rank, size, taken, rebuilds>>,
           \A w \in Poller : pc'[w] = "commit" => pc[w] = "commit"
    PROVE  CacheTypeOK' /\ VersionsBounded(k)' /\ CommitIsSafe(k)' /\ CleanIn(k)' /\ sent' \subseteq Point
  <1>1. CacheTypeOK /\ PollTypeOK /\ sent \subseteq Point /\ rebuilds \in Nat
    BY DEF PublishedInvariant, TypeOK, WorldTypeOK
  <1>2. \A p \in Point : rank[p] \in Nat /\ rank[p] <= size /\ version[p] \in Nat /\ version[p] <= seq
    BY <1>1 DEF PublishedInvariant, VersionsBounded, CacheTypeOK
  <1>3. seq' = seq + size /\ seq \in Nat /\ size \in Nat
    BY <1>1 DEF MarkAllDirty, CacheTypeOK
  <1>4. \A p \in Point : version'[p] = IF rank[p] # 0 THEN seq + rank[p] ELSE version[p]
    BY DEF MarkAllDirty
  <1>5. \A p \in Point : version'[p] \in Nat /\ version'[p] <= seq'
    BY <1>2, <1>3, <1>4
  <1>6. version' \in [Point -> Nat]
    BY <1>2, <1>3, <1>4 DEF MarkAllDirty
  <1>7. Cached' = Cached
    BY DEF Cached
  <1>8. CacheTypeOK'
    BY <1>1, <1>3, <1>6, <1>7 DEF CacheTypeOK, MarkAllDirty
  <1>9. VersionsBounded(k)'
    <2>1. rebuilds = k => \A w \in Poller : \A r \in taken[w] : r.version <= seq' /\ r.master = k
      <3> SUFFICES ASSUME rebuilds = k, NEW w \in Poller, NEW r \in taken[w]
                   PROVE  r.version <= seq' /\ r.master = k
        OBVIOUS
      <3>1. r.version <= seq /\ r.master = k
        BY DEF PublishedInvariant, VersionsBounded
      <3>2. r \in Reading
        BY <1>1 DEF PollTypeOK
      <3> QED BY <3>1, <3>2, <1>3 DEF Reading
    <2> QED BY <1>2, <1>5, <2>1 DEF PublishedInvariant, VersionsBounded
  <1>10. CommitIsSafe(k)'
    <2> SUFFICES ASSUME rebuilds = k, NEW w \in Poller, NEW r \in taken[w],
                        pc'[w] = "commit", r.version = version'[r.point]
                 PROVE  r.point \in sent'
      BY DEF CommitIsSafe
    <2>1. r \in Reading /\ r.point \in Point /\ r.version \in Nat /\ r.version <= seq
      BY <1>1 DEF PollTypeOK, Reading, PublishedInvariant, VersionsBounded
    <2>2. rank[r.point] = 0
      BY <2>1, <1>2, <1>3, <1>4
    <2>3. r.point \in sent
      BY <2>1, <2>2, <1>4 DEF PublishedInvariant, CommitIsSafe
    <2> QED BY <2>2, <2>3 DEF MarkAllDirty, Cached
  <1>11. CleanIn(k)'
    BY <1>7 DEF CleanIn, MarkAllDirty
  <1> QED BY <1>1, <1>8, <1>9, <1>10, <1>11 DEF MarkAllDirty

LEMMA RefreshStep ==
    ASSUME NEW k \in Nat, PublishedInvariant(k), Refresh
    PROVE  (CacheTypeOK /\ PollTypeOK /\ WorldTypeOK /\ VersionsBounded(k) /\ CommitIsSafe(k) /\ CleanIn(k))'
  <1>1. MarkAllDirty /\ UNCHANGED <<value, rank, size, taken, rebuilds, pollVars, shown, writes, opens, faults>>
    BY DEF Refresh, pollVars
  <1>2. refreshes' \in Nat
    BY DEF Refresh, PublishedInvariant, TypeOK, WorldTypeOK
  <1>3. PollTypeOK'
    BY <1>1 DEF PublishedInvariant, TypeOK, PollTypeOK, pollVars
  <1>4. CacheTypeOK' /\ VersionsBounded(k)' /\ CommitIsSafe(k)' /\ CleanIn(k)' /\ sent' \subseteq Point
    BY <1>1, MarkAllStep DEF pollVars
  <1>5. WorldTypeOK'
    BY <1>1, <1>2, <1>4 DEF PublishedInvariant, TypeOK, WorldTypeOK
  <1> QED BY <1>3, <1>4, <1>5

LEMMA RedirtyStep ==
    ASSUME NEW k \in Nat, PublishedInvariant(k), NEW w \in Poller, Redirty(w)
    PROVE  (CacheTypeOK /\ PollTypeOK /\ WorldTypeOK /\ VersionsBounded(k) /\ CommitIsSafe(k) /\ CleanIn(k))'
  <1>1. MarkAllDirty /\ UNCHANGED <<value, rank, size, taken, alarm, shown, countVars>>
    BY DEF Redirty
  <1>2. Goto(w, "peek") /\ "peek" \in Stages /\ PollTypeOK
    BY DEF Redirty, Stages, PublishedInvariant, TypeOK
  <1>3. todo' \in [Poller -> SUBSET Point]
    BY <1>2 DEF Redirty, PollTypeOK
  <1>4. PollTypeOK' /\ \A u \in Poller : pc'[u] = "commit" => pc[u] = "commit"
    BY <1>1, <1>2, <1>3, GotoTypes DEF PollTypeOK
  <1>5. CacheTypeOK' /\ VersionsBounded(k)' /\ CommitIsSafe(k)' /\ CleanIn(k)' /\ sent' \subseteq Point
    BY <1>1, <1>4, MarkAllStep DEF countVars
  <1>6. WorldTypeOK'
    BY <1>1, <1>5 DEF PublishedInvariant, TypeOK, WorldTypeOK, countVars
  <1> QED BY <1>4, <1>5, <1>6

\* Storing a value keeps the dict of cached points.
LEMMA StoreKeeps ==
    ASSUME NEW k \in Nat, PublishedInvariant(k), NEW p \in Point, NEW v \in Value, Store(p, v)
    PROVE  /\ value' \in [Point -> Value \cup {NoValue}] /\ rank' \in [Point -> Nat] /\ size' \in Nat
           /\ size <= size'
           /\ \A q \in Point : rank'[q] <= size'
           /\ \A q \in Point : rank'[q] = 0 <=> value'[q] = NoValue
           /\ Cached' = Cached \cup {p}
           /\ value[p] = v => p \in Cached
  <1>1. CacheTypeOK /\ VersionsBounded(k) /\ v # NoValue
    BY DeviceAssumption DEF PublishedInvariant, TypeOK
  <1>2. /\ value' = [value EXCEPT ![p] = v]
        /\ rank' = [rank EXCEPT ![p] = IF rank[p] = 0 THEN size + 1 ELSE rank[p]]
        /\ size' = IF rank[p] = 0 THEN size + 1 ELSE size
    BY DEF Store
  <1>3. value' \in [Point -> Value \cup {NoValue}] /\ size' \in Nat /\ size <= size'
    BY <1>1, <1>2 DEF CacheTypeOK
  <1>4. rank' \in [Point -> Nat] /\ rank'[p] # 0 /\ \A q \in Point : q # p => rank'[q] = rank[q]
    BY <1>1, <1>2 DEF CacheTypeOK
  <1>5. \A q \in Point : rank'[q] <= size'
    BY <1>1, <1>2, <1>4 DEF CacheTypeOK, VersionsBounded
  <1>6. \A q \in Point : rank'[q] = 0 <=> value'[q] = NoValue
    BY <1>1, <1>2, <1>4 DEF CacheTypeOK, VersionsBounded
  <1>7. Cached' = Cached \cup {p}
    BY <1>4 DEF Cached
  <1>8. value[p] = v => p \in Cached
    BY <1>1 DEF Cached, VersionsBounded
  <1> QED BY <1>3, <1>4, <1>5, <1>6, <1>7, <1>8

\* The versions and tokens after some points were marked under newer versions.
LEMMA MarkedStep ==
    ASSUME NEW k \in Nat, PublishedInvariant(k), NEW M \in SUBSET Point,
           UNCHANGED <<pc, taken, rebuilds>>,
           Cached \subseteq Cached', Cached' \subseteq Cached \cup M, M \subseteq Cached',
           dirty' = dirty \cup M, sent' = sent \ M,
           seq' \in Nat, seq <= seq', version' \in [Point -> Nat],
           \A q \in M : seq < version'[q] /\ version'[q] <= seq',
           \A q \in Point \ M : version'[q] = version[q]
    PROVE  /\ dirty' \subseteq Cached' /\ sent' \subseteq Point
           /\ \A q \in Point : version'[q] <= seq'
           /\ rebuilds' = k => \A w \in Poller : \A r \in taken'[w] : r.version <= seq' /\ r.master = k
           /\ CommitIsSafe(k)' /\ CleanIn(k)'
  <1>1. CacheTypeOK /\ PollTypeOK /\ sent \subseteq Point
    BY DEF PublishedInvariant, TypeOK, WorldTypeOK
  <1>2. \A q \in Point : version[q] \in Nat /\ version[q] <= seq /\ seq \in Nat
    BY <1>1 DEF PublishedInvariant, VersionsBounded, CacheTypeOK
  <1>3. \A q \in Point : version'[q] <= seq'
    BY <1>2
  <1>4. dirty' \subseteq Cached' /\ sent' \subseteq Point
    BY <1>1 DEF CacheTypeOK
  <1>5. ASSUME rebuilds = k, NEW w \in Poller, NEW r \in taken[w]
        PROVE  r.point \in Point /\ r.version \in Nat /\ r.version <= seq /\ r.master = k
    <2>1. r \in Reading
      BY <1>1 DEF PollTypeOK
    <2> QED BY <2>1, <1>5 DEF Reading, PublishedInvariant, VersionsBounded
  <1>6. rebuilds' = k => \A w \in Poller : \A r \in taken'[w] : r.version <= seq' /\ r.master = k
    BY <1>2, <1>5
  <1>7. CommitIsSafe(k)'
    <2> SUFFICES ASSUME rebuilds = k, NEW w \in Poller, NEW r \in taken[w],
                        pc[w] = "commit", r.version = version'[r.point]
                 PROVE  r.point \in sent'
      BY DEF CommitIsSafe
    <2>1. r.point \in Point /\ r.version \in Nat /\ r.version <= seq
      BY <1>5
    <2>2. r.point \notin M
      BY <2>1, <1>2
    <2> QED BY <2>1, <2>2 DEF PublishedInvariant, CommitIsSafe
  <1>8. CleanIn(k)'
    BY DEF PublishedInvariant, CleanIn
  <1> QED BY <1>3, <1>4, <1>6, <1>7, <1>8

LEMMA MeasureStep ==
    ASSUME NEW k \in Nat, PublishedInvariant(k), NEW p \in Point, NEW v \in Value, Measure(p, v)
    PROVE  (CacheTypeOK /\ PollTypeOK /\ WorldTypeOK /\ VersionsBounded(k) /\ CommitIsSafe(k) /\ CleanIn(k))'
  <1>1. /\ Store(p, v) /\ MarkChanged(p, v) /\ writes' = writes + 1
        /\ UNCHANGED <<pollVars, shown, opens, refreshes, faults, rebuilds>>
    BY DEF Measure
  <1>2. CacheTypeOK /\ PollTypeOK /\ WorldTypeOK
    BY DEF PublishedInvariant, TypeOK
  <1>3. UNCHANGED <<pc, taken, rebuilds>> /\ PollTypeOK'
    BY <1>1, <1>2 DEF pollVars, PollTypeOK
  <1> DEFINE M == IF value[p] # v THEN {p} ELSE {}
  <1>4. /\ dirty' = dirty \cup M /\ sent' = sent \ M
        /\ seq' = IF value[p] # v THEN seq + 1 ELSE seq
        /\ version' = IF value[p] # v THEN [version EXCEPT ![p] = seq + 1] ELSE version
    BY <1>1 DEF MarkChanged, MarkDirty
  <1>5. /\ seq' \in Nat /\ seq <= seq' /\ version' \in [Point -> Nat]
        /\ \A q \in M : seq < version'[q] /\ version'[q] <= seq'
        /\ \A q \in Point \ M : version'[q] = version[q]
    BY <1>2, <1>4 DEF CacheTypeOK
  <1>6. Cached' = Cached \cup {p} /\ (value[p] = v => p \in Cached)
    BY <1>1, StoreKeeps
  <1>7. Cached \subseteq Cached' /\ Cached' \subseteq Cached \cup M /\ M \subseteq Cached'
    BY <1>6
  <1> HIDE DEF M
  <1>8. M \in SUBSET Point
    BY DEF M
  <1>9. /\ dirty' \subseteq Cached' /\ sent' \subseteq Point
        /\ \A q \in Point : version'[q] <= seq'
        /\ rebuilds' = k => \A w \in Poller : \A r \in taken'[w] : r.version <= seq' /\ r.master = k
        /\ CommitIsSafe(k)' /\ CleanIn(k)'
    BY <1>3, <1>4, <1>5, <1>7, <1>8, MarkedStep
  <1>10. CacheTypeOK' /\ VersionsBounded(k)'
    BY <1>1, <1>5, <1>9, StoreKeeps DEF CacheTypeOK, VersionsBounded
  <1>11. WorldTypeOK'
    BY <1>1, <1>2, <1>9 DEF WorldTypeOK
  <1> QED BY <1>3, <1>9, <1>10, <1>11

LEMMA ConfirmStep ==
    ASSUME NEW k \in Nat, PublishedInvariant(k), NEW p \in Point, NEW v \in Value, Confirm(p, v)
    PROVE  (CacheTypeOK /\ PollTypeOK /\ WorldTypeOK /\ VersionsBounded(k) /\ CommitIsSafe(k) /\ CleanIn(k))'
  <1>1. /\ Store(p, v) /\ MarkConfirmed(p, v) /\ writes' = writes + 1
        /\ UNCHANGED <<pollVars, shown, opens, refreshes, faults, rebuilds>>
    BY DEF Confirm
  <1>2. CacheTypeOK /\ PollTypeOK /\ WorldTypeOK
    BY DEF PublishedInvariant, TypeOK
  <1>3. UNCHANGED <<pc, taken, rebuilds>> /\ PollTypeOK'
    BY <1>1, <1>2 DEF pollVars, PollTypeOK
  <1> DEFINE M == Cached \cup {p}
             first == IF value[p] # v THEN seq + 1 ELSE seq
  <1>4. /\ dirty' = dirty \cup M /\ sent' = sent \ M /\ seq' = first + size'
        /\ version' = [q \in Point |-> IF rank'[q] # 0 THEN first + rank'[q] ELSE version[q]]
    BY <1>1 DEF MarkConfirmed
  <1>5. /\ rank' \in [Point -> Nat] /\ size' \in Nat
        /\ \A q \in Point : rank'[q] <= size'
        /\ Cached' = M
    BY <1>1, StoreKeeps
  <1>6. first \in Nat /\ seq <= first /\ seq \in Nat
    BY <1>2 DEF CacheTypeOK
  <1>7. M = {q \in Point : rank'[q] # 0}
    BY <1>5 DEF Cached
  <1> HIDE DEF first, M
  <1>8. \A q \in Point : rank'[q] \in Nat /\ version[q] \in Nat
    BY <1>2, <1>5 DEF CacheTypeOK
  <1>9. /\ seq' \in Nat /\ seq <= seq' /\ version' \in [Point -> Nat]
        /\ \A q \in M : seq < version'[q] /\ version'[q] <= seq'
        /\ \A q \in Point \ M : version'[q] = version[q]
    <2>1. seq' \in Nat /\ seq <= seq'
      <3>1. seq' = first + size' /\ size' \in Nat
        BY <1>4, <1>5
      <3>2. \A a, b, c \in Nat : a <= b => b + c \in Nat /\ a <= b + c
        OBVIOUS
      <3> QED BY <3>1, <3>2, <1>6
    <2>2. version' \in [Point -> Nat]
      BY <1>4, <1>6, <1>8
    <2>3. ASSUME NEW q \in M PROVE seq < version'[q] /\ version'[q] <= seq'
      <3>1. q \in Point /\ rank'[q] # 0 /\ version'[q] = first + rank'[q]
        BY <1>4, <1>7
      <3> QED BY <3>1, <1>4, <1>5, <1>6, <1>8
    <2>4. \A q \in Point \ M : version'[q] = version[q]
      BY <1>4, <1>7
    <2> QED BY <2>1, <2>2, <2>3, <2>4
  <1>10. Cached \subseteq Cached' /\ Cached' \subseteq Cached \cup M /\ M \subseteq Cached' /\ M \in SUBSET Point
    BY <1>5, <1>7 DEF M
  <1>11. /\ dirty' \subseteq Cached' /\ sent' \subseteq Point
         /\ \A q \in Point : version'[q] <= seq'
         /\ rebuilds' = k => \A w \in Poller : \A r \in taken'[w] : r.version <= seq' /\ r.master = k
         /\ CommitIsSafe(k)' /\ CleanIn(k)'
    BY <1>3, <1>4, <1>9, <1>10, MarkedStep
  <1>12. CacheTypeOK' /\ VersionsBounded(k)'
    BY <1>1, <1>9, <1>11, StoreKeeps DEF CacheTypeOK, VersionsBounded
  <1>13. WorldTypeOK'
    BY <1>1, <1>2, <1>11 DEF WorldTypeOK
  <1> QED BY <1>3, <1>11, <1>12, <1>13

LEMMA RebuildStep ==
    ASSUME NEW k \in Nat, PublishedInvariant(k), Rebuild, CleanRebuild(k)
    PROVE  (CacheTypeOK /\ PollTypeOK /\ WorldTypeOK /\ VersionsBounded(k) /\ CommitIsSafe(k) /\ CleanIn(k))'
  <1>1. /\ value' = [p \in Point |-> NoValue] /\ rank' = [p \in Point |-> 0] /\ size' = 0
        /\ dirty' = {} /\ version' = [p \in Point |-> 0] /\ seq' = 0 /\ sent' = {}
        /\ rebuilds' = rebuilds + 1
        /\ UNCHANGED <<pollVars, shown, writes, opens, refreshes, faults>>
    BY DEF Rebuild
  <1>2. WorldTypeOK'
    BY <1>1 DEF PublishedInvariant, TypeOK, WorldTypeOK
  <1>3. CacheTypeOK' /\ PollTypeOK'
    BY <1>1 DEF PublishedInvariant, TypeOK, CacheTypeOK, PollTypeOK, pollVars
  <1>4. rebuilds' = k => \A w \in Poller : taken'[w] = {}
    BY <1>1 DEF CleanRebuild, pollVars
  <1>5. VersionsBounded(k)' /\ CommitIsSafe(k)'
    BY <1>1, <1>4 DEF VersionsBounded, CommitIsSafe
  <1>6. CleanIn(k)'
    BY <1>1 DEF CleanIn, Cached
  <1> QED BY <1>2, <1>3, <1>5, <1>6

-----------------------------------------------------------------------------
(* Steps that read, publish and clear.                                     *)

\* A reading carries the version and the master it was read under.
LEMMA PeekStep ==
    ASSUME NEW k \in Nat, PublishedInvariant(k), NEW w \in Poller, NEW p \in Point, Peek(w, p)
    PROVE  (CacheTypeOK /\ PollTypeOK /\ WorldTypeOK /\ VersionsBounded(k) /\ CommitIsSafe(k) /\ CleanIn(k))'
  <1> DEFINE reading == [point |-> p, value |-> value[p], version |-> version[p], master |-> rebuilds]
  <1>1. UNCHANGED <<valueVars, alarm, worldVars, countVars>> /\ pc[w] = "peek"
    BY DEF Peek, At
  <1>2. CacheTypeOK /\ PollTypeOK /\ WorldTypeOK /\ VersionsBounded(k)
    BY DEF PublishedInvariant, TypeOK
  <1>3. todo' \in [Poller -> SUBSET Point]
    BY <1>2 DEF Peek, PollTypeOK
  <1>4. PICK stage \in Stages \ {"commit"} : Goto(w, stage)
    BY DEF Peek, Stages
  <1>5. /\ pc' \in [Poller -> Stages] /\ pc'[w] # "commit"
        /\ \A u \in Poller : u # w => pc'[u] = pc[u]
        /\ saw' \in [Poller -> [connected: BOOLEAN, stale: BOOLEAN]]
    BY <1>2, <1>4, GotoTypes
  <1>6. p \in dirty \cap Cached => value[p] \in Value
    BY <1>2 DEF Cached, VersionsBounded, CacheTypeOK
  <1>7. taken' = [taken EXCEPT ![w] = IF p \in dirty \cap Cached THEN taken[w] \cup {reading} ELSE taken[w]]
    BY DEF Peek
  <1> HIDE DEF reading
  <1>8. \A u \in Poller : taken'[u] \subseteq taken[u] \cup (IF p \in dirty \cap Cached /\ u = w THEN {reading} ELSE {})
    BY <1>2, <1>7 DEF PollTypeOK
  <1>9. p \in dirty \cap Cached =>
          reading \in Reading /\ reading.version <= seq /\ (rebuilds = k => reading.master = k)
    BY <1>2, <1>6 DEF reading, Reading, CacheTypeOK, WorldTypeOK, VersionsBounded
  <1>10. taken' \in [Poller -> SUBSET Reading]
    BY <1>2, <1>7, <1>9 DEF PollTypeOK
  <1>11. PollTypeOK'
    BY <1>1, <1>2, <1>3, <1>5, <1>10 DEF PollTypeOK
  <1>12. CacheTypeOK' /\ WorldTypeOK' /\ CleanIn(k)'
    BY <1>1, <1>2 DEF valueVars, worldVars, countVars, CacheTypeOK, WorldTypeOK, Cached,
                      PublishedInvariant, CleanIn
  <1>13. VersionsBounded(k)'
    BY <1>1, <1>2, <1>8, <1>9 DEF VersionsBounded, valueVars, countVars
  <1>14. CommitIsSafe(k)'
    <2> SUFFICES ASSUME rebuilds = k, NEW u \in Poller, NEW r \in taken'[u],
                        pc'[u] = "commit", r.version = version[r.point]
                 PROVE  r.point \in sent
      BY <1>1 DEF CommitIsSafe, valueVars, worldVars, countVars
    <2>1. u # w /\ pc[u] = "commit"
      BY <1>5
    <2>2. r \in taken[u]
      BY <1>8, <2>1
    <2> QED BY <2>1, <2>2 DEF PublishedInvariant, CommitIsSafe
  <1> QED BY <1>11, <1>12, <1>13, <1>14

\* What became durable is remembered before the poll may commit it.
LEMMA PublishStep ==
    ASSUME NEW k \in Nat, PublishedInvariant(k), NEW w \in Poller, Publish(w)
    PROVE  (CacheTypeOK /\ PollTypeOK /\ WorldTypeOK /\ VersionsBounded(k) /\ CommitIsSafe(k) /\ CleanIn(k))'
  <1> DEFINE New == {p \in Point : \E r \in taken[w] :
                       r.point = p /\ r.version = version[p] /\ r.master = rebuilds}
  <1>1. UNCHANGED <<policy, linkVars, valueVars, todo, taken, alarm, countVars>>
    BY DEF Publish
  <1>2. CacheTypeOK /\ PollTypeOK /\ WorldTypeOK /\ VersionsBounded(k)
    BY DEF PublishedInvariant, TypeOK
  <1>3. Goto(w, "commit") /\ "commit" \in Stages
    BY DEF Publish, Stages
  <1>4. /\ pc' \in [Poller -> Stages]
        /\ \A u \in Poller : u # w => pc'[u] = pc[u]
        /\ saw' \in [Poller -> [connected: BOOLEAN, stale: BOOLEAN]]
    BY <1>2, <1>3, GotoTypes
  <1>5. PollTypeOK'
    BY <1>1, <1>2, <1>4 DEF PollTypeOK
  <1>6. sent' = sent \cup New
    BY DEF Publish
  <1>7. shown' \in [Point -> Value \cup {NoValue, Lost}]
    <2>1. \A p \in Point : (\E r \in taken[w] : r.point = p)
            => (CHOOSE r \in taken[w] : r.point = p).value \in Value
      <3> SUFFICES ASSUME NEW p \in Point, \E r \in taken[w] : r.point = p
                   PROVE  (CHOOSE r \in taken[w] : r.point = p).value \in Value
        OBVIOUS
      <3>1. (CHOOSE r \in taken[w] : r.point = p) \in taken[w]
        OBVIOUS
      <3> QED BY <3>1, <1>2 DEF PollTypeOK, Reading
    <2>2. shown \in [Point -> Value \cup {NoValue, Lost}]
      BY <1>2 DEF WorldTypeOK
    <2> QED BY <2>1, <2>2 DEF Publish
  <1>8. WorldTypeOK'
    BY <1>1, <1>2, <1>6, <1>7 DEF WorldTypeOK, countVars
  <1>9. CacheTypeOK' /\ VersionsBounded(k)'
    BY <1>1, <1>2 DEF CacheTypeOK, VersionsBounded, valueVars, countVars, Cached
  <1>10. CleanIn(k)'
    BY <1>1, <1>6 DEF PublishedInvariant, CleanIn, valueVars, countVars, Cached
  <1>11. CommitIsSafe(k)'
    <2> SUFFICES ASSUME rebuilds = k, NEW u \in Poller, NEW r \in taken[u],
                        pc'[u] = "commit", r.version = version[r.point]
                 PROVE  r.point \in sent'
      BY <1>1 DEF CommitIsSafe, valueVars, countVars
    <2>1. CASE u = w
      <3>1. r \in Reading /\ r.master = k
        BY <1>2 DEF PollTypeOK, VersionsBounded
      <3>2. r.point \in New
        BY <2>1, <3>1 DEF Reading
      <3> QED BY <3>2, <1>6
    <2>2. CASE u # w
      BY <2>2, <1>4, <1>6 DEF PublishedInvariant, CommitIsSafe
    <2> QED BY <2>1, <2>2
  <1> QED BY <1>5, <1>8, <1>9, <1>10, <1>11

LEMMA PublishFailsStep ==
    ASSUME NEW k \in Nat, PublishedInvariant(k), NEW w \in Poller, PublishFails(w)
    PROVE  (CacheTypeOK /\ PollTypeOK /\ WorldTypeOK /\ VersionsBounded(k) /\ CommitIsSafe(k) /\ CleanIn(k))'
  <1>1. /\ UNCHANGED <<valueVars, todo, worldVars, writes, opens, refreshes, rebuilds>>
        /\ faults' = faults + 1
        /\ taken' = [taken EXCEPT ![w] = {}] /\ alarm' = [alarm EXCEPT ![w] = NoAlarm]
    BY DEF PublishFails
  <1>2. CacheTypeOK /\ PollTypeOK /\ WorldTypeOK /\ VersionsBounded(k)
    BY DEF PublishedInvariant, TypeOK
  <1>3. Goto(w, "idle") /\ "idle" \in Stages
    BY DEF PublishFails, Stages
  <1>4. /\ pc' \in [Poller -> Stages] /\ pc'[w] = "idle"
        /\ \A u \in Poller : u # w => pc'[u] = pc[u]
        /\ saw' \in [Poller -> [connected: BOOLEAN, stale: BOOLEAN]]
    BY <1>2, <1>3, GotoTypes
  <1>5. \A u \in Poller : taken'[u] \subseteq taken[u]
    BY <1>1, <1>2 DEF PollTypeOK
  <1>6. PollTypeOK'
    BY <1>1, <1>2, <1>4 DEF PollTypeOK
  <1>7. CacheTypeOK' /\ WorldTypeOK' /\ CleanIn(k)'
    BY <1>1, <1>2 DEF valueVars, worldVars, CacheTypeOK, WorldTypeOK, Cached,
                      PublishedInvariant, CleanIn
  <1>8. VersionsBounded(k)'
    BY <1>1, <1>2, <1>5 DEF VersionsBounded, valueVars
  <1>9. CommitIsSafe(k)'
    BY <1>1, <1>4, <1>5 DEF PublishedInvariant, CommitIsSafe, valueVars, worldVars
  <1> QED BY <1>6, <1>7, <1>8, <1>9

\* Only points whose current version became durable are cleared.
LEMMA CommitStep ==
    ASSUME NEW k \in Nat, PublishedInvariant(k), NEW w \in Poller, Commit(w)
    PROVE  (CacheTypeOK /\ PollTypeOK /\ WorldTypeOK /\ VersionsBounded(k) /\ CommitIsSafe(k) /\ CleanIn(k))'
  <1>1. /\ UNCHANGED <<value, rank, size, version, seq, todo, worldVars, countVars>>
        /\ dirty' = dirty \ Cleared(w)
        /\ taken' = [taken EXCEPT ![w] = {}] /\ alarm' = [alarm EXCEPT ![w] = NoAlarm]
        /\ pc[w] = "commit"
    BY DEF Commit, At
  <1>2. CacheTypeOK /\ PollTypeOK /\ WorldTypeOK /\ VersionsBounded(k)
    BY DEF PublishedInvariant, TypeOK
  <1>3. Goto(w, "idle") /\ "idle" \in Stages
    BY DEF Commit, Stages
  <1>4. /\ pc' \in [Poller -> Stages] /\ pc'[w] = "idle"
        /\ \A u \in Poller : u # w => pc'[u] = pc[u]
        /\ saw' \in [Poller -> [connected: BOOLEAN, stale: BOOLEAN]]
    BY <1>2, <1>3, GotoTypes
  <1>5. \A u \in Poller : taken'[u] \subseteq taken[u]
    BY <1>1, <1>2 DEF PollTypeOK
  <1>6. PollTypeOK'
    BY <1>1, <1>2, <1>4 DEF PollTypeOK
  <1>7. CacheTypeOK' /\ WorldTypeOK'
    BY <1>1, <1>2 DEF worldVars, countVars, CacheTypeOK, WorldTypeOK, Cached
  <1>8. VersionsBounded(k)'
    BY <1>1, <1>2, <1>5 DEF VersionsBounded, countVars
  <1>9. CommitIsSafe(k)'
    BY <1>1, <1>4, <1>5 DEF PublishedInvariant, CommitIsSafe, worldVars, countVars
  <1>10. rebuilds = k => Cleared(w) \subseteq sent
    BY <1>1 DEF PublishedInvariant, CommitIsSafe, Cleared
  <1>11. CleanIn(k)'
    BY <1>1, <1>10 DEF PublishedInvariant, CleanIn, worldVars, countVars, Cached
  <1> QED BY <1>6, <1>7, <1>8, <1>9, <1>11

-----------------------------------------------------------------------------
LEMMA NextKeepsInvariant ==
    ASSUME NEW k \in Nat
    PROVE  PublishedInvariant(k) /\ [Next]_vars /\ [CleanRebuild(k)]_vars => PublishedInvariant(k)'
  <1> SUFFICES ASSUME PublishedInvariant(k), [Next]_vars, [CleanRebuild(k)]_vars
               PROVE  PublishedInvariant(k)'
    OBVIOUS
  <1> DEFINE Rest == CacheTypeOK /\ PollTypeOK /\ WorldTypeOK
                     /\ VersionsBounded(k) /\ CommitIsSafe(k) /\ CleanIn(k)
  <1>1. TypeOK /\ LinkTypeOK'
    BY LinkTypes DEF PublishedInvariant
  <1>2. SUFFICES Rest'
    BY <1>1 DEF PublishedInvariant, TypeOK
  <1>3. CASE UNCHANGED vars
    <2>1. Quiet /\ PollTypeOK' /\ WorldTypeOK'
      BY <1>1, <1>3 DEF vars, Quiet, pollVars, worldVars, countVars, TypeOK, PollTypeOK, WorldTypeOK
    <2> QED BY <2>1, QuietStep
  <1>4. CASE QuietEvent
    BY <1>1, <1>4, QuietEventStep, QuietStep
  <1>5. ASSUME NEW p \in Point, NEW v \in Value, Measure(p, v) \/ Confirm(p, v) PROVE Rest'
    BY <1>5, MeasureStep, ConfirmStep
  <1>6. CASE Refresh \/ (Rebuild /\ ~UNCHANGED vars)
    BY <1>6, RefreshStep, RebuildStep
  <1>7. ASSUME NEW w \in Poller, PollStep(w) PROVE Rest'
    <2>1. CASE QuietPoll(w)
      BY <1>1, <2>1, QuietPollStep, QuietStep
    <2>2. CASE Redirty(w) \/ \E p \in Point : Peek(w, p)
      BY <2>2, RedirtyStep, PeekStep
    <2>3. CASE Publish(w) \/ PublishFails(w) \/ Commit(w)
      BY <2>3, PublishStep, PublishFailsStep, CommitStep
    <2> QED BY <1>7, <2>1, <2>2, <2>3 DEF PollStep, QuietPoll
  <1> HIDE DEF Rest
  <1> QED BY <1>3, <1>4, <1>5, <1>6, <1>7 DEF Next, Speaks, QuietEvent

\* Before the first rebuild there is nothing to ask of a rebuild.
LEMMA FirstMaster == ASSUME TypeOK PROVE CleanRebuild(0)
  <1>1. rebuilds \in Nat
    BY DEF TypeOK, WorldTypeOK
  <1>2. Rebuild => rebuilds' # 0
    BY <1>1 DEF Rebuild
  <1> QED BY <1>2 DEF CleanRebuild

LEMMA FirstMasterInvariant == Spec => []PublishedInvariant(0)
  <1>1. Init => PublishedInvariant(0)
    BY InitInvariant
  <1>2. PublishedInvariant(0) /\ [Next]_vars => PublishedInvariant(0)'
    BY NextKeepsInvariant, FirstMaster DEF PublishedInvariant
  <1> QED BY <1>1, <1>2, PTL DEF Spec

\* The state of the device plane is well-typed, and only cached points are
\* marked dirty, whatever the sizes of its sets and the bounds.
THEOREM TypeCorrect == Spec => []TypeOK
  <1>1. PublishedInvariant(0) => TypeOK
    BY DEF PublishedInvariant
  <1> QED BY <1>1, FirstMasterInvariant, PTL

\* A point without a mark has its current version durably published, whatever
\* the IO thread does between the calls of overlapping polls.
THEOREM NoChangeIsLost == Spec => []CleanWasPublished
  <1>1. PublishedInvariant(0) => CleanWasPublished
    BY DEF PublishedInvariant, CleanIn, CleanWasPublished
  <1> QED BY <1>1, FirstMasterInvariant, PTL

\* The same of every later master that took over while no poll held readings:
\* neither the masters before it, however they were replaced, nor their polls
\* can lose a change of its own (_ensure_master).
THEOREM NoChangeIsLostByRebuilds ==
    ASSUME NEW k \in Nat
    PROVE  Spec /\ [][CleanRebuild(k)]_vars => []CleanIn(k)
  <1>1. Init => PublishedInvariant(k)
    BY InitInvariant
  <1>2. PublishedInvariant(k) /\ [Next]_vars /\ [CleanRebuild(k)]_vars => PublishedInvariant(k)'
    BY NextKeepsInvariant
  <1>3. PublishedInvariant(k) => CleanIn(k)
    BY DEF PublishedInvariant
  <1> QED BY <1>1, <1>2, <1>3, PTL DEF Spec

-----------------------------------------------------------------------------
(* A point that was shown as lost is shown again, if polls do not overlap. *)

\* The polls of the device never overlap.
SinglePoll == \A v, w \in Poller : v = w

AllDirty == Cached \subseteq dirty

\* A poll that took the device for lost or recovering, up to the confirmation
\* of what it says about that.
Blaming(w) ==
    \/ pc[w] \in {"grace", "fail", "relink", "restart", "defer", "announce"}
    \/ alarm[w] # NoAlarm

\* A poll holds either a comm_lost or readings, in its last stages only.
PollsHold ==
    \A w \in Poller :
        /\ alarm[w] # NoAlarm => taken[w] = {} /\ pc[w] \in {"publish", "commit"}
        /\ taken[w] # {} => pc[w] \in {"peek", "publish", "commit"}

\* A device that is online although a poll still takes it for lost has
\* recovered since, and nothing of it was confirmed in the meantime.
BlamedWaits == \A w \in Poller : Blaming(w) /\ state = "online" => AllDirty

\* What is about to be confirmed is what the collector shows.
CommitWasShown ==
    \A w \in Poller : pc[w] = "commit" => \A r \in taken[w] : shown[r.point] # Lost

RepairInvariant(k) ==
    /\ PollsHold
    /\ rebuilds = k => BlamedWaits /\ CommitWasShown /\ LostIn(k)

LEMMA InitRepair == ASSUME NEW k \in Nat PROVE Init => RepairInvariant(k)
  BY DEF Init, RepairInvariant, PollsHold, BlamedWaits, Blaming, CommitWasShown,
         LostIn, Cached, NoAlarm

\* Steps of the others: a device gets online only by marking all its points.
LEMMA OthersRepair ==
    ASSUME NEW k \in Nat, RepairInvariant(k), UNCHANGED <<pollVars, shown, rebuilds>>,
           dirty \subseteq dirty', Cached' \subseteq Cached \cup dirty',
           state' = "online" => state = "online" \/ Cached' \subseteq dirty'
    PROVE  RepairInvariant(k)'
  <1>1. UNCHANGED <<pc, taken, alarm>>
    BY DEF pollVars
  <1>2. PollsHold'
    BY <1>1 DEF RepairInvariant, PollsHold
  <1> SUFFICES ASSUME rebuilds = k PROVE (BlamedWaits /\ CommitWasShown /\ LostIn(k))'
    BY <1>2 DEF RepairInvariant
  <1>3. BlamedWaits'
    BY <1>1 DEF RepairInvariant, BlamedWaits, Blaming, AllDirty
  <1>4. CommitWasShown'
    BY <1>1 DEF RepairInvariant, CommitWasShown
  <1>5. LostIn(k)'
    BY DEF RepairInvariant, LostIn
  <1> QED BY <1>3, <1>4, <1>5

LEMMA EventsRepair ==
    ASSUME NEW k \in Nat, PublishedInvariant(k), RepairInvariant(k), CleanRebuild(k),
           QuietEvent \/ Refresh \/ Rebuild \/ \E p \in Point, v \in Value : Measure(p, v) \/ Confirm(p, v)
    PROVE  RepairInvariant(k)'
  <1>1. CASE QuietEvent
    <2>1. UNCHANGED <<pollVars, shown, rebuilds, rank, dirty>>
      BY <1>1 DEF QuietEvent, OpenLink, BeginAfterOpen, CloseLink, Evidence, EvidenceAges,
                  GraceEnds, DeferralEnds, SilenceGrows, valueVars, worldVars, countVars
    <2>2. state' = "online" => state = "online"
      BY <1>1 DEF QuietEvent, OpenLink, BeginAfterOpen, BeginRecovery, CloseLink, Evidence,
                  EvidenceAges, GraceEnds, DeferralEnds, SilenceGrows
    <2> QED BY <2>1, <2>2, OthersRepair DEF Cached
  <1>2. CASE Refresh
    BY <1>2, OthersRepair DEF Refresh, MarkAllDirty, linkVars, Cached
  <1>3. CASE Rebuild
    <2>1. UNCHANGED pollVars /\ state' = "lost" /\ rank' = [p \in Point |-> 0]
      BY <1>3 DEF Rebuild
    <2>2. rebuilds' = k => \A w \in Poller : taken'[w] = {}
      BY <1>3, <2>1 DEF CleanRebuild, pollVars
    <2>3. PollsHold'
      BY <2>1 DEF RepairInvariant, PollsHold, pollVars
    <2>4. rebuilds' = k => BlamedWaits' /\ CommitWasShown'
      BY <2>1, <2>2 DEF BlamedWaits, CommitWasShown
    <2>5. LostIn(k)'
      BY <2>1 DEF LostIn
    <2> QED BY <2>3, <2>4, <2>5 DEF RepairInvariant
  <1>4. ASSUME NEW p \in Point, NEW v \in Value, Measure(p, v) PROVE RepairInvariant(k)'
    <2>1. Cached' = Cached \cup {p} /\ (value[p] = v => p \in Cached)
      BY <1>4, StoreKeeps DEF Measure
    <2>2. dirty' = dirty \cup (IF value[p] # v THEN {p} ELSE {})
      BY <1>4 DEF Measure, MarkChanged, MarkDirty
    <2> QED BY <1>4, <2>1, <2>2, OthersRepair DEF Measure
  <1>5. ASSUME NEW p \in Point, NEW v \in Value, Confirm(p, v) PROVE RepairInvariant(k)'
    <2>1. Cached' = Cached \cup {p}
      BY <1>5, StoreKeeps DEF Confirm
    <2>2. dirty' = dirty \cup Cached \cup {p}
      BY <1>5 DEF Confirm, MarkConfirmed
    <2> QED BY <1>5, <2>1, <2>2, OthersRepair DEF Confirm
  <1> QED BY <1>1, <1>2, <1>3, <1>4, <1>5

\* The decisions of the only poll: it begins to take the device for lost only
\* when the device is.
LEMMA DecisionsRepair ==
    ASSUME NEW k \in Nat, TypeOK, RepairInvariant(k), SinglePoll, NEW w \in Poller, QuietPoll(w), ~Announce(w)
    PROVE  RepairInvariant(k)'
  <1> DEFINE Blame == {"grace", "fail", "relink", "restart", "defer", "announce"}
             Late == {"publish", "commit"}
  <1>0. PollTypeOK
    BY DEF TypeOK
  <1>1. /\ UNCHANGED <<shown, rebuilds, dirty, rank, taken, alarm>>
        /\ pc[w] \notin {"peek", "publish", "commit"}
    BY DEF QuietPoll, PollStart, ReadEvidence, CheckSleep, EnterSleep, CheckSilence, GiveUp, ReadState,
           StaleEdge, CheckGrace, FailRecovery, CheckRelink, Restart, Defer, Consume, ResetAnnounce,
           At, valueVars, worldVars, countVars
  <1>2. taken[w] = {} /\ alarm[w] = NoAlarm
    BY <1>1 DEF RepairInvariant, PollsHold
  <1>3. pc'[w] \notin Late
    BY <1>0 DEF QuietPoll, PollStart, ReadEvidence, CheckSleep, EnterSleep, CheckSilence, GiveUp, ReadState,
           StaleEdge, CheckGrace, FailRecovery, CheckRelink, Restart, Defer, Consume, ResetAnnounce,
           Goto, WhenIn, WhenLost, WhenRecovering, PollTypeOK
  <1>4. state' = "online" => state = "online" /\ (pc'[w] \in Blame => pc[w] \in Blame)
    <2>1. CASE PollStart(w) \/ ReadEvidence(w) \/ CheckSleep(w) \/ EnterSleep(w) \/ CheckSilence(w)
                 \/ GiveUp(w)
      BY <1>0, <2>1 DEF PollStart, ReadEvidence, CheckSleep, EnterSleep, CheckSilence, GiveUp,
                   Goto, linkVars, PollTypeOK
    <2>2. CASE ReadState(w)
      BY <1>0, <2>2 DEF ReadState, WhenIn, Goto, linkVars, PollTypeOK, TypeOK, LinkTypeOK, States
    <2>3. CASE StaleEdge(w)
      BY <2>3 DEF StaleEdge, BeginRecovery
    <2>4. CASE CheckGrace(w) \/ FailRecovery(w) \/ CheckRelink(w) \/ Restart(w) \/ Defer(w)
      BY <2>4 DEF CheckGrace, FailRecovery, CheckRelink, Restart, Defer, BeginRecovery, At, linkVars
    <2>5. CASE Consume(w) \/ ResetAnnounce(w)
      BY <1>0, <2>5 DEF Consume, ResetAnnounce, Goto, PollTypeOK
    <2> QED BY <2>1, <2>2, <2>3, <2>4, <2>5 DEF QuietPoll
  <1>5. PollsHold'
    BY <1>1, <1>2 DEF PollsHold, SinglePoll
  <1>6. BlamedWaits' \/ rebuilds # k
    BY <1>1, <1>2, <1>4 DEF RepairInvariant, BlamedWaits, Blaming, AllDirty, Cached, SinglePoll
  <1>7. CommitWasShown'
    BY <1>3 DEF CommitWasShown, SinglePoll
  <1>8. LostIn(k)'
    BY <1>1, <1>4 DEF RepairInvariant, LostIn, Cached
  <1> QED BY <1>1, <1>5, <1>6, <1>7, <1>8 DEF RepairInvariant

\* The other steps of the only poll.
LEMMA PollRepairs ==
    ASSUME NEW k \in Nat, TypeOK, RepairInvariant(k), SinglePoll, NEW w \in Poller, PollStep(w)
    PROVE  RepairInvariant(k)'
  <1>0. PollTypeOK /\ WorldTypeOK
    BY DEF TypeOK
  <1>1. CASE QuietPoll(w) /\ ~Announce(w)
    BY <1>1, DecisionsRepair
  <1>2. CASE Announce(w)
    <2>1. /\ pc[w] = "announce" /\ UNCHANGED <<shown, rebuilds, dirty, rank, taken, state>>
      BY <1>2 DEF Announce, At, linkVars, valueVars, worldVars, countVars
    <2>2. taken[w] = {} /\ alarm[w] = NoAlarm
      BY <2>1 DEF RepairInvariant, PollsHold
    <2>3. /\ pc'[w] # "commit"
          /\ alarm'[w] # NoAlarm => pc'[w] = "publish"
      BY <1>0, <1>2, <2>2 DEF Announce, Goto, PollTypeOK
    <2>4. PollsHold'
      BY <2>1, <2>2, <2>3 DEF PollsHold, SinglePoll
    <2>5. BlamedWaits' \/ rebuilds # k
      BY <2>1 DEF RepairInvariant, BlamedWaits, Blaming, AllDirty, Cached, SinglePoll
    <2>6. CommitWasShown'
      BY <2>3 DEF CommitWasShown, SinglePoll
    <2>7. LostIn(k)'
      BY <2>1 DEF RepairInvariant, LostIn, Cached
    <2> QED BY <2>1, <2>4, <2>5, <2>6, <2>7 DEF RepairInvariant
  <1>3. CASE Redirty(w)
    <2>1. /\ pc[w] = "redirty" /\ UNCHANGED <<shown, rebuilds, rank, taken, alarm, state>>
          /\ dirty' = dirty \cup Cached
      BY <1>3 DEF Redirty, At, linkVars, countVars, MarkAllDirty
    <2>2. taken[w] = {} /\ alarm[w] = NoAlarm
      BY <2>1 DEF RepairInvariant, PollsHold
    <2>3. pc'[w] = "peek"
      BY <1>0, <1>3 DEF Redirty, Goto, PollTypeOK
    <2>4. PollsHold'
      BY <2>1, <2>2 DEF PollsHold, SinglePoll
    <2>5. BlamedWaits' /\ CommitWasShown'
      BY <2>1, <2>2, <2>3 DEF BlamedWaits, Blaming, CommitWasShown, SinglePoll
    <2>6. LostIn(k)'
      BY <2>1 DEF LostIn, Cached
    <2> QED BY <2>4, <2>5, <2>6 DEF RepairInvariant
  <1>4. ASSUME NEW p \in Point, Peek(w, p) PROVE RepairInvariant(k)'
    <2>1. /\ pc[w] = "peek" /\ UNCHANGED <<shown, rebuilds, dirty, rank, alarm, state>>
      BY <1>4 DEF Peek, At, linkVars, valueVars, worldVars, countVars
    <2>2. alarm[w] = NoAlarm
      BY <2>1 DEF RepairInvariant, PollsHold
    <2>3. pc'[w] \in {"peek", "publish", "idle"} /\ (pc'[w] = "idle" => taken'[w] = {})
      BY <1>0, <1>4 DEF Peek, Goto, PollTypeOK
    <2>4. PollsHold'
      BY <2>1, <2>2, <2>3 DEF PollsHold, SinglePoll
    <2>5. BlamedWaits' /\ CommitWasShown'
      BY <2>1, <2>2, <2>3 DEF BlamedWaits, Blaming, CommitWasShown, SinglePoll
    <2>6. LostIn(k)'
      BY <2>1 DEF RepairInvariant, LostIn, Cached
    <2> QED BY <2>4, <2>5, <2>6 DEF RepairInvariant
  <1>5. CASE Publish(w)
    <2>1. /\ pc[w] = "publish" /\ UNCHANGED <<rebuilds, dirty, rank, taken, alarm, state>>
          /\ shown' = IF alarm[w] # NoAlarm
                        THEN [p \in Point |-> Lost]
                        ELSE [p \in Point |-> IF \E r \in taken[w] : r.point = p
                                                THEN (CHOOSE r \in taken[w] : r.point = p).value
                                                ELSE shown[p]]
      BY <1>5 DEF Publish, At, linkVars, valueVars, countVars
    <2>2. pc'[w] = "commit"
      BY <1>0, <1>5 DEF Publish, Goto, PollTypeOK
    <2>3. PollsHold'
      BY <2>1, <2>2 DEF RepairInvariant, PollsHold, SinglePoll
    <2>4. BlamedWaits' \/ rebuilds # k
      BY <2>1, <2>2 DEF RepairInvariant, BlamedWaits, Blaming, AllDirty, Cached, SinglePoll
    <2>5. ASSUME NEW p \in Point, NEW r \in taken[w], r.point = p, alarm[w] = NoAlarm
          PROVE  shown'[p] # Lost
      <3>1. (CHOOSE q \in taken[w] : q.point = p) \in taken[w]
        BY <2>5
      <3>2. shown'[p] = (CHOOSE q \in taken[w] : q.point = p).value
        BY <2>1, <2>5
      <3> QED BY <1>0, <3>1, <3>2, DeviceAssumption DEF PollTypeOK, Reading
    <2>6. CommitWasShown'
      <3> SUFFICES ASSUME NEW r \in taken[w] PROVE shown'[r.point] # Lost
        BY <2>1 DEF CommitWasShown, SinglePoll
      <3>1. r.point \in Point /\ alarm[w] = NoAlarm
        BY <1>0 DEF PollTypeOK, Reading, RepairInvariant, PollsHold
      <3> QED BY <2>5, <3>1
    <2>7. LostIn(k)' \/ rebuilds # k
      <3>1. CASE alarm[w] # NoAlarm
        BY <2>1, <3>1 DEF RepairInvariant, BlamedWaits, Blaming, AllDirty, LostIn, Cached
      <3>2. CASE alarm[w] = NoAlarm
        <4>1. \A p \in Point : shown'[p] = Lost => shown[p] = Lost
          BY <2>1, <2>5, <3>2
        <4> QED BY <2>1, <4>1 DEF RepairInvariant, LostIn, Cached
      <3> QED BY <3>1, <3>2
    <2> QED BY <2>1, <2>3, <2>4, <2>6, <2>7 DEF RepairInvariant
  <1>6. CASE PublishFails(w)
    <2>1. /\ UNCHANGED <<shown, rebuilds, dirty, rank, state>>
          /\ pc'[w] = "idle" /\ taken'[w] = {} /\ alarm'[w] = NoAlarm
      BY <1>0, <1>6 DEF PublishFails, Goto, PollTypeOK, linkVars, valueVars, worldVars
    <2>2. PollsHold' /\ BlamedWaits' /\ CommitWasShown'
      BY <2>1 DEF PollsHold, BlamedWaits, Blaming, CommitWasShown, SinglePoll
    <2>3. LostIn(k)'
      BY <2>1 DEF RepairInvariant, LostIn, Cached
    <2> QED BY <2>2, <2>3 DEF RepairInvariant
  <1>7. CASE Commit(w)
    <2>1. /\ UNCHANGED <<shown, rebuilds, rank, state>> /\ pc[w] = "commit"
          /\ dirty' = dirty \ Cleared(w)
          /\ pc'[w] = "idle" /\ taken'[w] = {} /\ alarm'[w] = NoAlarm
      BY <1>0, <1>7 DEF Commit, At, Goto, PollTypeOK, worldVars, countVars
    <2>2. PollsHold' /\ BlamedWaits' /\ CommitWasShown'
      BY <2>1 DEF PollsHold, BlamedWaits, Blaming, CommitWasShown, SinglePoll
    <2>3. rebuilds = k => \A p \in Cleared(w) : shown[p] # Lost
      BY <2>1 DEF RepairInvariant, CommitWasShown, Cleared
    <2>4. LostIn(k)'
      BY <2>1, <2>3 DEF RepairInvariant, LostIn, Cached
    <2> QED BY <2>2, <2>4 DEF RepairInvariant
  <1> QED BY <1>1, <1>2, <1>3, <1>4, <1>5, <1>6, <1>7 DEF PollStep, QuietPoll

LEMMA NextKeepsRepair ==
    ASSUME NEW k \in Nat, PublishedInvariant(k), RepairInvariant(k), SinglePoll,
           [Next]_vars, [CleanRebuild(k)]_vars
    PROVE  RepairInvariant(k)'
  <1>1. CASE UNCHANGED vars
    BY <1>1, OthersRepair DEF vars, linkVars, valueVars, worldVars, countVars, Cached
  <1>2. CASE Next /\ CleanRebuild(k)
    <2>1. TypeOK
      BY DEF PublishedInvariant
    <2> QED BY <1>2, <2>1, EventsRepair, PollRepairs DEF Next, Speaks, QuietEvent
  <1> QED BY <1>1, <1>2

\* A point shown as lost on a device that is online waits to be published, in
\* every order of the recovery with the poll's announcement and confirmations,
\* provided that the polls of the device do not overlap.
THEOREM LostGetsRepaired == Spec => [](SinglePoll => LostIsRepaired)
  <1> DEFINE Inv == PublishedInvariant(0) /\ (SinglePoll => RepairInvariant(0))
  <1>1. Init => Inv
    BY InitInvariant, InitRepair
  <1>2. Inv /\ [Next]_vars => Inv'
    <2> SUFFICES ASSUME Inv, [Next]_vars PROVE Inv'
      OBVIOUS
    <2>1. CleanRebuild(0)
      BY FirstMaster DEF PublishedInvariant
    <2>2. PublishedInvariant(0)'
      BY <2>1, NextKeepsInvariant
    <2>3. ASSUME SinglePoll PROVE RepairInvariant(0)'
      BY <2>1, <2>3, NextKeepsRepair
    <2> QED BY <2>2, <2>3 DEF SinglePoll
  <1>3. Inv => (SinglePoll => LostIsRepaired)
    BY DEF RepairInvariant, LostIn, LostIsRepaired
  <1> QED BY <1>1, <1>2, <1>3, PTL DEF Spec

\* The same of every later master, even when the comm_lost of the master before
\* it is still on its way: what that shows, the recovery of the new one repairs.
THEOREM LostGetsRepairedByRebuilds ==
    ASSUME NEW k \in Nat
    PROVE  Spec /\ [][CleanRebuild(k)]_vars => [](SinglePoll => LostIn(k))
  <1> DEFINE Inv == PublishedInvariant(k) /\ (SinglePoll => RepairInvariant(k))
  <1>1. Init => Inv
    BY InitInvariant, InitRepair
  <1>2. Inv /\ [Next]_vars /\ [CleanRebuild(k)]_vars => Inv'
    <2> SUFFICES ASSUME Inv, [Next]_vars, [CleanRebuild(k)]_vars PROVE Inv'
      OBVIOUS
    <2>1. PublishedInvariant(k)'
      BY NextKeepsInvariant
    <2>2. ASSUME SinglePoll PROVE RepairInvariant(k)'
      BY <2>2, NextKeepsRepair
    <2> QED BY <2>1, <2>2 DEF SinglePoll
  <1>3. Inv => (SinglePoll => LostIn(k))
    BY DEF RepairInvariant, LostIn
  <1> QED BY <1>1, <1>2, <1>3, PTL DEF Spec

-----------------------------------------------------------------------------
(* Old evidence does not start a recovery twice, if polls do not overlap.  *)

\* The right to recover is only missing after a recovery has failed; a poll that
\* is about to start one found it there.
RightInvariant ==
    /\ ~relinkOk => state \in {"lost", "smart_idle"}
    /\ \A w \in Poller : pc[w] \in {"edge", "restart"} => relinkOk

\* A recovery starts with the opening of the link or by the right to one, and once
\* a failed recovery has used that up, only what the device or its link does
\* later, or a new master, gives it back: a mute device is not driven from lost
\* to recovering and back by evidence that has been used (relink_izinli).
RecoveryIsEarned ==
    [][/\ state # "recovering" /\ state' = "recovering" => relinkOk \/ opening
       /\ ~relinkOk /\ relinkOk' => Speaks \/ BeginAfterOpen \/ Rebuild]_vars

\* What the steps other than the poll's do to the right.
LEMMA EventsAndRight ==
    ASSUME TypeOK, RightInvariant,
           \/ Speaks \/ BeginAfterOpen \/ CloseLink \/ EvidenceAges \/ GraceEnds
           \/ DeferralEnds \/ SilenceGrows \/ Refresh \/ Rebuild
    PROVE  /\ pc' = pc
           /\ relinkOk => relinkOk'
           /\ ~relinkOk' => state' \in {"lost", "smart_idle"}
           /\ state # "recovering" /\ state' = "recovering" => opening
           /\ ~relinkOk /\ relinkOk' => Speaks \/ BeginAfterOpen \/ Rebuild
<1>1. CASE Speaks
  BY <1>1 DEF Speaks, OpenLink, Evidence, Measure, Confirm, Heard, pollVars
<1>2. CASE BeginAfterOpen
  BY <1>2 DEF BeginAfterOpen, BeginRecovery, pollVars, RightInvariant
<1>3. CASE CloseLink
  BY <1>3 DEF CloseLink, pollVars
<1>4. CASE EvidenceAges \/ GraceEnds \/ DeferralEnds \/ SilenceGrows
  BY <1>4 DEF EvidenceAges, GraceEnds, DeferralEnds, SilenceGrows, pollVars, RightInvariant
<1>5. CASE Refresh
  BY <1>5 DEF Refresh, linkVars, pollVars, RightInvariant
<1>6. CASE Rebuild
  BY <1>6 DEF Rebuild, pollVars
<1> QED BY <1>1, <1>2, <1>3, <1>4, <1>5, <1>6

\* A poll decides for a recovery only where the right to one is there.
LEMMA DecidedByRight ==
    ASSUME TypeOK, RightInvariant, NEW w \in Poller, PollStep(w),
           pc'[w] \in {"edge", "restart"}
    PROVE  relinkOk /\ UNCHANGED <<relinkOk, state>>
<1>1. pc \in [Poller -> Stages]
  BY DEF TypeOK, PollTypeOK
<1>2. CASE ReadState(w)
  <2>1. pc'[w] = WhenIn(w, state) /\ UNCHANGED <<relinkOk, state>>
    BY <1>1, <1>2 DEF ReadState, Goto, linkVars
  <2>2. state \notin {"lost", "smart_idle"}
    BY <2>1 DEF WhenIn, WhenLost
  <2> QED BY <2>1, <2>2 DEF RightInvariant
<1>3. CASE CheckRelink(w)
  BY <1>1, <1>3 DEF CheckRelink, Goto, linkVars
<1>4. ~(\/ PollStart(w) \/ ReadEvidence(w) \/ CheckSleep(w) \/ EnterSleep(w) \/ CheckSilence(w)
        \/ GiveUp(w) \/ StaleEdge(w) \/ CheckGrace(w) \/ FailRecovery(w) \/ Restart(w) \/ Defer(w)
        \/ Announce(w) \/ Consume(w) \/ ResetAnnounce(w) \/ Redirty(w))
  BY <1>1 DEF PollStart, ReadEvidence, CheckSleep, EnterSleep, CheckSilence, GiveUp, StaleEdge,
     CheckGrace, FailRecovery, Restart, Defer, Announce, Consume, ResetAnnounce, Redirty,
     Goto, WhenLost, WhenRecovering
<1>5. ~(\/ \E p \in Point : Peek(w, p)
        \/ Publish(w) \/ PublishFails(w) \/ Commit(w))
  BY <1>1 DEF Peek, Publish, PublishFails, Commit, Goto
<1> QED BY <1>2, <1>3, <1>4, <1>5 DEF PollStep

\* What a step of the poll does to the right and to the state.
LEMMA PollAndRight ==
    ASSUME TypeOK, RightInvariant, NEW w \in Poller, PollStep(w)
    PROVE  /\ ~relinkOk' => state' \in {"lost", "smart_idle"}
           /\ state # "recovering" /\ state' = "recovering" => relinkOk
           /\ ~relinkOk /\ relinkOk' => FALSE
<1>1. CASE StaleEdge(w)
  BY <1>1 DEF StaleEdge, At, BeginRecovery, RightInvariant
<1>2. CASE Restart(w)
  BY <1>2 DEF Restart, At, BeginRecovery, RightInvariant
<1>3. CASE FailRecovery(w)
  BY <1>3 DEF FailRecovery, RightInvariant
<1>4. CASE EnterSleep(w) \/ GiveUp(w)
  BY <1>4 DEF EnterSleep, GiveUp, RightInvariant
<1>5. CASE UNCHANGED <<relinkOk, state>>
  BY <1>5 DEF RightInvariant
<1>6. CASE \/ PollStart(w) \/ ReadEvidence(w) \/ CheckSleep(w) \/ CheckSilence(w) \/ ReadState(w)
           \/ CheckGrace(w) \/ CheckRelink(w) \/ Defer(w) \/ Announce(w) \/ Consume(w)
           \/ ResetAnnounce(w) \/ Redirty(w)
  <2>1. UNCHANGED <<relinkOk, state>>
    BY <1>6 DEF PollStart, ReadEvidence, CheckSleep, CheckSilence, ReadState, CheckGrace,
       CheckRelink, Defer, Announce, Consume, ResetAnnounce, Redirty, linkVars
  <2> QED BY <2>1, <1>5
<1>7. CASE \/ \E p \in Point : Peek(w, p)
           \/ Publish(w) \/ PublishFails(w) \/ Commit(w)
  <2>1. UNCHANGED <<relinkOk, state>>
    BY <1>7 DEF Peek, Publish, PublishFails, Commit, linkVars
  <2> QED BY <2>1, <1>5
<1> QED BY <1>1, <1>2, <1>3, <1>4, <1>6, <1>7 DEF PollStep

LEMMA RightStep ==
    ASSUME TypeOK, RightInvariant, SinglePoll, Next
    PROVE  /\ RightInvariant'
           /\ state # "recovering" /\ state' = "recovering" => relinkOk \/ opening
           /\ ~relinkOk /\ relinkOk' => Speaks \/ BeginAfterOpen \/ Rebuild
<1>1. CASE \/ Speaks \/ BeginAfterOpen \/ CloseLink \/ EvidenceAges \/ GraceEnds
           \/ DeferralEnds \/ SilenceGrows \/ Refresh \/ Rebuild
  BY <1>1, EventsAndRight DEF RightInvariant
<1>2. ASSUME NEW w \in Poller, PollStep(w)
      PROVE  RightInvariant' /\ (state # "recovering" /\ state' = "recovering" => relinkOk)
             /\ ~(~relinkOk /\ relinkOk')
  BY <1>2, PollAndRight, DecidedByRight DEF RightInvariant, SinglePoll
<1> QED BY <1>1, <1>2 DEF Next

\* A device that gives no more evidence is not driven into one recovery after the
\* other: the safety core of MuteSettles, for any number of points and values and
\* any number of openings, provided that the polls of the device do not overlap.
THEOREM RecoveriesAreEarned == Spec /\ []SinglePoll => RecoveryIsEarned
  <1> DEFINE Step == /\ state # "recovering" /\ state' = "recovering" => relinkOk \/ opening
                     /\ ~relinkOk /\ relinkOk' => Speaks \/ BeginAfterOpen \/ Rebuild
  <1>1. Init => RightInvariant
    BY DEF Init, RightInvariant
  <1>2. TypeOK /\ RightInvariant /\ SinglePoll /\ [Next]_vars => RightInvariant' /\ [Step]_vars
    <2> SUFFICES ASSUME TypeOK, RightInvariant, SinglePoll, [Next]_vars
                 PROVE  RightInvariant' /\ [Step]_vars
      OBVIOUS
    <2>1. CASE Next
      BY <2>1, RightStep
    <2>2. CASE UNCHANGED vars
      BY <2>2 DEF vars, linkVars, pollVars, RightInvariant
    <2> QED BY <2>1, <2>2
  <1> QED BY <1>1, <1>2, TypeCorrect, PTL DEF Spec, RecoveryIsEarned

=============================================================================
