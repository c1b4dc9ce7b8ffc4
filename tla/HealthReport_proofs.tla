------------------------- MODULE HealthReport_proofs -------------------------
(***************************************************************************)
(* Proofs about the device health channel, for any number of devices, any  *)
(* size of a batch and any number of failing, late and repeated POSTs and  *)
(* restarts: as long as boot ids grow, what counts as told is what the     *)
(* backend has, a round that succeeds leaves its table right, and no parts *)
(* of two snapshots remove a device.                                       *)
(***************************************************************************)
EXTENDS HealthReport, FiniteSetTheorems, TLAPS

-----------------------------------------------------------------------------
(* The inductive invariant                                                 *)

\* What the gateway's devices are now.
Now == [d \in Device |-> IF d \in known THEN health[d] ELSE None]

\* The batches that a round still has to post are those it announced, and what
\* it read or told is what the devices are, if nothing has changed since.
RoundInvariant ==
    /\ phase = "decide" => tour.index = 0
    /\ phase = "send" =>
         /\ Cardinality(tour.left) <= (tour.count - tour.index) * BatchMax
         /\ Cardinality(tour.left) > (tour.count - tour.index - 1) * BatchMax
         /\ tour.index = 0 => tour.left # {}
    /\ fresh /\ phase \in {"decide", "send"} => tour.read = Now
    /\ fresh /\ phase = "idle" /\ result \in {"nothing", "delta", "snapshot"} => told = Now

\* The order that the backend sees: no POST is ahead of the gateway, a POST on
\* its way is behind what the backend has taken unless it is in doubt.
OrderInvariant ==
    /\ boot = bootFile /\ boot > 0
    /\ ~Newer(newest, <<boot, sequence>>)
    /\ \A m \in late : ~Newer(<<m.boot, m.seq>>, <<boot, sequence>>)
    /\ phase = "send" /\ tour.index > 0 => newest = <<boot, sequence>>
    /\ ~doubt => \A m \in late : ~Newer(<<m.boot, m.seq>>, newest)

\* Numbers of snapshots the gateway has used.
Used(id) == id[1] < boot \/ (id[1] = boot /\ id[2] <= snapshots)

\* If this part on its way completes its snapshot, all devices of it are there.
Completes(m) ==
    m.id # NoSnapshot =>
        /\ m.count = 1 => m.from \subseteq DOMAIN m.devices
        /\ partial.id = m.id /\ Cardinality(partial.got \cup {m.index}) = m.count
             => m.from \subseteq partial.devices \cup DOMAIN m.devices

\* Nothing else carries the number of the snapshot that is being posted, and
\* the backend assembles what was posted of it.
PostedSoFar ==
    /\ \A m \in late : m.id # <<boot, snapshots>>
    /\ tour.index = 0 => partial.id # <<boot, snapshots>> /\ tour.left = Held(tour.read)
    /\ tour.index > 0 /\ tour.left # {} =>
         partial = [id |-> <<boot, snapshots>>, got |-> 0 .. (tour.index - 1),
                    devices |-> Held(tour.read) \ tour.left]

\* Numbers of snapshots are not used twice.
PartsInvariant ==
    /\ Used(partial.id)
    /\ \A m \in late : Used(m.id) /\ Completes(m)
    /\ \A m, n \in late : m.id = n.id /\ m.id # NoSnapshot => m = n
    /\ phase = "send" /\ tour.snapshot => PostedSoFar

\* What the backend's table holds, in doubt only what a snapshot has put there.
TableInvariant ==
    /\ ~doubt /\ (phase = "send" => tour.left # {}) =>
         \A d \in Device : told[d] # None => table[d] = told[d]
    /\ phase = "send" /\ (tour.snapshot \/ ~doubt) =>
         \A d \in Held(tour.read) \ tour.left : table[d] = tour.read[d]
    /\ phase = "send" /\ tour.snapshot /\ tour.left = {} => table = tour.read
    /\ phase = "idle" /\ result = "snapshot" => ~doubt /\ table = told

HealthInvariant ==
    /\ TypeOK
    /\ RoundInvariant
    /\ anchored => OrderInvariant /\ PartsInvariant /\ TableInvariant

-----------------------------------------------------------------------------
(* Batches                                                                 *)

\* So many batches are enough, and none of them is empty.
LEMMA BatchesCount ==
    ASSUME NEW n \in Nat \ {0}
    PROVE  /\ Batches(n) \in Nat
           /\ n <= (Batches(n) - 0) * BatchMax
           /\ n > (Batches(n) - 0 - 1) * BatchMax
  BY HealthAssumption DEF Batches

\* Any part of the devices is finite.
LEMMA DevicesAreFinite ==
    ASSUME NEW S \in SUBSET Device
    PROVE  IsFiniteSet(S) /\ Cardinality(S) \in Nat
  BY HealthAssumption, FS_Subset, FS_CardinalityType

\* Posting one batch of a round leaves the batches after it, and it is the last
\* one exactly when nothing is left.
LEMMA NextBatch ==
    ASSUME TypeOK, RoundInvariant, phase = "send", tour.left # {}, NEW c \in Chunks
    PROVE  /\ c \subseteq tour.left /\ c # {}
           /\ tour.index < tour.count
           /\ tour.index + 1 = tour.count <=> tour.left = c
           /\ Cardinality(tour.left \ c) <= (tour.count - (tour.index + 1)) * BatchMax
           /\ Cardinality(tour.left \ c) > (tour.count - (tour.index + 1) - 1) * BatchMax
  <1> DEFINE left == tour.left
             n == Cardinality(left)
             more == tour.count - tour.index
  <1>1. /\ left \in SUBSET Device /\ left # {} /\ c \subseteq left
        /\ tour.count \in Nat /\ tour.index \in Nat
        /\ Cardinality(c) = IF n < BatchMax THEN n ELSE BatchMax
    BY DEF TypeOK, Tour, Chunks
  <1>2. IsFiniteSet(left) /\ n \in Nat /\ Cardinality(c) \in Nat /\ n > 0
    BY <1>1, DevicesAreFinite, FS_EmptySet
  <1>3. BatchMax \in Nat /\ BatchMax > 0
    BY HealthAssumption
  <1>4. n <= more * BatchMax /\ n > (more - 1) * BatchMax /\ more \in Int
    BY <1>1 DEF RoundInvariant
  <1>5. Cardinality(left \ c) = n - Cardinality(c)
    <2>1. left \cap c = c
      BY <1>1
    <2> QED BY <1>2, <2>1, FS_Difference
  <1>6. Cardinality(c) = n <=> c = left
    BY <1>1, <1>2, FS_Subset
  <1>7. Cardinality(c) > 0
    BY <1>1, <1>2, <1>3
  <1>8. c # {}
    BY <1>7, FS_EmptySet
  <1>9. /\ tour.count - (tour.index + 1) = more - 1
        /\ tour.count - (tour.index + 1) - 1 = more - 2
        /\ tour.index + 1 = tour.count <=> more = 1
        /\ tour.index < tour.count <=> more >= 1
    BY <1>1
  <1> HIDE DEF n, more, left
  <1>10. more >= 1
    BY <1>2, <1>3, <1>4
  <1>11. CASE n < BatchMax
    <2>1. more = 1
      BY <1>2, <1>3, <1>4, <1>10, <1>11
    <2>2. Cardinality(left \ c) = 0 /\ c = left
      BY <1>1, <1>2, <1>5, <1>6, <1>11
    <2> QED BY <1>1, <1>3, <1>8, <1>9, <2>1, <2>2 DEF left
  <1>12. CASE ~(n < BatchMax)
    <2>1. Cardinality(c) = BatchMax
      BY <1>1, <1>12
    <2>2. Cardinality(left \ c) <= (more - 1) * BatchMax /\ Cardinality(left \ c) > (more - 2) * BatchMax
      BY <1>2, <1>3, <1>4, <1>5, <2>1
    <2>3. more = 1 <=> n = BatchMax
      BY <1>2, <1>3, <1>4, <1>10, <1>12
    <2> QED BY <1>1, <1>6, <1>8, <1>9, <1>10, <2>1, <2>2, <2>3 DEF left
  <1> QED BY <1>11, <1>12

\* The envelope of a batch.
LEMMA EnvelopeFields ==
    ASSUME TypeOK, RoundInvariant, phase = "send", tour.left # {}, NEW c \in Chunks
    PROVE  LET m == Envelope(c) IN
           /\ EnvelopeOK(m)
           /\ m.boot = boot /\ m.seq = sequence + 1
           /\ m.id = IF tour.snapshot THEN <<boot, snapshots>> ELSE NoSnapshot
           /\ m.index = tour.index /\ m.count = tour.count
           /\ DOMAIN m.devices = c /\ \A d \in c : m.devices[d] = tour.read[d]
           /\ m.from = Held(tour.read)
  <1>1. c \subseteq tour.left
    BY NextBatch
  <1>2. \A d \in c : d \in Device /\ tour.read[d] \in Value
    BY <1>1 DEF TypeOK, Tour, Held, Signature
  <1>3. /\ boot \in Nat /\ sequence \in Nat /\ snapshots \in Nat
        /\ tour.index \in Nat /\ tour.count \in Nat /\ c \subseteq Held(tour.read)
    BY <1>1 DEF TypeOK, Tour
  <1> QED
    BY <1>2, <1>3 DEF Envelope, EnvelopeOK, NoSnapshot, Held

-----------------------------------------------------------------------------
(* What the backend does with a POST                                       *)

LEMMA AcceptTypes ==
    ASSUME TypeOK, NEW m, EnvelopeOK(m), Accept(m)
    PROVE  /\ newest' \in Nat \X Nat
           /\ table' \in [Device -> Signature]
           /\ partial' \in Assembly /\ IsFiniteSet(partial'.got)
  <1>1. CASE ~Newer(<<m.boot, m.seq>>, newest)
    BY <1>1 DEF Accept, backendVars, TypeOK
  <1>2. CASE Newer(<<m.boot, m.seq>>, newest)
    <2>1. newest' \in Nat \X Nat
      BY <1>2 DEF Accept, EnvelopeOK
    <2>2. table' \in [Device -> Signature]
      BY <1>2 DEF Accept, EnvelopeOK, TypeOK, Signature
    <2>3. NoPartial \in Assembly /\ IsFiniteSet(NoPartial.got)
      BY FS_EmptySet DEF NoPartial, Assembly, NoSnapshot
    <2>4. Merged(m) \in Assembly /\ IsFiniteSet(Merged(m).got)
      <3> DEFINE old == IF partial.id = m.id THEN partial ELSE NoPartial
      <3>1. old \in Assembly /\ IsFiniteSet(old.got)
        BY <2>3 DEF TypeOK
      <3>2. Merged(m) = [id |-> m.id, got |-> old.got \cup {m.index},
                         devices |-> old.devices \cup DOMAIN m.devices]
        BY DEF Merged
      <3>3. IsFiniteSet(old.got \cup {m.index})
        BY <3>1, FS_AddElement
      <3> HIDE DEF old
      <3> QED BY <3>1, <3>2, <3>3 DEF Assembly, EnvelopeOK
    <2>5. partial' = partial \/ partial' = NoPartial \/ partial' = Merged(m)
      BY <1>2 DEF Accept
    <2> QED BY <2>1, <2>2, <2>3, <2>4, <2>5 DEF TypeOK
  <1> QED BY <1>1, <1>2

\* A POST that is not newer changes nothing.
LEMMA StaleIsDropped ==
    ASSUME NEW m, ~Newer(<<m.boot, m.seq>>, newest), Accept(m)
    PROVE  UNCHANGED backendVars
  BY DEF Accept

\* What a POST that is taken leaves to be assembled carries its own number, or
\* is what was there.
LEMMA AcceptAssembles ==
    ASSUME NEW m, Accept(m)
    PROVE  partial' = partial \/ partial' = NoPartial \/ (partial' = Merged(m) /\ partial'.id = m.id)
  BY DEF Accept, backendVars, Merged

\* A batch of a round in the table: the devices it names, and with the last
\* batch of a snapshot the whole table.
LEMMA OwnAccepted ==
    ASSUME HealthInvariant, anchored, phase = "send", tour.left # {}, NEW c \in Chunks,
           Accept(Envelope(c))
    PROVE  /\ newest' = <<boot, sequence + 1>>
           /\ \A d \in c : table'[d] = tour.read[d]
           /\ tour.snapshot /\ c = tour.left => table' = tour.read /\ partial' = NoPartial
           /\ ~(tour.snapshot /\ c = tour.left) =>
                /\ \A d \in Device \ c : table'[d] = table[d]
                /\ partial' = IF tour.snapshot
                              THEN [id |-> <<boot, snapshots>>, got |-> 0 .. tour.index,
                                    devices |-> Held(tour.read) \ (tour.left \ c)]
                              ELSE partial
  <1> DEFINE m == Envelope(c)
  <1>0. TypeOK /\ RoundInvariant /\ OrderInvariant /\ PartsInvariant
    BY DEF HealthInvariant
  <1>1. /\ EnvelopeOK(m)
        /\ m.boot = boot /\ m.seq = sequence + 1
        /\ m.id = IF tour.snapshot THEN <<boot, snapshots>> ELSE NoSnapshot
        /\ m.index = tour.index /\ m.count = tour.count
        /\ DOMAIN m.devices = c /\ \A d \in c : m.devices[d] = tour.read[d]
        /\ m.from = Held(tour.read)
    BY <1>0, EnvelopeFields
  <1> HIDE DEF m
  <1>2. /\ boot \in Nat /\ sequence \in Nat /\ snapshots \in Nat /\ boot > 0
        /\ tour.index \in Nat /\ tour.count \in Nat /\ tour.left \subseteq Held(tour.read)
        /\ newest \in Nat \X Nat
        /\ tour.read \in [Device -> Signature]
    BY <1>0 DEF TypeOK, Tour, OrderInvariant
  <1>3. /\ c \subseteq tour.left /\ tour.index < tour.count
        /\ tour.index + 1 = tour.count <=> tour.left = c
    BY <1>0, NextBatch
  <1>4. Newer(<<m.boot, m.seq>>, newest)
    BY <1>0, <1>1, <1>2 DEF OrderInvariant, Newer
  <1>5. /\ newest' = <<boot, sequence + 1>>
        /\ table' = [d \in Device |->
                       IF d \in c THEN m.devices[d]
                       ELSE IF Whole(m) /\ d \notin Merged(m).devices THEN None
                       ELSE table[d]]
        /\ partial' = IF m.id = NoSnapshot THEN partial
                      ELSE IF Whole(m) THEN NoPartial ELSE Merged(m)
    BY <1>1, <1>4 DEF Accept, m
  <1>6. c \subseteq Device
    BY <1>2, <1>3 DEF Held
  <1>7. \A d \in c : table'[d] = tour.read[d]
    BY <1>1, <1>5, <1>6
  <1>8. CASE ~tour.snapshot
    <2>1. m.id = NoSnapshot /\ ~Whole(m)
      BY <1>1, <1>8 DEF Whole
    <2> QED BY <1>5, <1>7, <1>8, <2>1
  <1>9. CASE tour.snapshot
    <2>1. m.id = <<boot, snapshots>> /\ m.id # NoSnapshot
      BY <1>1, <1>2, <1>9 DEF NoSnapshot
    <2>2. PostedSoFar
      BY <1>0, <1>9 DEF PartsInvariant
    <2>3. /\ Merged(m).id = m.id
          /\ Merged(m).got = 0 .. tour.index
          /\ Merged(m).devices = Held(tour.read) \ (tour.left \ c)
      <3>1. CASE tour.index = 0
        <4>1. partial.id # m.id
          BY <2>1, <2>2, <3>1 DEF PostedSoFar
        <4>2. tour.left = Held(tour.read)
          BY <2>2, <3>1 DEF PostedSoFar
        <4> QED BY <1>1, <1>3, <3>1, <4>1, <4>2 DEF Merged, NoPartial
      <3>2. CASE tour.index > 0
        <4>1. partial = [id |-> <<boot, snapshots>>, got |-> 0 .. (tour.index - 1),
                         devices |-> Held(tour.read) \ tour.left]
          BY <2>2, <3>2 DEF PostedSoFar
        <4>2. (0 .. (tour.index - 1)) \cup {tour.index} = 0 .. tour.index
          BY <1>2, <3>2
        <4>3. (Held(tour.read) \ tour.left) \cup c = Held(tour.read) \ (tour.left \ c)
          BY <1>2, <1>3
        <4> QED BY <1>1, <2>1, <4>1, <4>2, <4>3 DEF Merged
      <3> QED BY <1>2, <3>1, <3>2
    <2>4. Cardinality(0 .. tour.index) = tour.index + 1
      <3>1. 0 \in Int /\ tour.index \in Int /\ ~(0 > tour.index)
        BY <1>2
      <3> QED BY <3>1, FS_Interval
    <2>5. Whole(m) <=> tour.left = c
      BY <1>1, <1>2, <1>3, <2>1, <2>3, <2>4 DEF Whole
    <2>6. Merged(m) = [id |-> <<boot, snapshots>>, got |-> 0 .. tour.index,
                       devices |-> Held(tour.read) \ (tour.left \ c)]
      BY <2>1, <2>3 DEF Merged
    <2>7. CASE c = tour.left
      <3>1. Merged(m).devices = Held(tour.read)
        BY <2>3, <2>7
      <3>2. Whole(m)
        BY <2>5, <2>7
      <3>3. \A d \in Held(tour.read) \ c : table[d] = tour.read[d]
        BY <1>9, <2>7 DEF HealthInvariant, TableInvariant
      <3>4. \A d \in Device : table'[d] = tour.read[d]
        BY <1>5, <1>7, <3>1, <3>2, <3>3 DEF Held
      <3>5. table' = tour.read
        BY <1>2, <1>5, <3>4
      <3> QED BY <1>5, <1>7, <1>9, <2>1, <2>7, <3>2, <3>5
    <2>8. CASE c # tour.left
      BY <1>5, <1>7, <1>9, <2>1, <2>5, <2>6, <2>8
    <2> QED BY <2>7, <2>8
  <1> QED BY <1>5, <1>7, <1>8, <1>9

-----------------------------------------------------------------------------
(* The steps                                                               *)

LEMMA InitHealth == Init => HealthInvariant
  <1> SUFFICES ASSUME Init PROVE HealthInvariant
    OBVIOUS
  <1>0. boot = 1 /\ bootFile = 1 /\ sequence = 0 /\ snapshots = 0 /\ newest = <<0, 0>> /\ late = {}
    BY DEF Init
  <1>1. TypeOK
    <2>1. tour \in Tour /\ tour.left \subseteq Held(tour.read)
      BY DEF Init, NoTour, Tour, Signature
    <2>2. partial \in Assembly /\ IsFiniteSet(partial.got)
      BY FS_EmptySet DEF Init, NoPartial, Assembly, NoSnapshot
    <2>3. newest \in Nat \X Nat
      BY <1>0
    <2>4. health \in [Device -> Value]
      BY DEF Init
    <2>5. told \in [Device -> Signature] /\ table \in [Device -> Signature]
      BY DEF Init, Signature
    <2>6. /\ config = Device /\ known = {} /\ cpc = "idle" /\ phase = "idle" /\ result = "none"
          /\ needed = TRUE /\ ever = FALSE /\ fresh = FALSE /\ doubt = FALSE /\ anchored = TRUE
          /\ changes = 0 /\ intervals = 0 /\ failures = 0 /\ crashes = 0 /\ bootFaults = 0
      BY DEF Init
    <2>7. {sequence, snapshots, boot, bootFile} \subseteq Nat
      BY <1>0
    <2>8. {changes, intervals, failures, crashes, bootFaults} \subseteq Nat
      BY <2>6
    <2> QED BY <1>0, <2>1, <2>2, <2>3, <2>4, <2>5, <2>6, <2>7, <2>8 DEF TypeOK
  <1>2. RoundInvariant
    BY DEF Init, RoundInvariant
  <1>3. OrderInvariant
    BY <1>0 DEF Init, OrderInvariant, Newer
  <1>4. PartsInvariant
    BY <1>0 DEF Init, PartsInvariant, Used, NoPartial, NoSnapshot
  <1>5. TableInvariant
    BY DEF Init, TableInvariant
  <1> QED BY <1>1, <1>2, <1>3, <1>4, <1>5 DEF HealthInvariant

\* Steps of the devices and of the config thread concern neither the publisher's
\* memory nor the backend.
LEMMA DevicesKeep ==
    ASSUME HealthInvariant, TypeOK',
           UNCHANGED <<phase, told, sequence, snapshots, boot, tour, bootFile, late,
                       newest, table, partial, result, doubt, anchored>>,
           fresh' => fresh /\ UNCHANGED <<known, health>>
    PROVE  HealthInvariant'
  <1>1. RoundInvariant'
    BY DEF HealthInvariant, RoundInvariant, Now
  <1>2. OrderInvariant => OrderInvariant'
    BY DEF OrderInvariant, Newer
  <1>3. PartsInvariant => PartsInvariant'
    BY DEF PartsInvariant, Used, Completes, PostedSoFar
  <1>4. TableInvariant => TableInvariant'
    BY DEF TableInvariant
  <1> QED BY <1>1, <1>2, <1>3, <1>4 DEF HealthInvariant

LEMMA DeviceSteps ==
    ASSUME HealthInvariant,
           \/ \E d \in Device : Discover(d) \/ \E v \in Value : StateChanges(d, v)
           \/ \E S \in SUBSET Device : Reconfigure(S)
           \/ RequestSnapshot \/ ForgetDevices \/ UNCHANGED vars
    PROVE  HealthInvariant'
  <1> USE DEF publisherVars, backendVars, boundVars
  <1>0. TypeOK
    BY DEF HealthInvariant
  <1>1. ASSUME NEW d \in Device, Discover(d) PROVE HealthInvariant'
    <2>1. TypeOK'
      BY <1>0, <1>1 DEF Discover, TypeOK, EnvelopeOK
    <2> QED BY <1>1, <2>1, DevicesKeep DEF Discover
  <1>2. ASSUME NEW d \in Device, NEW v \in Value, StateChanges(d, v) PROVE HealthInvariant'
    <2>1. TypeOK'
      <3>1. health' \in [Device -> Value]
        BY <1>0, <1>2 DEF StateChanges, TypeOK
      <3>2. /\ changes' = changes + 1 /\ fresh' = FALSE
            /\ UNCHANGED <<config, known, cpc, publisherVars, bootFile, late, backendVars,
                           result, doubt, anchored, intervals, failures, crashes, bootFaults>>
        BY <1>2 DEF StateChanges
      <3>3. {changes', intervals', failures', crashes', bootFaults'} \subseteq Nat
        BY <1>0, <3>2 DEF TypeOK
      <3> QED BY <1>0, <3>1, <3>2, <3>3 DEF TypeOK, EnvelopeOK
    <2> QED BY <1>2, <2>1, DevicesKeep DEF StateChanges
  <1>3. ASSUME NEW S \in SUBSET Device, Reconfigure(S) PROVE HealthInvariant'
    <2>1. TypeOK'
      BY <1>0, <1>3 DEF Reconfigure, TypeOK, EnvelopeOK
    <2> QED BY <1>3, <2>1, DevicesKeep DEF Reconfigure
  <1>4. CASE RequestSnapshot
    <2>1. TypeOK'
      BY <1>0, <1>4 DEF RequestSnapshot, TypeOK, EnvelopeOK
    <2> QED BY <1>4, <2>1, DevicesKeep DEF RequestSnapshot
  <1>5. CASE ForgetDevices
    <2>1. TypeOK'
      BY <1>0, <1>5 DEF ForgetDevices, TypeOK, EnvelopeOK
    <2> QED BY <1>5, <2>1, DevicesKeep DEF ForgetDevices
  <1>6. CASE UNCHANGED vars
    <2>1. TypeOK'
      BY <1>0, <1>6 DEF vars, deviceVars, TypeOK, EnvelopeOK
    <2> QED BY <1>6, <2>1, DevicesKeep DEF vars, deviceVars
  <1> QED BY <1>1, <1>2, <1>3, <1>4, <1>5, <1>6

\* A round begins.
LEMMA ReadKeeps ==
    ASSUME HealthInvariant, ReadSource
    PROVE  HealthInvariant'
  <1> USE DEF deviceVars, backendVars, boundVars
  <1>0. TypeOK
    BY DEF HealthInvariant
  <1>1. /\ tour' = [read |-> Now, snapshot |-> FALSE, left |-> {}, index |-> 0, count |-> 0]
        /\ phase = "idle" /\ phase' = "decide"
        /\ UNCHANGED <<known, health, told, sequence, snapshots, boot, bootFile, late,
                       newest, table, partial, result, doubt, anchored>>
    BY DEF ReadSource, NoTour, Now
  <1>2. tour'.read = Now /\ tour'.index = 0 /\ tour'.left = {} /\ Now' = Now
    BY <1>1 DEF Now
  <1>3. TypeOK'
    <2>1. Now \in [Device -> Signature]
      BY <1>0 DEF Now, TypeOK, Signature
    <2>2. tour' \in Tour /\ tour'.left \subseteq Held(tour'.read)
      BY <1>1, <1>2, <2>1 DEF Tour
    <2> QED BY <1>0, <2>2 DEF ReadSource, TypeOK, EnvelopeOK
  <1>4. RoundInvariant'
    BY <1>1, <1>2 DEF RoundInvariant
  <1>5. OrderInvariant => OrderInvariant'
    BY <1>1 DEF OrderInvariant, Newer
  <1>6. PartsInvariant => PartsInvariant'
    BY <1>1 DEF PartsInvariant, Used, Completes
  <1>7. TableInvariant => TableInvariant'
    BY <1>1 DEF TableInvariant
  <1> QED BY <1>1, <1>3, <1>4, <1>5, <1>6, <1>7 DEF HealthInvariant

\* A round decides what to post.
LEMMA DecideKeeps ==
    ASSUME HealthInvariant, NEW due \in BOOLEAN, Decide(due)
    PROVE  HealthInvariant'
  <1> USE DEF deviceVars, backendVars, boundVars
  <1> DEFINE snap == needed \/ ~ever \/ due
             n == Cardinality(Records(snap))
  <1>0. TypeOK /\ RoundInvariant
    BY DEF HealthInvariant
  <1>1. /\ phase = "decide" /\ intervals' \in Nat
        /\ UNCHANGED <<known, health, config, cpc, needed, ever, sequence, boot, bootFile, late,
                       newest, table, partial, fresh, doubt, anchored, changes, failures,
                       crashes, bootFaults>>
    BY <1>0 DEF Decide, TypeOK
  <1>2. tour \in Tour /\ tour.index = 0 /\ Now' = Now
    BY <1>0, <1>1 DEF TypeOK, RoundInvariant, Now
  <1>3. Records(snap) \in SUBSET Device /\ Records(snap) \subseteq Held(tour.read)
    BY DEF Records, Held
  <1>4. n \in Nat /\ (n = 0 <=> Records(snap) = {})
    BY <1>3, DevicesAreFinite, FS_EmptySet
  <1>5. CASE n = 0
    <2>1. /\ phase' = "idle" /\ told' = tour.read /\ result' = "nothing"
          /\ tour' = NoTour /\ UNCHANGED snapshots
      BY <1>5 DEF Decide
    <2>2. TypeOK'
      <3>1. tour' \in Tour /\ tour'.left \subseteq Held(tour'.read) /\ told' \in [Device -> Signature]
        BY <1>2, <2>1 DEF NoTour, Tour, Signature
      <3> QED BY <1>0, <1>1, <2>1, <3>1 DEF TypeOK, EnvelopeOK
    <2>3. RoundInvariant'
      BY <1>0, <1>1, <1>2, <2>1 DEF RoundInvariant
    <2>4. OrderInvariant => OrderInvariant'
      BY <1>1, <2>1 DEF OrderInvariant, Newer
    <2>5. PartsInvariant => PartsInvariant'
      BY <1>1, <2>1 DEF PartsInvariant, Used, Completes
    <2>6. TableInvariant => TableInvariant'
      <3>1. \A d \in Device : tour.read[d] # None => told[d] = tour.read[d]
        BY <1>4, <1>5 DEF Records, Held
      <3> QED BY <1>1, <2>1, <3>1 DEF TableInvariant
    <2> QED BY <1>1, <2>2, <2>3, <2>4, <2>5, <2>6 DEF HealthInvariant
  <1>6. CASE n # 0
    <2>1. /\ phase' = "send"
          /\ tour' = [tour EXCEPT !.snapshot = snap, !.left = Records(snap), !.count = Batches(n)]
          /\ snapshots' = IF snap THEN snapshots + 1 ELSE snapshots
          /\ UNCHANGED <<told, result>>
      BY <1>6 DEF Decide
    <2>2. Batches(n) \in Nat /\ n <= (Batches(n) - 0) * BatchMax /\ n > (Batches(n) - 0 - 1) * BatchMax
      BY <1>4, <1>6, BatchesCount
    <2>3. /\ tour'.read = tour.read /\ tour'.snapshot = snap /\ tour'.left = Records(snap)
          /\ tour'.index = 0 /\ tour'.count = Batches(n)
      BY <1>2, <2>1 DEF Tour
    <2>4. snap \in BOOLEAN /\ snapshots' \in Nat /\ snapshots <= snapshots'
      BY <1>0, <2>1 DEF TypeOK
    <2>5. TypeOK'
      <3>1. tour' \in Tour
        BY <1>2, <1>3, <2>1, <2>2, <2>4 DEF Tour
      <3>2. tour'.left \subseteq Held(tour'.read)
        BY <1>3, <2>3
      <3> QED BY <1>0, <1>1, <2>1, <2>4, <3>1, <3>2 DEF TypeOK, EnvelopeOK
    <2>6. RoundInvariant'
      <3>1. Cardinality(tour'.left) = n /\ tour'.left # {}
        BY <1>4, <1>6, <2>3
      <3>2. tour'.count - tour'.index = Batches(n) - 0 /\ tour'.count - tour'.index - 1 = Batches(n) - 0 - 1
        BY <2>2, <2>3
      <3> HIDE DEF n
      <3>3. /\ Cardinality(tour'.left) <= (tour'.count - tour'.index) * BatchMax
            /\ Cardinality(tour'.left) > (tour'.count - tour'.index - 1) * BatchMax
        BY <2>2, <3>1, <3>2
      <3>4. fresh' => tour'.read = Now'
        BY <1>0, <1>1, <1>2, <2>3 DEF RoundInvariant
      <3> QED BY <2>1, <3>1, <3>3, <3>4 DEF RoundInvariant
    <2>7. OrderInvariant => OrderInvariant'
      BY <1>1, <2>3 DEF OrderInvariant, Newer
    <2>8. PartsInvariant => PartsInvariant'
      <3> SUFFICES ASSUME PartsInvariant PROVE PartsInvariant'
        OBVIOUS
      <3>1. \A id : Used(id) /\ id \in Nat \X Nat =>
              Used(id)' /\ (snapshots' = snapshots + 1 => id # <<boot, snapshots'>>)
        BY <1>0, <1>1, <2>4 DEF Used, TypeOK
      <3>2. partial.id \in Nat \X Nat /\ \A m \in late : m.id \in Nat \X Nat
        BY <1>0 DEF TypeOK, Assembly, EnvelopeOK
      <3>3. Used(partial.id)' /\ \A m \in late : Used(m.id)' /\ Completes(m)'
        BY <1>1, <3>1, <3>2 DEF PartsInvariant, Completes
      <3>4. ASSUME snap PROVE PostedSoFar'
        <4>1. Records(snap) = Held(tour.read)
          BY <3>4 DEF Records
        <4>2. snapshots' = snapshots + 1
          BY <2>1, <3>4
        <4>3. partial.id # <<boot, snapshots'>> /\ \A m \in late : m.id # <<boot, snapshots'>>
          BY <3>1, <3>2, <4>2 DEF PartsInvariant
        <4>4. tour'.index = 0 /\ tour'.left = Held(tour'.read)
          BY <2>3, <4>1
        <4> QED BY <1>1, <4>3, <4>4 DEF PostedSoFar
      <3> QED BY <1>1, <2>3, <3>3, <3>4 DEF PartsInvariant, Used
    <2>9. TableInvariant => TableInvariant'
      <3> SUFFICES ASSUME TableInvariant PROVE TableInvariant'
        OBVIOUS
      <3>1. tour'.left # {}
        BY <1>4, <1>6, <2>3
      <3>2. \A d \in Held(tour.read) \ Records(snap) : ~snap /\ told[d] = tour.read[d] /\ d \in Device
                                                       /\ told[d] # None
        BY DEF Records, Held
      <3> QED BY <1>1, <2>1, <2>3, <3>1, <3>2 DEF TableInvariant
    <2> QED BY <1>1, <2>5, <2>6, <2>7, <2>8, <2>9 DEF HealthInvariant
  <1> QED BY <1>5, <1>6

\* What is assembled after a batch of the round was taken cannot be completed by
\* a part that is still on its way.
LEMMA OwnPartsApart ==
    ASSUME HealthInvariant, anchored, phase = "send", tour.left # {}, NEW c \in Chunks,
           Accept(Envelope(c))
    PROVE  /\ Used(partial'.id)
           /\ \/ partial' = partial
              \/ \A n \in late : n.id # NoSnapshot => partial'.id # n.id
  <1> DEFINE m == Envelope(c)
  <1>0. TypeOK /\ RoundInvariant /\ OrderInvariant /\ PartsInvariant
    BY DEF HealthInvariant
  <1>1. m.id = IF tour.snapshot THEN <<boot, snapshots>> ELSE NoSnapshot
    BY <1>0, EnvelopeFields
  <1>2. boot \in Nat /\ boot > 0 /\ snapshots \in Nat
    BY <1>0 DEF TypeOK, OrderInvariant
  <1>3. Used(m.id) /\ Used(NoSnapshot)
    BY <1>1, <1>2 DEF Used, NoSnapshot
  <1>4. \A n \in late : n.id # NoSnapshot => n.id # m.id
    BY <1>0, <1>1 DEF PartsInvariant, PostedSoFar
  <1>5. partial' = partial \/ partial' = NoPartial \/ partial'.id = m.id
    BY AcceptAssembles
  <1>6. partial' = NoPartial => partial'.id = NoSnapshot
    BY DEF NoPartial
  <1>7. Used(partial.id)
    BY <1>0 DEF PartsInvariant
  <1> HIDE DEF m
  <1> QED BY <1>3, <1>4, <1>5, <1>6, <1>7

\* A part on its way stays as it is while the assembly is, or is of another
\* snapshot.
LEMMA CompletesStays ==
    ASSUME NEW n, Completes(n), partial' = partial \/ (n.id # NoSnapshot => partial'.id # n.id)
    PROVE  Completes(n)'
  BY DEF Completes

\* A batch is taken and answered.
LEMMA TakenKeeps ==
    ASSUME HealthInvariant, NEW c \in Chunks, SendTaken(c)
    PROVE  HealthInvariant'
  <1> USE DEF deviceVars, boundVars
  <1>0. TypeOK /\ RoundInvariant
    BY DEF HealthInvariant
  <1>1. /\ phase = "send" /\ phase' = "send" /\ tour.left # {} /\ sequence' = sequence + 1
        /\ Accept(Envelope(c))
        /\ told' = [d \in Device |-> IF d \in c THEN tour.read[d] ELSE told[d]]
        /\ UNCHANGED <<config, known, health, cpc, needed, ever, snapshots, boot, bootFile, late, result,
                       fresh, doubt, anchored, changes, intervals, failures, crashes, bootFaults>>
    BY DEF SendTaken
  <1>2. /\ tour \in Tour /\ tour.index \in Nat /\ sequence \in Nat /\ boot \in Nat /\ snapshots \in Nat
        /\ tour.left \subseteq Held(tour.read) /\ Held(tour.read) \subseteq Device
    BY <1>0 DEF TypeOK, Tour, Held
  <1>3. /\ tour'.left = tour.left \ c /\ tour'.index = tour.index + 1 /\ tour'.read = tour.read
        /\ tour'.snapshot = tour.snapshot /\ tour'.count = tour.count /\ tour' \in Tour
    <2>1. tour' = [tour EXCEPT !.left = tour.left \ c, !.index = tour.index + 1]
      BY DEF SendTaken
    <2>2. tour.left \ c \in SUBSET Device /\ tour.index + 1 \in Nat
      BY <1>2
    <2> QED BY <1>2, <2>1, <2>2 DEF Tour
  <1>4. EnvelopeOK(Envelope(c)) /\ c \subseteq tour.left
    BY <1>0, <1>1, EnvelopeFields, NextBatch
  <1>5. TypeOK'
    <2>1. told' \in [Device -> Signature] /\ tour'.left \subseteq Held(tour'.read)
      BY <1>0, <1>1, <1>2, <1>3 DEF TypeOK, Tour
    <2>2. {sequence', snapshots', boot', bootFile'} \subseteq Nat
      BY <1>0, <1>1 DEF TypeOK
    <2>3. /\ newest' \in Nat \X Nat /\ table' \in [Device -> Signature]
          /\ partial' \in Assembly /\ IsFiniteSet(partial'.got)
      BY <1>0, <1>1, <1>4, AcceptTypes
    <2> QED BY <1>0, <1>1, <1>3, <2>1, <2>2, <2>3 DEF TypeOK, EnvelopeOK
  <1>6. RoundInvariant'
    <2>1. /\ Cardinality(tour'.left) <= (tour'.count - tour'.index) * BatchMax
          /\ Cardinality(tour'.left) > (tour'.count - tour'.index - 1) * BatchMax
      BY <1>0, <1>1, <1>3, NextBatch
    <2>2. tour'.index # 0
      BY <1>2, <1>3
    <2> QED BY <1>0, <1>1, <1>3, <2>1, <2>2 DEF RoundInvariant, Now
  <1>7. SUFFICES ASSUME anchored PROVE (OrderInvariant /\ PartsInvariant /\ TableInvariant)'
    BY <1>1, <1>5, <1>6 DEF HealthInvariant
  <1>8. OrderInvariant /\ PartsInvariant /\ TableInvariant
    BY <1>7 DEF HealthInvariant
  <1>9. /\ newest' = <<boot, sequence + 1>>
        /\ \A d \in c : table'[d] = tour.read[d]
        /\ tour.snapshot /\ c = tour.left => table' = tour.read /\ partial' = NoPartial
        /\ ~(tour.snapshot /\ c = tour.left) =>
             /\ \A d \in Device \ c : table'[d] = table[d]
             /\ partial' = IF tour.snapshot
                           THEN [id |-> <<boot, snapshots>>, got |-> 0 .. tour.index,
                                 devices |-> Held(tour.read) \ (tour.left \ c)]
                           ELSE partial
    BY <1>1, <1>7, OwnAccepted
  <1>10. OrderInvariant'
    <2>1. \A m \in late : m.boot \in Nat /\ m.seq \in Nat
      BY <1>0 DEF TypeOK, EnvelopeOK
    <2>2. \A m \in late : ~Newer(<<m.boot, m.seq>>, <<boot, sequence + 1>>)
      BY <1>2, <1>8, <2>1 DEF OrderInvariant, Newer
    <2>3. ~Newer(newest', <<boot, sequence + 1>>)
      BY <1>2, <1>9 DEF Newer
    <2>4. boot' = bootFile' /\ boot' > 0
      BY <1>1, <1>8 DEF OrderInvariant
    <2> QED BY <1>1, <1>9, <2>2, <2>3, <2>4 DEF OrderInvariant, Newer
  <1>11. PartsInvariant'
    <2>1. Used(partial'.id) /\ (partial' = partial \/ \A n \in late : n.id # NoSnapshot => partial'.id # n.id)
      BY <1>1, <1>7, OwnPartsApart
    <2>2. \A n \in late : Completes(n)'
      BY <1>8, <2>1, CompletesStays DEF PartsInvariant
    <2>3. Used(partial.id)' /\ \A n \in late : Used(n.id)'
      BY <1>1, <1>8, <2>1 DEF PartsInvariant, Used
    <2>4. ASSUME tour.snapshot PROVE PostedSoFar'
      <3>1. \A m \in late : m.id # <<boot, snapshots>>
        BY <1>1, <1>8, <2>4 DEF PartsInvariant, PostedSoFar
      <3>2. tour'.index # 0 /\ tour'.index - 1 = tour.index
        BY <1>2, <1>3
      <3>3. tour'.left # {} => c # tour.left
        BY <1>3
      <3> QED BY <1>1, <1>3, <1>9, <2>4, <3>1, <3>2, <3>3 DEF PostedSoFar, Held
    <2> QED BY <1>1, <1>3, <1>8, <2>2, <2>3, <2>4 DEF PartsInvariant
  <1>12. TableInvariant'
    <2>1. ASSUME ~doubt, tour.left \ c # {}, NEW d \in Device, told'[d] # None
          PROVE  table'[d] = told'[d]
      <3>1. c # tour.left
        BY <2>1
      <3>2. CASE d \in c
        BY <1>1, <1>9, <3>2
      <3>3. CASE d \notin c
        <4>1. told'[d] = told[d]
          BY <1>1, <3>3
        <4>2. table'[d] = table[d]
          BY <1>9, <3>1, <3>3
        <4>3. table[d] = told[d]
          BY <1>1, <1>8, <2>1, <4>1 DEF TableInvariant
        <4> QED BY <4>1, <4>2, <4>3
      <3> QED BY <3>2, <3>3
    <2>2. ASSUME tour.snapshot \/ ~doubt, NEW d \in Held(tour.read) \ (tour.left \ c)
          PROVE  table'[d] = tour.read[d]
      <3>1. CASE d \in c \/ (tour.snapshot /\ c = tour.left)
        BY <1>9, <3>1
      <3>2. CASE d \notin c /\ ~(tour.snapshot /\ c = tour.left)
        <4>1. table'[d] = table[d] /\ d \in Held(tour.read) \ tour.left
          BY <1>2, <1>9, <2>2, <3>2
        <4> QED BY <1>1, <1>8, <2>2, <4>1 DEF TableInvariant
      <3> QED BY <3>1, <3>2
    <2>3. tour.snapshot /\ tour.left \ c = {} => table' = tour.read
      BY <1>4, <1>9
    <2> QED BY <1>1, <1>3, <2>1, <2>2, <2>3 DEF TableInvariant, Held
  <1> QED BY <1>10, <1>11, <1>12

\* A POST fails: the round ends, and with it the number of its snapshot.
LEMMA FailsKeeps ==
    ASSUME HealthInvariant, NEW c \in Chunks, SendFails(c)
    PROVE  HealthInvariant'
  <1> USE DEF deviceVars
  <1> DEFINE m == Envelope(c)
  <1>0. TypeOK /\ RoundInvariant
    BY DEF HealthInvariant
  <1>1. /\ phase = "send" /\ phase' = "idle" /\ tour.left # {} /\ sequence' = sequence + 1
        /\ result' = "failed" /\ tour' = NoTour /\ failures' = failures + 1
        /\ UNCHANGED <<config, known, health, cpc, needed, ever, told, snapshots, boot, bootFile,
                       fresh, anchored, changes, intervals, crashes, bootFaults>>
    BY DEF SendFails
  <1>2. \/ UNCHANGED <<newest, table, partial, late, doubt>>
        \/ Accept(m) /\ doubt' = TRUE /\ UNCHANGED late
        \/ late' = late \cup {m} /\ doubt' = TRUE /\ UNCHANGED <<newest, table, partial>>
    BY DEF SendFails, backendVars
  <1>3. sequence \in Nat /\ boot \in Nat /\ snapshots \in Nat
    BY <1>0 DEF TypeOK
  <1>4. /\ EnvelopeOK(m)
        /\ m.boot = boot /\ m.seq = sequence + 1
        /\ m.id = IF tour.snapshot THEN <<boot, snapshots>> ELSE NoSnapshot
        /\ m.index = tour.index /\ m.count = tour.count /\ DOMAIN m.devices = c
        /\ m.from = Held(tour.read)
    BY <1>0, <1>1, EnvelopeFields
  <1>a. Accept(m) => Accept(Envelope(c))
    OBVIOUS
  <1> HIDE DEF m
  <1>5. TypeOK'
    <2>1. tour' \in Tour /\ tour'.left \subseteq Held(tour'.read)
      BY <1>1 DEF NoTour, Tour, Signature
    <2>2. {sequence', snapshots', boot', bootFile'} \subseteq Nat
      BY <1>0, <1>1 DEF TypeOK
    <2>3. {changes', intervals', failures', crashes', bootFaults'} \subseteq Nat
      BY <1>0, <1>1 DEF TypeOK
    <2>4. /\ newest' \in Nat \X Nat /\ table' \in [Device -> Signature]
          /\ partial' \in Assembly /\ IsFiniteSet(partial'.got)
      BY <1>0, <1>2, <1>4, AcceptTypes DEF TypeOK
    <2>5. doubt' \in BOOLEAN /\ \A n \in late' : EnvelopeOK(n)
      BY <1>0, <1>2, <1>4 DEF TypeOK
    <2>6. \A n \in late' : EnvelopeOK(n)'
      BY <2>5 DEF EnvelopeOK
    <2> QED BY <1>0, <1>1, <2>1, <2>2, <2>3, <2>4, <2>5, <2>6 DEF TypeOK
  <1>6. RoundInvariant'
    BY <1>1 DEF RoundInvariant
  <1>7. SUFFICES ASSUME anchored PROVE (OrderInvariant /\ PartsInvariant /\ TableInvariant)'
    BY <1>1, <1>5, <1>6 DEF HealthInvariant
  <1>8. OrderInvariant /\ PartsInvariant /\ TableInvariant /\ newest \in Nat \X Nat
    BY <1>0, <1>7 DEF HealthInvariant, TypeOK
  <1>9. OrderInvariant'
    <2>1. newest' = newest \/ newest' = <<boot, sequence + 1>>
      <3>1. Accept(m) => newest' = <<boot, sequence + 1>>
        BY <1>1, <1>7, <1>a, OwnAccepted
      <3> QED BY <1>2, <3>1
    <2>2. ~Newer(newest', <<boot, sequence + 1>>)
      BY <1>3, <1>8, <2>1 DEF OrderInvariant, Newer
    <2>3. \A n \in late : n.boot \in Nat /\ n.seq \in Nat
      BY <1>0 DEF TypeOK, EnvelopeOK
    <2>4. \A n \in late \cup {m} : ~Newer(<<n.boot, n.seq>>, <<boot, sequence + 1>>)
      BY <1>3, <1>4, <1>8, <2>3 DEF OrderInvariant, Newer
    <2>5. late' \subseteq late \cup {m} /\ (~doubt' => UNCHANGED <<doubt, late, newest>>)
      BY <1>2
    <2> QED BY <1>1, <1>8, <2>2, <2>4, <2>5 DEF OrderInvariant, Newer
  <1>10. PartsInvariant'
    <2>1. Used(partial.id)' /\ \A n \in late' : Used(n.id)'
      <3>1. Used(partial'.id)
        BY <1>1, <1>2, <1>7, <1>8, <1>a, OwnPartsApart DEF PartsInvariant
      <3>2. Used(m.id)
        BY <1>3, <1>4, <1>8 DEF OrderInvariant, Used, NoSnapshot
      <3>3. \A n \in late' : Used(n.id)
        BY <1>2, <1>8, <3>2 DEF PartsInvariant
      <3> QED BY <1>1, <3>1, <3>3 DEF Used
    <2>2. m.id # NoSnapshot => tour.snapshot /\ PostedSoFar /\ m.id = <<boot, snapshots>>
      BY <1>1, <1>4, <1>8 DEF PartsInvariant
    <2>3. \A n \in late : n.id # NoSnapshot => n.id # m.id
      BY <2>2 DEF PostedSoFar
    <2>4. \A n, k \in late' : n.id = k.id /\ n.id # NoSnapshot => n = k
      BY <1>2, <1>8, <2>3 DEF PartsInvariant
    <2>5. \A n \in late : Completes(n)'
      <3>1. partial' = partial \/ \A n \in late : n.id # NoSnapshot => partial'.id # n.id
        BY <1>1, <1>2, <1>7, <1>a, OwnPartsApart
      <3> QED BY <1>8, <3>1, CompletesStays DEF PartsInvariant
    <2>6. Completes(m)
      <3> SUFFICES ASSUME m.id # NoSnapshot
                   PROVE  /\ m.count = 1 => m.from \subseteq DOMAIN m.devices
                          /\ partial.id = m.id /\ Cardinality(partial.got \cup {m.index}) = m.count
                               => m.from \subseteq partial.devices \cup DOMAIN m.devices
        BY DEF Completes
      <3>1. tour.snapshot /\ PostedSoFar /\ m.id = <<boot, snapshots>>
        BY <2>2
      <3>2. /\ tour.index < tour.count /\ tour.index \in Nat /\ tour.count \in Nat
            /\ tour.index + 1 = tour.count <=> tour.left = c
            /\ c \subseteq tour.left
        BY <1>0, <1>1, NextBatch DEF TypeOK, Tour
      <3>3. CASE tour.index = 0
        <4>1. tour.left = Held(tour.read) /\ partial.id # m.id
          BY <3>1, <3>3 DEF PostedSoFar
        <4> QED BY <1>4, <3>2, <3>3, <4>1
      <3>4. CASE tour.index > 0
        <4>1. /\ partial.got = 0 .. (tour.index - 1)
              /\ partial.devices = Held(tour.read) \ tour.left
          BY <1>1, <3>1, <3>4 DEF PostedSoFar
        <4>2. m.count # 1
          BY <1>4, <3>2, <3>4
        <4>3. partial.got \cup {m.index} = 0 .. tour.index
          BY <1>4, <3>2, <3>4, <4>1
        <4>4. Cardinality(0 .. tour.index) = tour.index + 1
          <5>1. 0 \in Int /\ tour.index \in Int /\ ~(0 > tour.index)
            BY <3>2
          <5> QED BY <5>1, FS_Interval
        <4> QED BY <1>4, <3>2, <4>1, <4>2, <4>3, <4>4
      <3> QED BY <3>2, <3>3, <3>4
    <2>7. ASSUME NEW n \in late' PROVE Completes(n)'
      <3>1. CASE n \in late
        BY <2>5, <3>1
      <3>2. CASE n \notin late
        <4>1. n = m /\ partial' = partial
          BY <1>2, <3>2
        <4>2. Completes(n)
          BY <2>6, <4>1
        <4> QED BY <4>1, <4>2, CompletesStays
      <3> QED BY <3>1, <3>2
    <2> QED BY <1>1, <2>1, <2>4, <2>7 DEF PartsInvariant
  <1>11. TableInvariant'
    BY <1>1, <1>2, <1>8 DEF TableInvariant
  <1> QED BY <1>9, <1>10, <1>11

\* All batches of a round were taken.
LEMMA FinishKeeps ==
    ASSUME HealthInvariant, Finish
    PROVE  HealthInvariant'
  <1> USE DEF deviceVars, backendVars, boundVars
  <1>0. TypeOK /\ RoundInvariant
    BY DEF HealthInvariant
  <1>1. /\ phase = "send" /\ tour.left = {} /\ phase' = "idle" /\ tour' = NoTour /\ told' = tour.read
        /\ IF tour.snapshot
             THEN needed' = FALSE /\ ever' = TRUE /\ result' = "snapshot" /\ doubt' = FALSE
             ELSE result' = "delta" /\ UNCHANGED <<needed, ever, doubt>>
        /\ UNCHANGED <<config, known, health, cpc, sequence, snapshots, boot, bootFile, late, newest,
                       table, partial, fresh, anchored, changes, intervals, failures, crashes, bootFaults>>
    BY DEF Finish
  <1>2. tour \in Tour /\ tour.index \in Nat
    BY <1>0 DEF TypeOK, Tour
  <1>3. TypeOK'
    <2>1. tour' \in Tour /\ tour'.left \subseteq Held(tour'.read) /\ told' \in [Device -> Signature]
      BY <1>1, <1>2 DEF NoTour, Tour, Signature
    <2>2. /\ needed' \in BOOLEAN /\ ever' \in BOOLEAN /\ doubt' \in BOOLEAN
          /\ result' \in {"snapshot", "delta"}
      BY <1>0, <1>1 DEF TypeOK
    <2> QED BY <1>0, <1>1, <2>1, <2>2 DEF TypeOK, EnvelopeOK
  <1>4. RoundInvariant'
    BY <1>0, <1>1 DEF RoundInvariant, Now
  <1>5. SUFFICES ASSUME anchored PROVE (OrderInvariant /\ PartsInvariant /\ TableInvariant)'
    BY <1>1, <1>3, <1>4 DEF HealthInvariant
  <1>6. OrderInvariant /\ PartsInvariant /\ TableInvariant
    BY <1>5 DEF HealthInvariant
  <1>7. newest = <<boot, sequence>>
    BY <1>0, <1>1, <1>2, <1>6 DEF RoundInvariant, OrderInvariant
  <1>8. OrderInvariant'
    BY <1>1, <1>6, <1>7 DEF OrderInvariant, Newer
  <1>9. PartsInvariant'
    BY <1>1, <1>6 DEF PartsInvariant, Used, Completes
  <1>10. TableInvariant'
    <2>1. CASE tour.snapshot
      <3>1. table = tour.read
        BY <1>1, <1>6, <2>1 DEF TableInvariant
      <3> QED BY <1>1, <2>1, <3>1 DEF TableInvariant
    <2>2. CASE ~tour.snapshot
      <3>1. ~doubt => \A d \in Device : tour.read[d] # None => table[d] = tour.read[d]
        BY <1>1, <1>6, <2>2 DEF TableInvariant, Held
      <3> QED BY <1>1, <2>2, <3>1 DEF TableInvariant
    <2> QED BY <2>1, <2>2
  <1> QED BY <1>8, <1>9, <1>10

\* A POST that timed out arrives.
LEMMA LateKeeps ==
    ASSUME HealthInvariant, NEW m \in late, LateArrives(m)
    PROVE  HealthInvariant'
  <1> USE DEF deviceVars, publisherVars, boundVars
  <1>0. TypeOK /\ RoundInvariant
    BY DEF HealthInvariant
  <1>1. /\ late' = late \ {m} /\ Accept(m)
        /\ UNCHANGED <<config, known, health, cpc, phase, needed, ever, told, sequence, snapshots, boot,
                       tour, bootFile, result, fresh, doubt, anchored,
                       changes, intervals, failures, crashes, bootFaults>>
    BY DEF LateArrives
  <1>2. /\ EnvelopeOK(m) /\ newest \in Nat \X Nat /\ boot \in Nat /\ sequence \in Nat
        /\ tour.index \in Nat
    BY <1>0 DEF TypeOK, Tour
  <1>3. TypeOK'
    <2>1. /\ newest' \in Nat \X Nat /\ table' \in [Device -> Signature]
          /\ partial' \in Assembly /\ IsFiniteSet(partial'.got)
      BY <1>0, <1>1, <1>2, AcceptTypes
    <2> QED BY <1>0, <1>1, <2>1 DEF TypeOK, EnvelopeOK
  <1>4. RoundInvariant'
    BY <1>0, <1>1 DEF RoundInvariant, Now
  <1>5. SUFFICES ASSUME anchored PROVE (OrderInvariant /\ PartsInvariant /\ TableInvariant)'
    BY <1>1, <1>3, <1>4 DEF HealthInvariant
  <1>6. OrderInvariant /\ PartsInvariant /\ TableInvariant
    BY <1>5 DEF HealthInvariant
  <1>7. ~doubt \/ (phase = "send" /\ tour.index > 0) => UNCHANGED <<newest, table, partial>>
    <2>1. ~doubt \/ (phase = "send" /\ tour.index > 0) => ~Newer(<<m.boot, m.seq>>, newest)
      BY <1>6 DEF OrderInvariant
    <2> QED BY <1>1, <2>1, StaleIsDropped DEF backendVars
  <1>8. phase = "send" /\ tour.snapshot /\ tour.index = 0 =>
          tour.left = Held(tour.read) /\ m.id # <<boot, snapshots>> /\ partial.id # <<boot, snapshots>>
    BY <1>6 DEF PartsInvariant, PostedSoFar
  <1>9. OrderInvariant'
    <2>1. newest' = newest \/ newest' = <<m.boot, m.seq>>
      BY <1>1 DEF Accept, backendVars
    <2>2. ~Newer(newest', <<boot, sequence>>)
      BY <1>6, <2>1 DEF OrderInvariant
    <2> QED BY <1>1, <1>6, <1>7, <2>2 DEF OrderInvariant, Newer
  <1>10. PartsInvariant'
    <2>1. partial' = partial \/ partial' = NoPartial \/ (partial' = Merged(m) /\ partial'.id = m.id)
      BY <1>1, AcceptAssembles
    <2>2. Used(NoSnapshot) /\ NoPartial.id = NoSnapshot
      BY <1>2, <1>6 DEF OrderInvariant, Used, NoSnapshot, NoPartial
    <2>3. Used(partial'.id)
      BY <1>6, <2>1, <2>2 DEF PartsInvariant
    <2>4. Used(partial.id)' /\ \A n \in late : Used(n.id)'
      BY <1>1, <1>6, <2>3 DEF PartsInvariant, Used
    <2>5. ASSUME NEW n \in late \ {m} PROVE Completes(n)'
      <3>1. partial' = partial \/ (n.id # NoSnapshot => partial'.id # n.id)
        BY <1>6, <2>1, <2>2 DEF PartsInvariant
      <3>2. Completes(n)
        BY <1>6 DEF PartsInvariant
      <3> QED BY <3>1, <3>2, CompletesStays
    <2>6. ASSUME phase = "send", tour.snapshot PROVE PostedSoFar'
      <3>1. \A n \in late' : n.id # <<boot, snapshots>>
        BY <1>1, <1>6, <2>6 DEF PartsInvariant, PostedSoFar
      <3>2. CASE tour.index > 0
        BY <1>1, <1>6, <1>7, <2>6, <3>1, <3>2 DEF PartsInvariant, PostedSoFar, Held
      <3>3. CASE tour.index = 0
        <4>1. NoSnapshot # <<boot, snapshots>>
          BY <1>6 DEF OrderInvariant, NoSnapshot
        <4>2. partial'.id # <<boot, snapshots>>
          BY <1>8, <2>1, <2>2, <2>6, <3>3, <4>1
        <4> QED BY <1>1, <1>8, <2>6, <3>1, <3>3, <4>2 DEF PostedSoFar, Held
      <3> QED BY <1>2, <3>2, <3>3
    <2>7. \A n, k \in late' : n.id = k.id /\ n.id # NoSnapshot => n = k
      BY <1>1, <1>6 DEF PartsInvariant
    <2> QED BY <1>1, <2>4, <2>5, <2>6, <2>7 DEF PartsInvariant
  <1>11. TableInvariant'
    <2>1. CASE ~doubt \/ (phase = "send" /\ tour.index > 0)
      BY <1>1, <1>6, <1>7, <2>1 DEF TableInvariant, Held
    <2>2. CASE doubt /\ ~(phase = "send" /\ tour.index > 0)
      <3>1. phase = "send" /\ tour.snapshot => tour.left = Held(tour.read) /\ tour.left # {}
        BY <1>0, <1>2, <1>8, <2>2 DEF RoundInvariant
      <3>2. ~(phase = "idle" /\ result = "snapshot")
        BY <1>6, <2>2 DEF TableInvariant
      <3> QED BY <1>1, <2>2, <3>1, <3>2 DEF TableInvariant, Held
    <2> QED BY <2>1, <2>2
  <1> QED BY <1>9, <1>10, <1>11

\* A new process has a larger boot id than all before, if its counter is intact.
LEMMA RestartKeeps ==
    ASSUME HealthInvariant, Restart
    PROVE  HealthInvariant'
  <1> USE DEF backendVars
  <1>0. TypeOK
    BY DEF HealthInvariant
  <1>1. /\ known' = {} /\ cpc' = "idle" /\ phase' = "idle" /\ needed' = TRUE /\ ever' = FALSE
        /\ told' = [d \in Device |-> None] /\ sequence' = 0 /\ snapshots' = 0 /\ tour' = NoTour
        /\ result' = "none" /\ fresh' = FALSE /\ crashes' = crashes + 1
        /\ UNCHANGED <<config, health, late, newest, table, partial, doubt, changes, intervals, failures>>
    BY DEF Restart
  <1>2. /\ boot' \in Nat /\ bootFile' \in Nat /\ bootFaults' \in Nat /\ anchored' \in BOOLEAN
        /\ anchored' => anchored /\ boot' = bootFile + 1 /\ bootFile' = boot'
    <2>1. bootFile \in Nat /\ bootFaults \in Nat /\ bootFile + 1 \in Nat /\ 0 + 1 \in Nat
      BY <1>0 DEF TypeOK
    <2>2. anchored \in BOOLEAN
      BY <1>0 DEF TypeOK
    <2>3. CASE boot' = NextBoot(bootFile) /\ bootFile' = boot' /\ UNCHANGED <<anchored, bootFaults>>
      BY <2>1, <2>2, <2>3 DEF NextBoot
    <2>4. ASSUME NEW unread \in BOOLEAN, NEW unwritten \in BOOLEAN, BootFails(unread, unwritten)
          PROVE  /\ boot' \in Nat /\ bootFile' \in Nat /\ bootFaults' \in Nat /\ anchored' = FALSE
      <3>1. boot' = bootFile + 1 \/ boot' = 0 + 1
        BY <2>4 DEF BootFails, NextBoot
      <3>2. bootFile' = bootFile \/ bootFile' = boot'
        BY <2>4 DEF BootFails
      <3>3. bootFaults' = bootFaults + 1 /\ anchored' = FALSE
        BY <2>4 DEF BootFails
      <3> QED BY <2>1, <3>1, <3>2, <3>3
    <2>5. CASE BootFails(TRUE, FALSE) \/ BootFails(FALSE, TRUE) \/ BootFails(TRUE, TRUE)
      BY <2>4, <2>5
    <2> QED BY <2>3, <2>5 DEF Restart
  <1>3. TypeOK'
    <2>1. tour' \in Tour /\ tour'.left \subseteq Held(tour'.read) /\ told' \in [Device -> Signature]
      BY <1>1 DEF NoTour, Tour, Signature
    <2>2. {sequence', snapshots', boot', bootFile'} \subseteq Nat
      BY <1>1, <1>2
    <2>3. {changes', intervals', failures', crashes', bootFaults'} \subseteq Nat
      BY <1>0, <1>1, <1>2 DEF TypeOK
    <2> QED BY <1>0, <1>1, <1>2, <2>1, <2>2, <2>3 DEF TypeOK, EnvelopeOK
  <1>4. RoundInvariant'
    BY <1>1 DEF RoundInvariant
  <1>5. SUFFICES ASSUME anchored' PROVE (OrderInvariant /\ PartsInvariant /\ TableInvariant)'
    BY <1>3, <1>4 DEF HealthInvariant
  <1>6. OrderInvariant /\ PartsInvariant /\ TableInvariant /\ anchored
    BY <1>2, <1>5 DEF HealthInvariant
  <1>7. boot \in Nat /\ boot' = boot + 1 /\ bootFile' = boot' /\ newest \in Nat \X Nat
    BY <1>0, <1>2, <1>5, <1>6 DEF TypeOK, OrderInvariant
  <1>8. OrderInvariant'
    <2>1. \A m \in late : m.boot \in Nat /\ m.seq \in Nat
      BY <1>0 DEF TypeOK, EnvelopeOK
    <2>2. ~Newer(newest, <<boot + 1, 0>>) /\ \A m \in late : ~Newer(<<m.boot, m.seq>>, <<boot + 1, 0>>)
      BY <1>6, <1>7, <2>1 DEF OrderInvariant, Newer
    <2> QED BY <1>1, <1>6, <1>7, <2>2 DEF OrderInvariant, Newer
  <1>9. PartsInvariant'
    <2>1. \A id \in Nat \X Nat : Used(id) => Used(id)'
      BY <1>1, <1>7 DEF Used
    <2>2. partial.id \in Nat \X Nat /\ \A m \in late : m.id \in Nat \X Nat
      BY <1>0 DEF TypeOK, Assembly, EnvelopeOK
    <2>3. Used(partial.id)' /\ \A m \in late : Used(m.id)'
      BY <1>1, <1>6, <2>1, <2>2 DEF PartsInvariant, Used
    <2> QED BY <1>1, <1>6, <2>3 DEF PartsInvariant, Completes
  <1>10. TableInvariant'
    BY <1>1 DEF TableInvariant
  <1> QED BY <1>8, <1>9, <1>10

LEMMA NextKeepsHealth ==
    ASSUME HealthInvariant, [Next]_vars
    PROVE  HealthInvariant'
  BY DeviceSteps, ReadKeeps, DecideKeeps, TakenKeeps, FailsKeeps, FinishKeeps, LateKeeps, RestartKeeps
     DEF Next

-----------------------------------------------------------------------------
(* The theorems                                                            *)

\* The gateway's devices, the publisher, the backend and what is on its way
\* between them are well-typed (_tur, build_envelope).
THEOREM TypeCorrect == Spec => []TypeOK
  <1>1. HealthInvariant => TypeOK
    BY DEF HealthInvariant
  <1> QED BY <1>1, InitHealth, NextKeepsHealth, PTL DEF Spec

\* The inductive invariant: rounds, the order of POSTs, the parts of snapshots
\* and the backend's table.
THEOREM HealthInvariantHolds == Spec => []HealthInvariant
  BY InitHealth, NextKeepsHealth, PTL DEF Spec

\* What the publisher counts as told is what the backend has, unless the answer
\* of a POST was lost since the last snapshot (_gonderilen).
THEOREM ToldWasTaken == Spec => []ToldIsHeld
  <1>1. HealthInvariant => ToldIsHeld
    BY DEF HealthInvariant, TableInvariant, ToldIsHeld
  <1> QED BY <1>1, HealthInvariantHolds, PTL

\* A round that succeeded leaves the backend's table right, a snapshot whatever
\* happened before, a delta unless the answer of a POST was lost (_tur).
THEOREM TourTellsTheTruth == Spec => []CurrentAfterTour
  <1>1. HealthInvariant => CurrentAfterTour
    <2> SUFFICES ASSUME HealthInvariant, phase = "idle", fresh, anchored PROVE
           /\ result = "snapshot" => \A d \in Device :
                table[d] = IF d \in known THEN health[d] ELSE None
           /\ result \in {"delta", "nothing"} /\ ~doubt => \A d \in known : table[d] = health[d]
      BY DEF CurrentAfterTour
    <2>1. RoundInvariant /\ TableInvariant /\ TypeOK
      BY DEF HealthInvariant
    <2>2. result \in {"nothing", "delta", "snapshot"} => told = Now
      BY <2>1 DEF RoundInvariant
    <2>3. CASE result = "snapshot"
      BY <2>1, <2>2, <2>3 DEF TableInvariant, Now
    <2>4. CASE result \in {"delta", "nothing"} /\ ~doubt
      <3> SUFFICES ASSUME NEW d \in known PROVE table[d] = health[d]
        BY <2>4
      <3>1. d \in Device /\ health[d] \in Value /\ health[d] # None
        BY <2>1, HealthAssumption DEF TypeOK
      <3>2. told[d] = health[d]
        BY <2>2, <2>4, <3>1 DEF Now
      <3> QED BY <2>1, <2>4, <3>1, <3>2 DEF TableInvariant
    <2> QED BY <2>3, <2>4
  <1> QED BY <1>1, HealthInvariantHolds, PTL

\* A device leaves the backend's table only through a snapshot that did not find
\* it: parts of two snapshots never make a whole, whatever arrives late
\* (build_envelope, next_boot_id).
THEOREM PartsStayApart == Spec => OnlyUnreadRemoved
  <1> DEFINE Removal ==
        \A d \in Device : anchored /\ table[d] # None /\ table'[d] = None =>
          \/ tour.read[d] = None /\ phase = "send"
          \/ \E m \in late \ late' : d \notin m.from
  <1>1. HealthInvariant /\ [Next]_vars => [Removal]_vars
    <2> SUFFICES ASSUME HealthInvariant, Next, NEW d \in Device,
                        anchored, table[d] # None, table'[d] = None
                 PROVE  \/ tour.read[d] = None /\ phase = "send"
                        \/ \E m \in late \ late' : d \notin m.from
      OBVIOUS
    <2>0. TypeOK /\ RoundInvariant /\ PartsInvariant
      BY DEF HealthInvariant
    <2>1. ASSUME NEW c \in Chunks, phase = "send", tour.left # {}, Accept(Envelope(c))
          PROVE  tour.read[d] = None
      <3>1. d \in c => table'[d] = tour.read[d]
        BY <2>1, OwnAccepted
      <3>2. tour.snapshot /\ c = tour.left => table' = tour.read
        BY <2>1, OwnAccepted
      <3>3. ~(tour.snapshot /\ c = tour.left) /\ d \notin c => table'[d] = table[d]
        BY <2>1, OwnAccepted
      <3> QED BY <3>1, <3>2, <3>3
    <2>2. ASSUME NEW c \in Chunks, SendTaken(c) \/ SendFails(c)
          PROVE  tour.read[d] = None /\ phase = "send"
      <3>1. phase = "send" /\ tour.left # {} /\ (Accept(Envelope(c)) \/ table' = table)
        BY <2>2 DEF SendTaken, SendFails, backendVars
      <3> QED BY <2>1, <3>1
    <2>3. ASSUME NEW m \in late, LateArrives(m)
          PROVE  m \in late \ late' /\ d \notin m.from
      <3>1. late' = late \ {m} /\ Accept(m) /\ EnvelopeOK(m) /\ Completes(m)
        BY <2>0, <2>3 DEF LateArrives, TypeOK, PartsInvariant
      <3>2. table'[d] = IF d \in DOMAIN m.devices THEN m.devices[d]
                        ELSE IF Whole(m) /\ d \notin Merged(m).devices THEN None ELSE table[d]
        BY <3>1 DEF Accept, backendVars
      <3>3. d \notin DOMAIN m.devices /\ Whole(m) /\ d \notin Merged(m).devices
        BY <3>1, <3>2, HealthAssumption DEF EnvelopeOK
      <3>4. m.id # NoSnapshot /\ Cardinality(Merged(m).got) = m.count
        BY <3>3 DEF Whole
      <3>5. CASE partial.id = m.id
        <4>1. /\ Merged(m).got = partial.got \cup {m.index}
              /\ Merged(m).devices = partial.devices \cup DOMAIN m.devices
          BY <3>5 DEF Merged
        <4> QED BY <3>1, <3>3, <3>4, <3>5, <4>1 DEF Completes
      <3>6. CASE partial.id # m.id
        <4>1. Merged(m).got = {m.index}
          BY <3>6 DEF Merged, NoPartial
        <4>2. m.count = 1
          BY <3>4, <4>1, FS_Singleton
        <4> QED BY <3>1, <3>3, <3>4, <4>2 DEF Completes
      <3> QED BY <3>1, <3>5, <3>6
    <2>4. table' # table
      OBVIOUS
    <2>5. ~(ReadSource \/ (\E due \in BOOLEAN : Decide(due)) \/ Finish \/ Restart
            \/ RequestSnapshot \/ ForgetDevices
            \/ (\E e \in Device : Discover(e) \/ \E v \in Value : StateChanges(e, v))
            \/ (\E S \in SUBSET Device : Reconfigure(S)))
      BY <2>4 DEF ReadSource, Decide, Finish, Restart, RequestSnapshot, ForgetDevices, Discover,
                  StateChanges, Reconfigure, backendVars
    <2> QED BY <2>2, <2>3, <2>5 DEF Next
  <1> QED BY <1>1, HealthInvariantHolds, PTL DEF Spec, OnlyUnreadRemoved

=============================================================================
