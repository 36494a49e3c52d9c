------------------------- MODULE ReplicaNodeProofs -------------------------
(***************************************************************************)
(* Machine-checked theorems about ReplicaNode, for any IDs, log length,    *)
(* size of a Ready, snapshot interval and number of crashes.               *)
(***************************************************************************)
EXTENDS ReplicaNodeInv, TLAPS

-----------------------------------------------------------------------------
(* Operators.                                                              *)

LEMMA GreaterFacts ==
    ASSUME NEW a \in Nat, NEW b \in Nat
    PROVE  /\ Greater(a, b) \in {a, b} /\ a <= Greater(a, b) /\ b <= Greater(a, b)
           /\ Greater(a, b) \in Nat
BY DEF Greater

LEMMA EntryTyped ==
    ASSUME NEW e \in Entries
    PROVE  /\ e.kind \in {"data", "conf"} /\ Protocol(e) \in 1..4
           /\ e.kind = "conf" =>
                e.action \in {"add_learner", "promote", "remove"} /\ e.id \in Ids /\ e.expected \in ConfType
<1>1. CASE e \in [kind : {"data"}, protocol : Protocols]
  <2>1. e.kind = "data" /\ e.protocol \in Protocols
    BY <1>1
  <2>2. QED
    BY <2>1, ReplicaAssumption DEF Protocol
<1>2. CASE e \in [kind : {"conf"}, action : {"add_learner", "promote", "remove"}, id : Ids, expected : ConfType]
  <2>1. /\ e.kind = "conf" /\ e.action \in {"add_learner", "promote", "remove"}
        /\ e.id \in Ids /\ e.expected \in ConfType
    BY <1>2
  <2>2. QED
    BY <2>1 DEF Protocol
<1>3. QED
    BY <1>1, <1>2 DEF Entries

\* A nonempty set of protocols has a greatest one.
LEMMA GreatestTyped ==
    ASSUME NEW S \in SUBSET (1..4), S # {}
    PROVE  Greatest(S) \in 1..4
<1>1. \E p \in S : \A q \in S : q <= p
  <2>1. CASE 4 \in S
    BY <2>1
  <2>2. CASE 4 \notin S /\ 3 \in S
    BY <2>2
  <2>3. CASE 4 \notin S /\ 3 \notin S /\ 2 \in S
    BY <2>3
  <2>4. CASE 4 \notin S /\ 3 \notin S /\ 2 \notin S
    <3>1. PICK p \in S : TRUE
      OBVIOUS
    <3>2. \A q \in S : q = 1
      BY <2>4
    <3>3. QED
      BY <3>1, <3>2
  <2>5. QED
    BY <2>1, <2>2, <2>3, <2>4
<1>2. QED
    BY <1>1 DEF Greatest

LEMMA ConfTyped ==
    ASSUME NEW e \in Entries, NEW c \in ConfType, NEW R \in SUBSET Ids
    PROVE  nextConf(e, c, R) \in ConfType /\ nextGone(e, c, R) \in SUBSET Ids
<1>1. CASE e.kind = "conf" /\ accepts(e, c, R)
  <2>1. e.id \in Ids /\ e.action \in {"add_learner", "promote", "remove"}
    BY <1>1, EntryTyped
  <2>2. changedConf(e, c) \in ConfType
    BY <2>1 DEF changedConf, ConfType
  <2>3. QED
    BY <1>1, <2>1, <2>2 DEF nextConf, nextGone
<1>2. CASE ~ (e.kind = "conf" /\ accepts(e, c, R))
    BY <1>2 DEF nextConf, nextGone
<1>3. QED
    BY <1>1, <1>2

\* Only an addition asks whether its ID was removed.
LEMMA AcceptsSame ==
    ASSUME NEW e \in Entries, NEW c, NEW R, NEW Q, e.kind = "conf",
           e.action = "add_learner" => (e.id \in R <=> e.id \in Q)
    PROVE  accepts(e, c, R) <=> accepts(e, c, Q)
<1>1. e.action \in {"add_learner", "promote", "remove"}
    BY EntryTyped
<1>2. CASE e.action = "add_learner"
    BY <1>2 DEF accepts
<1>3. CASE e.action = "promote"
    BY <1>3 DEF accepts
<1>4. CASE e.action = "remove"
    BY <1>4 DEF accepts
<1>5. QED
    BY <1>1, <1>2, <1>3, <1>4

\* Positions are numbers.
Numbers ==
    /\ MaxLog \in Nat /\ MaxReady \in Nat \ {0} /\ Len(log) \in Nat
    /\ commit \in 0..MaxLog /\ confIndex \in 0..MaxLog /\ applied \in 0..MaxLog
    /\ delivered \in 0..MaxLog /\ snapshotIndex \in 0..MaxLog /\ probe \in 0..MaxLog
    /\ configurationIndex \in 0..MaxLog

LEMMA Scalars == TypeOK => Numbers
<1> SUFFICES ASSUME TypeOK PROVE Numbers
    OBVIOUS
<1>1. MaxLog \in Nat /\ MaxReady \in Nat \ {0}
    BY ReplicaAssumption
<1>2. Len(log) \in Nat
    BY DEF TypeOK, GroupTyped
<1>3. QED
    BY <1>1, <1>2 DEF Numbers, TypeOK, DiskTyped, RunTyped, ApplyTyped

\* The fields of the records.
LEMMA ReadyFields ==
    TypeOK => ready.at \in 0..MaxLog + 1 /\ ready.last \in 0..MaxLog /\ ready.changed \in BOOLEAN
BY DEF TypeOK, RunTyped

LEMMA LocalFields == TypeOK => local.conf \in ConfType /\ local.index \in 0..MaxLog
BY DEF TypeOK, RunTyped

LEMMA PendingFields ==
    TypeOK => /\ pending.first \in 0..MaxLog /\ pending.last \in 0..MaxLog /\ pending.snapshot \in 0..MaxLog
              /\ pending.read \in 0..MaxLog /\ pending.conf \in ConfType /\ pending.changed \in BOOLEAN
BY DEF TypeOK, RunTyped, BatchType

LEMMA BatchFields ==
    TypeOK => /\ batch.first \in 0..MaxLog /\ batch.last \in 0..MaxLog /\ batch.snapshot \in 0..MaxLog
              /\ batch.read \in 0..MaxLog /\ batch.conf \in ConfType /\ batch.changed \in BOOLEAN
BY DEF TypeOK, ApplyTyped, BatchType

LEMMA SnapFields ==
    TypeOK => /\ snap.index \in 0..MaxLog /\ snap.conf \in ConfType /\ snap.retired \in SUBSET Ids
              /\ snap.protocol \in 1..4
BY DEF TypeOK, DiskTyped, SnapshotType

LEMMA BuildingFields ==
    TypeOK => /\ building.index \in 0..MaxLog /\ building.conf \in ConfType
              /\ building.retired \in SUBSET Ids /\ building.protocol \in 1..4
BY DEF TypeOK, ApplyTyped, SnapshotType

\* The empty values.
LEMMA Empties == NoBatch \in BatchType /\ NoSnapshot \in SnapshotType /\ NoConf \in ConfType
BY ReplicaAssumption DEF NoBatch, NoConf, ConfType, BatchType, NoSnapshot, SnapshotType

\* The entries and what the group knows at each position.
LEMMA GroupElements ==
    ASSUME TypeOK
    PROVE  /\ Len(log) \in Nat /\ \A j \in 1..Len(log) : log[j] \in Entries
           /\ \A j \in 1..Len(log) + 1 : confs[j] \in ConfType /\ gone[j] \in SUBSET Ids
BY DEF TypeOK, GroupTyped

LEMMA SnapshotTyped ==
    ASSUME TypeOK, NEW i \in 0..MaxLog, i <= Len(log)
    PROVE  snapshotAt(i) \in SnapshotType /\ protocolAt(i) \in 1..4
<1>1. protocolAt(i) \in 1..4
  <2>1. \A j \in 1..i : Protocol(log[j]) \in 1..4
    BY EntryTyped, GroupElements, ReplicaAssumption
  <2>2. {1} \cup {Protocol(log[j]) : j \in 1..i} \in SUBSET (1..4)
    BY <2>1
  <2>3. QED
    BY <2>2, GreatestTyped DEF protocolAt
<1>2. confs[i + 1] \in ConfType /\ gone[i + 1] \in SUBSET Ids
    BY GroupElements, ReplicaAssumption
<1>3. QED
    BY <1>1, <1>2 DEF snapshotAt, SnapshotType

LEMMA CaptureTyped ==
    ASSUME TypeOK
    PROVE  capture \in SnapshotType /\ capture.index = applied /\ capture.conf = lastConf
           /\ capture.retired = retiredBy(applied)
<1>1. lastConf \in ConfType /\ minimum \in 1..4 /\ applied \in 0..MaxLog
    BY DEF TypeOK, ApplyTyped, DiskTyped
<1>2. retiredBy(applied) \in SUBSET Ids
    BY DEF retiredBy
<1>3. QED
    BY <1>1, <1>2 DEF capture, buildConf, SnapshotType

\* A build in progress goes on, ends, or is a capture of this moment.
LEMMA BuildCases ==
    ASSUME NEW c, NEW i, NEW g, NEW r
    PROVE  nextBuild(c, i, g, r) \in {c, capture}
BY DEF nextBuild

LEMMA RetiredTyped ==
    ASSUME TypeOK, NEW ids \in SUBSET Ids, NEW n \in 0..MaxLog
    PROVE  /\ persistRetired(ids, n) \in [Ids -> 0..MaxLog]
           /\ \A i \in Ids : persistRetired(ids, n)[i] = IF i \in ids /\ retired[i] = 0 THEN n ELSE retired[i]
BY DEF TypeOK, DiskTyped, persistRetired

-----------------------------------------------------------------------------
(* Type correctness.                                                       *)

LEMMA TypeInit == Init => TypeOK
<1> SUFFICES ASSUME Init PROVE TypeOK
    OBVIOUS
<1>1. [voters |-> Founders, learners |-> {}] \in ConfType
    BY ReplicaAssumption DEF ConfType
<1>2. GroupTyped /\ conf \in ConfType
    BY <1>1 DEF Init, GroupTyped
<1>3. DiskTyped
    BY <1>2, Empties, ReplicaAssumption DEF Init, DiskTyped
<1>4. RunTyped
    BY <1>2, Empties, ReplicaAssumption DEF Init, RunTyped
<1>5. ApplyTyped /\ FaultsTyped
  <2>1. failed \in BOOLEAN
    BY DEF Init
  <2>2. QED
    BY <1>2, <2>1, Empties, ReplicaAssumption DEF Init, ApplyTyped, FaultsTyped
<1>6. QED
    BY <1>2, <1>3, <1>4, <1>5 DEF TypeOK

LEMMA TypeExtend ==
    ASSUME TypeOK, NEW e \in Entries, Extend(e)
    PROVE  TypeOK'
<1>1. Len(log) + 1 \in 1..Len(confs) /\ Len(log) + 1 \in 1..Len(gone) /\ Len(log) \in Nat
    BY DEF TypeOK, GroupTyped
<1>2. confs[Len(log) + 1] \in ConfType /\ gone[Len(log) + 1] \in SUBSET Ids
    BY <1>1 DEF TypeOK, GroupTyped
<1> DEFINE c == nextConf(e, confs[Len(log) + 1], gone[Len(log) + 1])
           g == nextGone(e, confs[Len(log) + 1], gone[Len(log) + 1])
<1>3. c \in ConfType /\ g \in SUBSET Ids
    BY <1>2, ConfTyped
<1>4. log' = Append(log, e) /\ confs' = Append(confs, c) /\ gone' = Append(gone, g)
    BY DEF Extend
<1> HIDE DEF c, g
<1>5. GroupTyped'
    BY <1>3, <1>4 DEF TypeOK, GroupTyped
<1>6. UNCHANGED <<disk, runLoop, applyLoop, faults>>
    BY DEF Extend
<1>7. QED
    BY <1>5, <1>6 DEF TypeOK, DiskTyped, RunTyped, ApplyTyped, FaultsTyped, disk, membership, runLoop,
       applyLoop, snapshots, faults

LEMMA ExtendEntries ==
    ASSUME TypeOK
    PROVE  /\ \A p \in Protocols : Propose(p) => \E e \in Entries : Extend(e)
           /\ \A action \in {"add_learner", "promote", "remove"}, id \in Ids, i \in 1..MaxLog + 1 :
                ChangeMember(action, id, i) => \E e \in Entries : Extend(e)
<1>1. ASSUME NEW p \in Protocols, Propose(p) PROVE \E e \in Entries : Extend(e)
  <2>1. [kind |-> "data", protocol |-> p] \in Entries
    BY DEF Entries
  <2>2. QED
    BY <1>1, <2>1 DEF Propose
<1>2. ASSUME NEW action \in {"add_learner", "promote", "remove"}, NEW id \in Ids, NEW i \in 1..MaxLog + 1,
             ChangeMember(action, id, i)
      PROVE  \E e \in Entries : Extend(e)
  <2>1. confs[i] \in ConfType
    BY <1>2 DEF ChangeMember, TypeOK, GroupTyped
  <2>2. [kind |-> "conf", action |-> action, id |-> id, expected |-> confs[i]] \in Entries
    BY <2>1 DEF Entries
  <2>3. QED
    BY <1>2, <2>2 DEF ChangeMember
<1>3. QED
    BY <1>1, <1>2

LEMMA TypeRun ==
    ASSUME TypeOK, GroupInv, PositionInv, RunLoop
    PROVE  TypeOK'
<1>num. Numbers
    BY Scalars
<1> USE <1>num DEF Numbers
<1>1. ASSUME NEW n \in 1..MaxLog, SaveReady(n) PROVE TypeOK'
  <2>1. minimum' \in 1..4
    <3>0. n <= Len(log)
      BY <1>1 DEF SaveReady
    <3>1. \A i \in commit + 1 .. n : Protocol(log[i]) \in 1..4
      BY <3>0, EntryTyped, GroupElements
    <3>2. {minimum} \cup {Protocol(log[i]) : i \in commit + 1 .. n} \in SUBSET (1..4)
      BY <3>1 DEF TypeOK, DiskTyped
    <3>3. QED
      BY <1>1, <3>2, GreatestTyped DEF SaveReady, savedProtocol
  <2>2. commit' \in 0..MaxLog
    BY <1>1 DEF SaveReady, Greater
  <2>3. conf \in ConfType
    BY DEF TypeOK, DiskTyped
  <2>4. /\ ready' \in [at : 0..MaxLog + 1, last : 0..MaxLog, changed : BOOLEAN]
        /\ local' \in [conf : ConfType, index : 0..MaxLog] /\ phase' = "ready"
    BY <1>1, <2>3 DEF SaveReady
  <2>5. UNCHANGED <<group, membership, snap, applied, delivered, pending, applyLoop, faults>>
    BY <1>1 DEF SaveReady
  <2>6. GroupTyped' /\ ApplyTyped' /\ FaultsTyped'
    BY <2>5 DEF TypeOK, GroupTyped, ApplyTyped, FaultsTyped, group, applyLoop, snapshots, faults
  <2>7. DiskTyped' /\ RunTyped'
    BY <2>1, <2>2, <2>4, <2>5 DEF TypeOK, DiskTyped, RunTyped, membership
  <2>8. QED
    BY <2>6, <2>7 DEF TypeOK
<1>2. CASE ApplyMembership
  <2>0. phase = "ready" /\ ready.at <= ready.last
    BY <1>2 DEF ApplyMembership
  <2>1. ready.at \in 1..Len(log) /\ ready.at \in 0..MaxLog
    BY <2>0, ReadyFields DEF PositionInv, ReadyPositions, DiskPositions, GroupInv
  <2> DEFINE e == log[ready.at]
  <2>2. e \in Entries /\ removedIds \in SUBSET Ids /\ local.conf \in ConfType
    BY <2>1, GroupElements DEF removedIds, TypeOK, RunTyped
  <2>3. nextConf(e, local.conf, removedIds) \in ConfType
    BY <2>2, ConfTyped
  <2>4. local' \in [conf : ConfType, index : 0..MaxLog]
    <3>1. local' = local \/ local' = [conf |-> nextConf(e, local.conf, removedIds), index |-> ready.at]
      BY <1>2 DEF ApplyMembership
    <3> HIDE DEF e
    <3>2. QED
      BY <2>1, <2>3, <3>1 DEF TypeOK, RunTyped
  <2>5. retired' \in [Ids -> 0..MaxLog]
    <3>1. e.kind = "conf" => e.id \in Ids
      BY <2>2, EntryTyped
    <3>2. retired' = retired \/ (e.kind = "conf" /\ retired' = persistRetired({e.id}, ready.at))
      BY <1>2, <2>2, EntryTyped DEF ApplyMembership
    <3> HIDE DEF e
    <3>3. e.kind = "conf" => persistRetired({e.id}, ready.at) \in [Ids -> 0..MaxLog]
      BY <2>1, <3>1, RetiredTyped
    <3>4. QED
      BY <3>2, <3>3 DEF TypeOK, DiskTyped
  <2>6. ready' \in [at : 0..MaxLog + 1, last : 0..MaxLog, changed : BOOLEAN]
    <3>1. ready' = [ready EXCEPT !.at = ready.at + 1, !.changed = ready.changed \/ e.kind = "conf"]
      BY <1>2 DEF ApplyMembership, TypeOK, RunTyped
    <3> DEFINE b == (ready.changed \/ e.kind = "conf")
    <3>2. b \in BOOLEAN
      OBVIOUS
    <3> HIDE DEF b
    <3>3. ready' = [ready EXCEPT !.at = ready.at + 1, !.changed = b]
      BY <3>1 DEF b
    <3>4. ready.at + 1 \in 0..MaxLog + 1
      BY <2>1
    <3>5. QED
      BY <3>2, <3>3, <3>4 DEF TypeOK, RunTyped
  <2>7. UNCHANGED <<group, commit, conf, confIndex, snap, minimum, applied, phase, delivered, pending,
                    applyLoop, faults>>
    BY <1>2 DEF ApplyMembership
  <2>8. GroupTyped' /\ ApplyTyped' /\ FaultsTyped'
    BY <2>7 DEF TypeOK, GroupTyped, ApplyTyped, FaultsTyped, group, applyLoop, snapshots, faults
  <2>9. DiskTyped' /\ RunTyped'
    BY <2>4, <2>5, <2>6, <2>7 DEF TypeOK, DiskTyped, RunTyped
  <2>10. QED
    BY <2>8, <2>9 DEF TypeOK
<1>3. CASE FinishReady
  <2>0. phase = "ready" /\ ready.at > ready.last
    BY <1>3 DEF FinishReady
  <2>1. mergedFirst \in 0..MaxLog
    BY <2>0, ReadyFields, PendingFields DEF mergedFirst, PositionInv, ReadyPositions
  <2> DEFINE b == (pending.changed \/ ready.changed)
  <2>2. b \in BOOLEAN
    OBVIOUS
  <2>3. pending' = [pending EXCEPT !.first = mergedFirst, !.last = ready.last, !.conf = local.conf, !.changed = b]
    BY <1>3 DEF FinishReady, TypeOK, RunTyped, BatchType
  <2> HIDE DEF b
  <2>4. pending' \in BatchType
    BY <2>1, <2>2, <2>3 DEF TypeOK, RunTyped, BatchType
  <2>5. conf' \in ConfType /\ confIndex' \in 0..MaxLog /\ delivered' \in 0..MaxLog /\ phase' = "select"
    BY <1>3 DEF FinishReady, TypeOK, RunTyped
  <2>6. UNCHANGED <<group, commit, retired, snap, minimum, applied, ready, local, applyLoop, faults>>
    BY <1>3 DEF FinishReady
  <2>7. GroupTyped' /\ ApplyTyped' /\ FaultsTyped'
    BY <2>6 DEF TypeOK, GroupTyped, ApplyTyped, FaultsTyped, group, applyLoop, snapshots, faults
  <2>8. DiskTyped' /\ RunTyped'
    BY <2>4, <2>5, <2>6 DEF TypeOK, DiskTyped, RunTyped
  <2>9. QED
    BY <2>7, <2>8 DEF TypeOK
<1>4. CASE HandOver
  <2>1. pending' \in BatchType /\ batch' \in BatchType /\ lastConf' \in ConfType
    BY <1>4, Empties, PendingFields DEF HandOver, TypeOK, RunTyped
  <2>2. UNCHANGED <<group, disk, phase, delivered, ready, local, configurationIndex, snapshots, faults>>
    BY <1>4 DEF HandOver
  <2>3. GroupTyped' /\ DiskTyped' /\ FaultsTyped'
    BY <2>2 DEF TypeOK, GroupTyped, DiskTyped, FaultsTyped, group, disk, membership, faults
  <2>4. RunTyped' /\ ApplyTyped'
    BY <2>1, <2>2 DEF TypeOK, RunTyped, ApplyTyped, snapshots
  <2>5. QED
    BY <2>3, <2>4 DEF TypeOK
<1>5. QED
    BY <1>1, <1>2, <1>3, <1>4 DEF RunLoop

LEMMA TypeApply ==
    ASSUME TypeOK, ApplyLoop
    PROVE  TypeOK'
<1>num. Numbers
    BY Scalars
<1> USE <1>num DEF Numbers
<1> USE DEF group, disk, membership, runLoop, snapshots, applyLoop, faults
<1>0. minimum \in 1..4 /\ building.protocol \in 1..4
    BY DEF TypeOK, ApplyTyped, DiskTyped, SnapshotType
<1>1. GroupTyped' /\ RunTyped' /\ FaultsTyped'
  <2>1. UNCHANGED <<group, runLoop, faults>>
    BY DEF ApplyLoop, RestoreSnapshot, ApplyEntry, EndBatch, SaveSnapshot, RetrySnapshot, ReadEntries
  <2>2. QED
    BY <2>1 DEF TypeOK, GroupTyped, RunTyped, FaultsTyped
<1>2. DiskTyped' /\ ApplyTyped'
  <2>1. CASE RestoreSnapshot
    <3>1. applied' \in 0..MaxLog /\ snapshotIndex' \in 0..MaxLog /\ probe' \in 0..MaxLog
      BY <2>1, BatchFields DEF RestoreSnapshot, probeAfter
    <3>2. failed' \in BOOLEAN /\ UNCHANGED <<commit, membership, snap, minimum, batch, lastConf, configurationIndex, building>>
      BY <2>1 DEF RestoreSnapshot
    <3>3. QED
      BY <3>1, <3>2 DEF TypeOK, DiskTyped, ApplyTyped
  <2>2. CASE ApplyEntry
    <3>1. applied' \in 0..MaxLog
      BY <2>2, BatchFields DEF ApplyEntry, Current, Greater
    <3>2. QED
      BY <2>2, <3>1 DEF ApplyEntry, TypeOK, DiskTyped, ApplyTyped
  <2>3. CASE EndBatch
    <3>1. building' \in SnapshotType
      BY <2>3, BuildCases, CaptureTyped DEF EndBatch, TypeOK, ApplyTyped
    <3>2. configurationIndex' \in 0..MaxLog
      BY <2>3, BatchFields DEF EndBatch
    <3>3. QED
      BY <2>3, <3>1, <3>2, Empties DEF EndBatch, TypeOK, DiskTyped, ApplyTyped
  <2>4. CASE SaveSnapshot
    <3>1. building' \in SnapshotType
      BY <2>4, BuildCases, CaptureTyped, Empties DEF SaveSnapshot
    <3>2. snap' \in SnapshotType /\ minimum' \in 1..4
      BY <1>0, <2>4 DEF SaveSnapshot, protocolSaved, TypeOK, DiskTyped, ApplyTyped
    <3>3. snapshotIndex' \in 0..MaxLog /\ probe' \in 0..MaxLog
      BY <2>4, BuildingFields DEF SaveSnapshot, probeAfter
    <3>4. failed' \in BOOLEAN
      BY <2>4 DEF SaveSnapshot
    <3>5. QED
      BY <2>4, <3>1, <3>2, <3>3, <3>4 DEF SaveSnapshot, TypeOK, DiskTyped, ApplyTyped
  <2>5. CASE RetrySnapshot
    BY <2>5, CaptureTyped DEF RetrySnapshot, TypeOK, DiskTyped, ApplyTyped
  <2>6. ASSUME NEW n \in 1..MaxLog, ReadEntries(n) PROVE DiskTyped' /\ ApplyTyped'
    <3>0. batch' = [batch EXCEPT !.read = n]
      BY <2>6 DEF ReadEntries
    <3>1. batch' \in BatchType
      BY <3>0, n \in 0..MaxLog DEF TypeOK, ApplyTyped, BatchType
    <3>2. QED
      BY <2>6, <3>1 DEF ReadEntries, TypeOK, DiskTyped, ApplyTyped
  <2>7. QED
    BY <2>1, <2>2, <2>3, <2>4, <2>5, <2>6 DEF ApplyLoop
<1>3. QED
    BY <1>1, <1>2 DEF TypeOK

LEMMA TypeOther ==
    ASSUME TypeOK
    PROVE  /\ \A i \in 1..MaxLog : SaveReceivedSnapshot(i) \/ SnapshotProbe(i) => TypeOK'
           /\ SnapshotFails \/ Crash \/ Open => TypeOK'
<1>num. Numbers
    BY Scalars
<1> USE <1>num DEF Numbers
<1> USE DEF group, disk, membership, runLoop, snapshots, applyLoop, faults
<1>1. ASSUME NEW i \in 1..MaxLog, SaveReceivedSnapshot(i) PROVE TypeOK'
  <2>1. /\ i <= Len(log) /\ snap' = snapshotAt(i) /\ commit' = i /\ delivered' = i
        /\ conf' = confs[i + 1] /\ confIndex' = i /\ retired' = persistRetired(gone[i + 1], i)
        /\ minimum' = Greater(minimum, protocolAt(i))
        /\ pending' = [NoBatch EXCEPT !.snapshot = i, !.conf = confs[i + 1]]
        /\ UNCHANGED <<group, applied, phase, ready, local, applyLoop, faults>>
    BY <1>1 DEF SaveReceivedSnapshot
  <2>2. /\ snapshotAt(i) \in SnapshotType /\ protocolAt(i) \in 1..4
        /\ confs[i + 1] \in ConfType /\ gone[i + 1] \in SUBSET Ids
    BY <2>1, SnapshotTyped, GroupElements
  <2>3. minimum' \in 1..4
    BY <2>1, <2>2 DEF Greater, TypeOK, DiskTyped
  <2>4. pending' \in BatchType
    BY <2>1, <2>2, Empties, i \in 0..MaxLog DEF BatchType
  <2>5. retired' \in [Ids -> 0..MaxLog]
    BY <2>1, <2>2, i \in 0..MaxLog, RetiredTyped
  <2>6. GroupTyped' /\ ApplyTyped' /\ FaultsTyped'
    BY <2>1 DEF TypeOK, GroupTyped, ApplyTyped, FaultsTyped
  <2>7. DiskTyped'
    BY <2>1, <2>2, <2>3, <2>5 DEF TypeOK, DiskTyped
  <2>8. RunTyped'
    BY <2>1, <2>4 DEF TypeOK, RunTyped
  <2>9. QED
    BY <2>6, <2>7, <2>8 DEF TypeOK
<1>2. ASSUME NEW i \in 1..MaxLog, SnapshotProbe(i) PROVE TypeOK'
  <2>1. building' \in SnapshotType
    BY <1>2, BuildCases, CaptureTyped DEF SnapshotProbe, TypeOK, ApplyTyped
  <2>2. GroupTyped' /\ DiskTyped' /\ RunTyped' /\ FaultsTyped'
    BY <1>2 DEF SnapshotProbe, TypeOK, GroupTyped, DiskTyped, RunTyped, FaultsTyped
  <2>3. ApplyTyped'
    BY <1>2, <2>1 DEF SnapshotProbe, TypeOK, ApplyTyped
  <2>4. QED
    BY <2>2, <2>3 DEF TypeOK
<1>3. CASE SnapshotFails
  <2>1. GroupTyped' /\ DiskTyped' /\ RunTyped' /\ FaultsTyped'
    BY <1>3, ReplicaAssumption DEF SnapshotFails, TypeOK, GroupTyped, DiskTyped, RunTyped, FaultsTyped
  <2>2. ApplyTyped'
    BY <1>3, Empties DEF SnapshotFails, TypeOK, ApplyTyped
  <2>3. QED
    BY <2>1, <2>2 DEF TypeOK
<1>4. CASE Crash
  <2>1. GroupTyped' /\ DiskTyped' /\ FaultsTyped'
    BY <1>4, ReplicaAssumption DEF Crash, TypeOK, GroupTyped, DiskTyped, FaultsTyped
  <2>2. /\ local' \in [conf : ConfType, index : 0..MaxLog] /\ failed' \in BOOLEAN
        /\ ready' \in [at : 0..MaxLog + 1, last : 0..MaxLog, changed : BOOLEAN]
    <3>1. local' = [conf |-> NoConf, index |-> 0] /\ ready' = [at |-> 0, last |-> 0, changed |-> FALSE]
      BY <1>4 DEF Crash
    <3>2. failed' = FALSE
      BY <1>4 DEF Crash
    <3>3. local' \in [conf : ConfType, index : 0..MaxLog]
      BY <3>1, Empties
    <3>4. ready' \in [at : 0..MaxLog + 1, last : 0..MaxLog, changed : BOOLEAN]
      BY <3>1
    <3>5. QED
      BY <3>2, <3>3, <3>4
  <2>3. RunTyped'
    BY <1>4, <2>2, Empties DEF Crash, RunTyped
  <2>4. ApplyTyped'
    BY <1>4, <2>2, Empties DEF Crash, ApplyTyped
  <2>5. QED
    BY <2>1, <2>3, <2>4 DEF TypeOK
<1>5. CASE Open
  <2>1. snap \in SnapshotType /\ snap.retired \in SUBSET Ids /\ snap.conf \in ConfType
    BY DEF TypeOK, DiskTyped, SnapshotType
  <2>2. applied' \in 0..MaxLog /\ delivered' \in 0..MaxLog
    BY <1>5 DEF Open, Greater
  <2>3. retired' \in [Ids -> 0..MaxLog]
    BY <1>5, <2>1, SnapFields, RetiredTyped DEF Open
  <2>4. GroupTyped' /\ FaultsTyped'
    BY <1>5 DEF Open, TypeOK, GroupTyped, FaultsTyped
  <2>5. DiskTyped' /\ RunTyped'
    BY <1>5, <2>2, <2>3 DEF Open, TypeOK, DiskTyped, RunTyped
  <2>6. ApplyTyped'
    BY <1>5, <2>1, SnapFields DEF Open, TypeOK, ApplyTyped
  <2>7. QED
    BY <2>4, <2>5, <2>6 DEF TypeOK
<1>6. QED
    BY <1>1, <1>2, <1>3, <1>4, <1>5

LEMMA TypeNext == TypeOK /\ GroupInv /\ PositionInv /\ [Next]_vars => TypeOK'
<1>1. ASSUME TypeOK, UNCHANGED vars PROVE TypeOK'
    BY <1>1 DEF TypeOK, GroupTyped, DiskTyped, RunTyped, ApplyTyped, FaultsTyped, vars, group, disk,
       membership, runLoop, applyLoop, snapshots, faults
<1>2. QED
    BY <1>1, ExtendEntries, TypeExtend, TypeRun, TypeApply, TypeOther DEF Next
-----------------------------------------------------------------------------
(* The group.                                                              *)

\* An entry is added behind everything the group knows.
LEMMA ExtendKeeps ==
    ASSUME TypeOK, NEW e \in Entries, Extend(e)
    PROVE  /\ Len(log') = Len(log) + 1 /\ log'[Len(log) + 1] = e
           /\ \A j \in 1..Len(log) : log'[j] = log[j]
           /\ \A j \in 1..Len(log) + 1 : confs'[j] = confs[j] /\ gone'[j] = gone[j]
           /\ confs'[Len(log) + 2] = nextConf(e, confs[Len(log) + 1], gone[Len(log) + 1])
           /\ gone'[Len(log) + 2] = nextGone(e, confs[Len(log) + 1], gone[Len(log) + 1])
<1> DEFINE c == nextConf(e, confs[Len(log) + 1], gone[Len(log) + 1])
           g == nextGone(e, confs[Len(log) + 1], gone[Len(log) + 1])
<1>1. log' = Append(log, e) /\ confs' = Append(confs, c) /\ gone' = Append(gone, g)
    BY DEF Extend
<1>2. c \in ConfType /\ g \in SUBSET Ids
    BY GroupElements, ConfTyped
<1> HIDE DEF c, g
<1>3. Len(log') = Len(log) + 1 /\ log'[Len(log) + 1] = e /\ \A j \in 1..Len(log) : log'[j] = log[j]
    BY <1>1 DEF TypeOK, GroupTyped
<1>4. confs'[Len(log) + 2] = c /\ \A j \in 1..Len(log) + 1 : confs'[j] = confs[j]
    BY <1>1, <1>2 DEF TypeOK, GroupTyped
<1>5. gone'[Len(log) + 2] = g /\ \A j \in 1..Len(log) + 1 : gone'[j] = gone[j]
    BY <1>1, <1>2 DEF TypeOK, GroupTyped
<1>6. QED
    BY <1>3, <1>4, <1>5 DEF c, g

LEMMA GroupInit == Init => GroupInv
<1> SUFFICES ASSUME Init PROVE GroupInv
    OBVIOUS
<1>1. log = <<>> /\ confs = <<[voters |-> Founders, learners |-> {}]>> /\ gone = <<{}>>
    BY DEF Init
<1>2. Len(log) = 0 /\ gone[1] = {}
    BY <1>1
<1>3. QED
    BY <1>2, ReplicaAssumption DEF GroupInv, EntriesAct, GoneGrows, CommandsKeepMembers

LEMMA GroupExtend ==
    ASSUME TypeOK, GroupInv, NEW e \in Entries, Extend(e)
    PROVE  GroupInv'
<1> DEFINE n == Len(log) + 1
<1>1. Len(log) \in Nat /\ n \in Nat /\ Len(log') = n
    BY GroupElements, ExtendKeeps
<1>2. (Len(log) <= MaxLog)'
    BY <1>1, ReplicaAssumption DEF Extend
<1>3. EntriesAct'
  <2> SUFFICES ASSUME NEW j \in 1..n
               PROVE  /\ confs'[j + 1] = nextConf(log'[j], confs'[j], gone'[j])
                      /\ gone'[j + 1] = nextGone(log'[j], confs'[j], gone'[j])
    BY <1>1 DEF EntriesAct
  <2>1. CASE j = n
    BY <1>1, <2>1, ExtendKeeps
  <2>2. CASE j \in 1..Len(log)
    BY <1>1, <2>2, ExtendKeeps DEF GroupInv, EntriesAct
  <2>3. QED
    BY <1>1, <2>1, <2>2
<1>4. gone'[n] \subseteq gone'[n + 1]
  <2>1. n + 1 = Len(log) + 2 /\ n \in 1..Len(log) + 1
    BY <1>1
  <2>2. gone'[n] = gone[n] /\ gone'[n + 1] = nextGone(e, confs[n], gone[n])
    BY <2>1, ExtendKeeps
  <2>3. gone[n] \subseteq nextGone(e, confs[n], gone[n])
    BY DEF nextGone
  <2>4. QED
    BY <2>2, <2>3
<1>5. GoneGrows'
  <2> SUFFICES ASSUME NEW i \in 1..n + 1, NEW j \in 1..n + 1, i <= j PROVE gone'[i] \subseteq gone'[j]
    BY <1>1 DEF GoneGrows
  <2>1. \A k \in 1..n : k <= n => gone'[k] \subseteq gone'[n]
    BY <1>1, ExtendKeeps DEF GroupInv, GoneGrows
  <2>2. CASE j = n + 1
    BY <1>1, <1>4, <2>1, <2>2
  <2>3. CASE j # n + 1
    BY <1>1, <2>3, ExtendKeeps DEF GroupInv, GoneGrows
  <2>4. QED
    BY <2>2, <2>3
<1>6. CommandsKeepMembers'
  <2> SUFFICES ASSUME NEW i \in 0..n, NEW k \in 0..n, i <= k, NoChange(i, k)'
               PROVE  confs'[k + 1] = confs'[i + 1] /\ gone'[k + 1] = gone'[i + 1]
    BY <1>1 DEF CommandsKeepMembers
  <2>1. \A j \in 1..n : i < j /\ j <= k => log'[j].kind = "data"
    BY <1>1 DEF NoChange
  <2>2. CASE k # n
    <3>1. NoChange(i, k)
      BY <1>1, <2>1, <2>2, ExtendKeeps DEF NoChange
    <3>2. QED
      BY <1>1, <2>2, <3>1, ExtendKeeps DEF GroupInv, CommandsKeepMembers
  <2>3. CASE k = n /\ i # n
    <3>1. NoChange(i, n - 1) /\ e.kind = "data"
      BY <1>1, <2>1, <2>3, ExtendKeeps DEF NoChange
    <3>2. confs[n] = confs[i + 1] /\ gone[n] = gone[i + 1]
      BY <1>1, <2>3, <3>1 DEF GroupInv, CommandsKeepMembers
    <3>3. confs'[n + 1] = confs[n] /\ gone'[n + 1] = gone[n]
      <4>1. n + 1 = Len(log) + 2
        BY <1>1
      <4>2. confs'[n + 1] = nextConf(e, confs[n], gone[n]) /\ gone'[n + 1] = nextGone(e, confs[n], gone[n])
        BY <4>1, ExtendKeeps
      <4>3. QED
        BY <3>1, <4>2 DEF nextConf, nextGone
    <3>4. QED
      BY <1>1, <2>3, <3>2, <3>3, ExtendKeeps
  <2>4. QED
    BY <2>2, <2>3
<1>7. QED
    BY <1>2, <1>3, <1>5, <1>6 DEF GroupInv

\* What holds of the log still holds when only the log grows.
LEMMA NoChangeKept ==
    ASSUME TypeOK, NEW e \in Entries, Extend(e), NEW i, NEW n \in Nat, n <= Len(log), NoChange(i, n)
    PROVE  NoChange(i, n)'
BY ExtendKeeps, GroupElements DEF NoChange

\* Every other step leaves the group alone.
LEMMA GroupUnchanged ==
    ASSUME TypeOK, [Next]_vars
    PROVE  (\E e \in Entries : Extend(e)) \/ UNCHANGED group
<1> USE DEF group
<1>1. CASE RunLoop
    BY <1>1 DEF RunLoop, SaveReady, ApplyMembership, FinishReady, HandOver
<1>2. CASE ApplyLoop
    BY <1>2 DEF ApplyLoop, RestoreSnapshot, ApplyEntry, EndBatch, SaveSnapshot, RetrySnapshot, ReadEntries
<1>3. CASE (\E i \in 1..MaxLog : SaveReceivedSnapshot(i) \/ SnapshotProbe(i)) \/ SnapshotFails \/ Crash \/ Open
    BY <1>3 DEF SaveReceivedSnapshot, SnapshotProbe, SnapshotFails, Crash, Open
<1>4. CASE UNCHANGED vars
    BY <1>4 DEF vars
<1>5. QED
    BY <1>1, <1>2, <1>3, <1>4, ExtendEntries DEF Next

LEMMA GroupNext == TypeOK /\ GroupInv /\ [Next]_vars => GroupInv'
<1> SUFFICES ASSUME TypeOK, GroupInv, [Next]_vars PROVE GroupInv'
    OBVIOUS
<1>1. ASSUME UNCHANGED group PROVE GroupInv'
    BY <1>1 DEF group, GroupInv, EntriesAct, GoneGrows, CommandsKeepMembers, NoChange
<1>2. QED
    BY <1>1, GroupExtend, GroupUnchanged
-----------------------------------------------------------------------------
(* Positions.                                                              *)

LEMMA PositionInit == Init => PositionInv
<1> SUFFICES ASSUME Init PROVE PositionInv
    OBVIOUS
<1>1. /\ Len(log) = 0 /\ commit = 0 /\ confIndex = 0 /\ applied = 0 /\ phase = "select" /\ delivered = 0
      /\ snap = NoSnapshot /\ building = NoSnapshot /\ batch = NoBatch /\ pending = NoBatch
    BY DEF Init
<1>2. /\ NoSnapshot.index = 0 /\ NoBatch.first = 0 /\ NoBatch.last = 0 /\ NoBatch.snapshot = 0
      /\ NoBatch.read = 0
    BY DEF NoSnapshot, NoBatch
<1>3. QED
    BY <1>1, <1>2 DEF PositionInv, DiskPositions, LoopPositions, ReadyPositions, QueueInv, StoppedIsEmpty,
       NoChange, BatchEnd, Greater, Up

LEMMA EmptyFields ==
    /\ NoSnapshot.index = 0 /\ NoSnapshot.retired = {}
    /\ NoBatch.first = 0 /\ NoBatch.last = 0 /\ NoBatch.snapshot = 0 /\ NoBatch.read = 0
BY DEF NoSnapshot, NoBatch

LEMMA PositionExtend ==
    ASSUME TypeOK, PositionInv, NEW e \in Entries, Extend(e)
    PROVE  PositionInv'
<1>num. Numbers
    BY Scalars
<1> USE <1>num DEF Numbers
<1>1. UNCHANGED <<commit, confIndex, applied, snap, phase, delivered, ready, local, pending, batch, building>>
    BY DEF Extend, disk, membership, runLoop, applyLoop, snapshots
<1>2. Len(log') = Len(log) + 1
    BY ExtendKeeps
<1>3. DiskPositions'
    BY <1>1, <1>2, NoChangeKept, SnapFields DEF PositionInv, DiskPositions
<1>4. LoopPositions'
    BY <1>1, NoChangeKept DEF PositionInv, DiskPositions, LoopPositions, Up
<1>5. ReadyPositions'
    BY <1>1, NoChangeKept, ReadyFields DEF PositionInv, DiskPositions, ReadyPositions
<1>6. QueueInv' /\ StoppedIsEmpty'
    BY <1>1 DEF PositionInv, QueueInv, StoppedIsEmpty, BatchEnd, Up
<1>7. QED
    BY <1>3, <1>4, <1>5, <1>6 DEF PositionInv

LEMMA PositionRun ==
    ASSUME TypeOK, GroupInv, PositionInv, RunLoop
    PROVE  PositionInv'
<1>num. Numbers
    BY Scalars
<1> USE <1>num DEF Numbers
<1>1. ASSUME NEW n \in 1..MaxLog, SaveReady(n) PROVE PositionInv'
  <2>1. /\ phase = "select" /\ n > delivered /\ n <= Len(log) /\ n - delivered <= MaxReady
        /\ commit' = Greater(commit, n) /\ phase' = "ready"
        /\ ready' = [at |-> delivered + 1, last |-> n, changed |-> FALSE]
        /\ local' = [conf |-> conf, index |-> confIndex]
        /\ UNCHANGED <<log, confIndex, snap, applied, delivered, pending, batch, building>>
    BY <1>1 DEF SaveReady, group, membership, applyLoop, snapshots
  <2>2. commit <= commit' /\ n <= commit' /\ commit' <= Len(log) /\ commit' \in Nat
    BY <2>1 DEF Greater, PositionInv, DiskPositions
  <2>3. ready'.at = delivered + 1 /\ ready'.last = n /\ local'.index = confIndex
    BY <2>1
  <2>4. DiskPositions'
    BY <2>1, <2>2, SnapFields DEF PositionInv, DiskPositions, NoChange
  <2>5. LoopPositions'
    BY <2>1, <2>2 DEF PositionInv, LoopPositions, NoChange, Up
  <2>6. ReadyPositions'
    <3>1. NoChange(confIndex, delivered) /\ confIndex <= commit
      BY <2>1 DEF PositionInv, LoopPositions, DiskPositions, Up
    <3>2. NoChange(local.index, ready.at - 1)'
      <4>1. (ready.at - 1)' = delivered
        BY <2>3
      <4>2. QED
        BY <2>1, <2>3, <3>1, <4>1 DEF NoChange
    <3>3. QED
      BY <2>1, <2>2, <2>3, <3>1, <3>2 DEF ReadyPositions
  <2>7. QueueInv' /\ StoppedIsEmpty'
    BY <2>1 DEF PositionInv, QueueInv, StoppedIsEmpty, BatchEnd, Up
  <2>8. QED
    BY <2>4, <2>5, <2>6, <2>7 DEF PositionInv
<1>2. CASE ApplyMembership
  <2>1. /\ phase = "ready" /\ ready.at <= ready.last
        /\ UNCHANGED <<log, commit, confIndex, snap, applied, phase, delivered, pending, batch, building>>
    BY <1>2 DEF ApplyMembership, group, applyLoop, snapshots
  <2>2. ready'.at = ready.at + 1 /\ ready'.last = ready.last
    BY <1>2 DEF ApplyMembership, TypeOK, RunTyped
  <2>3. \/ local' = local /\ (log[ready.at].kind = "data" \/ ready.at <= local.index)
        \/ local'.index = ready.at /\ ~ ready.at <= local.index
    BY <1>2 DEF ApplyMembership, alreadyApplied
  <2>4. DiskPositions' /\ LoopPositions'
    BY <2>1 DEF PositionInv, DiskPositions, LoopPositions, NoChange, Up
  <2>5. ReadyPositions'
    <3>1. confIndex <= local'.index /\ local'.index <= commit
      BY <2>1, <2>3, ReadyFields, LocalFields DEF PositionInv, ReadyPositions
    <3>2. NoChange(local'.index, ready.at)
      <4>1. NoChange(local.index, ready.at - 1)
        BY <2>1 DEF PositionInv, ReadyPositions
      <4>2. CASE local' = local /\ (log[ready.at].kind = "data" \/ ready.at <= local.index)
        BY <4>1, <4>2, ReadyFields, LocalFields DEF NoChange
      <4>3. CASE local'.index = ready.at
        BY <4>3, ReadyFields DEF NoChange
      <4>4. QED
        BY <2>3, <4>2, <4>3
    <3>3. QED
      BY <2>1, <2>2, <3>1, <3>2, ReadyFields DEF PositionInv, ReadyPositions, NoChange
  <2>6. QueueInv' /\ StoppedIsEmpty'
    BY <2>1 DEF PositionInv, QueueInv, StoppedIsEmpty, BatchEnd, Up
  <2>7. QED
    BY <2>4, <2>5, <2>6 DEF PositionInv
<1>3. CASE FinishReady
  <2>1. /\ phase = "ready" /\ ready.at > ready.last /\ confIndex' = local.index
        /\ delivered' = ready.last /\ phase' = "select"
        /\ UNCHANGED <<log, commit, snap, applied, batch, building>>
    BY <1>3 DEF FinishReady, group, applyLoop, snapshots
  <2>2. /\ pending'.first = mergedFirst /\ pending'.last = ready.last
        /\ pending'.snapshot = pending.snapshot /\ pending'.read = pending.read
    BY <1>3 DEF FinishReady, TypeOK, RunTyped, BatchType
  <2>3. /\ delivered < ready.last /\ ready.last <= commit /\ ready.at = ready.last + 1
        /\ confIndex <= local.index /\ local.index <= commit /\ NoChange(local.index, ready.last)
    BY <2>1, ReadyFields DEF PositionInv, ReadyPositions
  <2>4. DiskPositions'
    BY <2>1, <2>3, SnapFields, LocalFields DEF PositionInv, DiskPositions, NoChange
  <2>5. LoopPositions' /\ ReadyPositions' /\ StoppedIsEmpty'
    BY <2>1, <2>3, SnapFields, ReadyFields DEF PositionInv, LoopPositions, ReadyPositions, StoppedIsEmpty, NoChange, Up
  <2>6. QueueInv'
    <3>1. QueueInv /\ Up /\ Up'
      BY <2>1 DEF PositionInv, Up
    <3> DEFINE b == Greater(applied, BatchEnd(batch))
               s == pending.snapshot
               d == delivered
    <3>2. /\ pending.first \in Nat /\ pending.last \in Nat /\ s \in Nat /\ ready.last \in Nat /\ b \in Nat
          /\ d \in Nat
      <4>1. BatchEnd(batch) \in Nat
        BY BatchFields DEF BatchEnd, Greater
      <4>2. b \in Nat
        BY <4>1, applied \in Nat DEF Greater
      <4>3. QED
        BY <4>2, ReadyFields, PendingFields
    <3>3. /\ pending.first = 0 <=> pending.last = 0
          /\ s > 0 => b <= s
          /\ pending.first <= Greater(b, s) + 1
          /\ d = Greater(b, Greater(s, pending.last))
          /\ pending.read = 0
      BY <3>1 DEF QueueInv, BatchEnd
    <3> HIDE DEF b, s, d
    <3>4. /\ mergedFirst # 0 /\ ready.last # 0 /\ mergedFirst <= Greater(b, s) + 1
          /\ ready.last = Greater(b, Greater(s, ready.last)) /\ ready.last = Greater(s, ready.last)
      BY <2>3, <3>2, <3>3 DEF mergedFirst, Greater, d
    <3>5. QED
      BY <2>1, <2>2, <3>1, <3>3, <3>4 DEF QueueInv, BatchEnd, b, s
  <2>7. QED
    BY <2>4, <2>5, <2>6 DEF PositionInv
<1>4. CASE HandOver
  <2>1. /\ phase = "select" /\ batch = NoBatch /\ pending # NoBatch /\ batch' = pending /\ pending' = NoBatch
        /\ UNCHANGED <<log, commit, confIndex, snap, applied, phase, delivered, ready, local, building>>
    BY <1>4 DEF HandOver, Selecting, group, disk, membership, snapshots
  <2>2. DiskPositions' /\ LoopPositions' /\ ReadyPositions' /\ StoppedIsEmpty'
    BY <2>1 DEF PositionInv, DiskPositions, LoopPositions, ReadyPositions, StoppedIsEmpty, NoChange, Up
  <2>3. QueueInv'
    BY <2>1, EmptyFields, SnapFields, PendingFields DEF PositionInv, LoopPositions, QueueInv, BatchEnd, Greater, Up
  <2>4. QED
    BY <2>2, <2>3 DEF PositionInv
<1>5. QED
    BY <1>1, <1>2, <1>3, <1>4 DEF RunLoop

\* The queue as numbers: the application's position, the snapshot's and that
\* of the run loop, then the batch in progress and the pending one.
Queue(a, s, d, bf, bl, bs, pf, pl, ps) ==
    /\ bs <= s /\ ps <= s /\ bf <= Greater(a, bs) + 1
    /\ ps > 0 => Greater(a, Greater(bs, bl)) <= ps
    /\ pf <= Greater(Greater(a, Greater(bs, bl)), ps) + 1
    /\ s <= Greater(a, Greater(bs, ps))
    /\ d = Greater(Greater(a, Greater(bs, bl)), Greater(ps, pl))

\* The batch ends: it is applied, or a snapshot that waits covers the rest.
LEMMA QueueEnds ==
    ASSUME NEW a \in Nat, NEW s \in Nat, NEW d \in Nat, NEW bf \in Nat, NEW bl \in Nat, NEW bs \in Nat,
           NEW pf \in Nat, NEW pl \in Nat, NEW ps \in Nat, Queue(a, s, d, bf, bl, bs, pf, pl, ps),
           bs <= a, a + 1 > bl \/ a + 1 <= s
    PROVE  Queue(a, s, d, 0, 0, 0, pf, pl, ps)
BY DEF Queue, Greater

\* The batch goes on by one entry.
LEMMA QueueApplies ==
    ASSUME NEW a \in Nat, NEW s \in Nat, NEW d \in Nat, NEW bf \in Nat, NEW bl \in Nat, NEW bs \in Nat,
           NEW pf \in Nat, NEW pl \in Nat, NEW ps \in Nat, Queue(a, s, d, bf, bl, bs, pf, pl, ps),
           bs <= a, a + 1 <= bl
    PROVE  Queue(a + 1, s, d, bf, bl, bs, pf, pl, ps)
BY DEF Queue, Greater

\* A snapshot of the application is saved.
LEMMA QueueSaves ==
    ASSUME NEW a \in Nat, NEW s \in Nat, NEW d \in Nat, NEW pf \in Nat, NEW pl \in Nat, NEW ps \in Nat,
           Queue(a, s, d, 0, 0, 0, pf, pl, ps), NEW t \in Nat, s <= t, t = s \/ t <= a
    PROVE  Queue(a, t, d, 0, 0, 0, pf, pl, ps)
BY DEF Queue, Greater

\* A snapshot ahead of everything is received.
LEMMA QueueReceives ==
    ASSUME NEW a \in Nat, NEW s \in Nat, NEW d \in Nat, NEW bf \in Nat, NEW bl \in Nat, NEW bs \in Nat,
           NEW pf \in Nat, NEW pl \in Nat, NEW ps \in Nat, Queue(a, s, d, bf, bl, bs, pf, pl, ps),
           NEW i \in Nat, d < i, s < i
    PROVE  Queue(a, i, i, bf, bl, bs, 0, 0, i)
BY DEF Queue, Greater

LEMMA QueueNumbers ==
    ASSUME PositionInv, Up
    PROVE  Queue(applied, snap.index, delivered, batch.first, batch.last, batch.snapshot,
                 pending.first, pending.last, pending.snapshot)
BY DEF PositionInv, QueueInv, Queue, BatchEnd

\* Positions are natural numbers.
LEMMA QueueTyped ==
    ASSUME TypeOK
    PROVE  /\ applied \in Nat /\ snap.index \in Nat /\ delivered \in Nat
           /\ batch.first \in Nat /\ batch.last \in Nat /\ batch.snapshot \in Nat
           /\ pending.first \in Nat /\ pending.last \in Nat /\ pending.snapshot \in Nat
<1>1. MaxLog \in Nat
    BY ReplicaAssumption
<1>2. applied \in Nat /\ delivered \in Nat
    BY <1>1, Scalars DEF Numbers
<1>3. snap.index \in Nat
    BY <1>1, SnapFields
<1>4. batch.first \in Nat /\ batch.last \in Nat /\ batch.snapshot \in Nat
    BY <1>1, BatchFields
<1>5. pending.first \in Nat /\ pending.last \in Nat /\ pending.snapshot \in Nat
    BY <1>1, PendingFields
<1>6. QED
    BY <1>2, <1>3, <1>4, <1>5

LEMMA PositionApply ==
    ASSUME TypeOK, GroupInv, PositionInv, ApplyLoop
    PROVE  PositionInv'
<1>num. Numbers
    BY Scalars
<1> USE <1>num DEF Numbers
<1>1. CASE RestoreSnapshot
  <2>1. /\ Up /\ batch.snapshot > applied /\ applied' = batch.snapshot
        /\ UNCHANGED <<log, commit, confIndex, snap, phase, delivered, ready, local, pending, batch, building>>
    BY <1>1 DEF RestoreSnapshot, Up, group, membership, runLoop
  <2>2. batch.snapshot <= snap.index /\ snap.index <= delivered
    BY <2>1 DEF PositionInv, QueueInv, LoopPositions
  <2>3. DiskPositions'
    BY <2>1, <2>2, SnapFields, BatchFields DEF PositionInv, DiskPositions, NoChange
  <2>4. LoopPositions' /\ ReadyPositions' /\ StoppedIsEmpty'
    BY <2>1, <2>2, SnapFields, BatchFields, BuildingFields
       DEF PositionInv, LoopPositions, ReadyPositions, StoppedIsEmpty, NoChange, Up
  <2>5. QueueInv'
    BY <2>1, SnapFields, PendingFields, BatchFields DEF PositionInv, QueueInv, BatchEnd, Greater, Up
  <2>6. QED
    BY <2>3, <2>4, <2>5 DEF PositionInv
<1>2. CASE ApplyEntry
  <2>1. /\ Up /\ batch # NoBatch /\ batch.snapshot <= applied /\ Current <= batch.read /\ applied' = Current
        /\ UNCHANGED <<log, commit, confIndex, snap, phase, delivered, ready, local, pending, batch, building>>
    BY <1>2 DEF ApplyEntry, Continuing, Up, group, membership, runLoop, applyLoop, snapshots
  <2>2. Current = applied + 1 /\ applied + 1 <= batch.last /\ batch.last <= delivered
    <3>1. /\ batch.read <= batch.last /\ batch.first <= Greater(applied, batch.snapshot) + 1
          /\ delivered = Greater(Greater(applied, BatchEnd(batch)), BatchEnd(pending))
      BY <2>1 DEF PositionInv, QueueInv
    <3>2. Greater(applied, batch.snapshot) = applied
      BY <2>1, BatchFields DEF Greater
    <3>3. Current = applied + 1
      BY <2>1, <3>1, <3>2, BatchFields DEF Current, Greater
    <3>4. applied + 1 <= batch.last
      BY <2>1, <3>1, <3>3, BatchFields
    <3>5. batch.last <= delivered
      <4>1. /\ applied \in Nat /\ batch.snapshot \in Nat /\ batch.last \in Nat
            /\ pending.snapshot \in Nat /\ pending.last \in Nat
        BY BatchFields, PendingFields
      <4>2. BatchEnd(batch) \in Nat /\ batch.last <= BatchEnd(batch) /\ BatchEnd(pending) \in Nat
        BY <4>1, GreaterFacts DEF BatchEnd
      <4>3. Greater(applied, BatchEnd(batch)) \in Nat /\ BatchEnd(batch) <= Greater(applied, BatchEnd(batch))
        BY <4>1, <4>2, GreaterFacts
      <4>4. Greater(applied, BatchEnd(batch)) <= delivered
        BY <3>1, <4>2, <4>3, GreaterFacts
      <4>5. QED
        BY <4>1, <4>2, <4>3, <4>4
    <3>6. QED
      BY <3>3, <3>4, <3>5
  <2>3. DiskPositions'
    <3>1. DiskPositions /\ delivered <= commit /\ NoChange(confIndex, delivered)
      BY <2>1 DEF PositionInv, LoopPositions
    <3>2. applied' \in Nat /\ applied' <= delivered
      BY <2>1, <2>2, BatchFields
    <3>3. NoChange(confIndex, applied') /\ applied' <= commit
      BY <3>1, <3>2 DEF NoChange
    <3>4. QED
      BY <2>1, <3>1, <3>3 DEF DiskPositions, NoChange
  <2>4. LoopPositions' /\ ReadyPositions' /\ StoppedIsEmpty'
    BY <2>1, <2>2, BatchFields, BuildingFields
       DEF PositionInv, LoopPositions, ReadyPositions, StoppedIsEmpty, NoChange, Up
  <2>5. QueueInv'
    <3>1. Queue(applied + 1, snap.index, delivered, batch.first, batch.last, batch.snapshot,
                pending.first, pending.last, pending.snapshot)
      BY <2>1, <2>2, QueueNumbers, QueueTyped, QueueApplies
    <3>2. applied' = applied + 1 /\ applied' <= BatchEnd(batch)
      BY <2>1, <2>2, QueueTyped DEF BatchEnd, Greater
    <3>3. QED
      BY <2>1, <3>1, <3>2 DEF PositionInv, QueueInv, BatchEnd, Queue, Up
  <2>6. QED
    BY <2>3, <2>4, <2>5 DEF PositionInv
<1>3. CASE EndBatch
  <2>1. /\ Up /\ batch # NoBatch /\ batch.snapshot <= applied /\ batch' = NoBatch
        /\ Current > batch.last \/ Current <= snap.index
        /\ UNCHANGED <<log, commit, confIndex, snap, applied, phase, delivered, ready, local, pending>>
    BY <1>3 DEF EndBatch, Continuing, compacted, Up, group, disk, membership, runLoop
  <2>2. building' \in {building, capture}
    BY <1>3, BuildCases DEF EndBatch
  <2>3. building'.index <= applied
    BY <2>1, <2>2, CaptureTyped, BuildingFields DEF PositionInv, LoopPositions
  <2>4. DiskPositions' /\ LoopPositions' /\ ReadyPositions' /\ StoppedIsEmpty'
    BY <2>1, <2>3 DEF PositionInv, DiskPositions, LoopPositions, ReadyPositions, StoppedIsEmpty, NoChange, Up
  <2>5. Current = applied + 1
    BY <2>1, BatchFields DEF Current, PositionInv, QueueInv, Greater
  <2>6. QueueInv'
    <3>1. Queue(applied, snap.index, delivered, 0, 0, 0, pending.first, pending.last, pending.snapshot)
      BY <2>1, <2>5, QueueNumbers, QueueTyped, QueueEnds
    <3>2. delivered = BatchEnd(pending) \/ pending = NoBatch
      BY <2>1 DEF PositionInv, QueueInv
    <3>3. QED
      BY <2>1, <3>1, EmptyFields DEF PositionInv, QueueInv, BatchEnd, Queue, Up
  <2>7. QED
    BY <2>4, <2>6 DEF PositionInv
<1>4. CASE SaveSnapshot
  <2>1. /\ Up /\ batch = NoBatch
        /\ snap' = snap \/ (snap' = building /\ building.index >= snap.index)
        /\ UNCHANGED <<log, commit, confIndex, applied, phase, delivered, ready, local, pending, batch>>
    BY <1>4 DEF SaveSnapshot, Selecting, Up, group, membership, runLoop
  <2>2. building' \in {NoSnapshot, capture}
    BY <1>4, BuildCases DEF SaveSnapshot
  <2>3. building'.index <= applied /\ building.index <= applied
    <3>1. building.index <= applied
      BY <2>1 DEF PositionInv, LoopPositions
    <3>2. NoSnapshot.index <= applied /\ capture.index <= applied
      BY CaptureTyped, EmptyFields
    <3>3. QED
      BY <2>2, <3>1, <3>2
  <2>4. snap.index <= snap'.index /\ (snap' = snap \/ snap'.index <= applied) /\ snap'.index \in Nat
    BY <2>1, <2>3, SnapFields, BuildingFields
  <2>5. DiskPositions'
    BY <2>1, <2>4, SnapFields DEF PositionInv, DiskPositions, NoChange
  <2>6. LoopPositions'
    BY <2>1, <2>3, <2>4 DEF PositionInv, LoopPositions, NoChange, Up
  <2>7. QueueInv'
    <3>1. batch.first = 0 /\ batch.last = 0 /\ batch.snapshot = 0
      BY <2>1, EmptyFields
    <3>2. Queue(applied, snap.index, delivered, 0, 0, 0, pending.first, pending.last, pending.snapshot)
      BY <2>1, <3>1, QueueNumbers
    <3>3. Queue(applied, snap'.index, delivered, 0, 0, 0, pending.first, pending.last, pending.snapshot)
      BY <2>4, <3>2, QueueTyped, QueueSaves
    <3>4. QED
      BY <2>1, <3>1, <3>3 DEF PositionInv, QueueInv, BatchEnd, Queue, Up
  <2>8. ReadyPositions' /\ StoppedIsEmpty'
    BY <2>1 DEF PositionInv, ReadyPositions, StoppedIsEmpty, NoChange, Up
  <2>9. QED
    BY <2>5, <2>6, <2>7, <2>8 DEF PositionInv
<1>5. CASE RetrySnapshot
  <2>1. /\ Up /\ building' = capture
        /\ UNCHANGED <<log, commit, confIndex, snap, applied, phase, delivered, ready, local, pending, batch>>
    BY <1>5 DEF RetrySnapshot, Selecting, Up, group, disk, membership, runLoop
  <2>2. building'.index <= applied
    BY <2>1, CaptureTyped
  <2>3. QED
    BY <2>1, <2>2 DEF PositionInv, DiskPositions, LoopPositions, ReadyPositions, QueueInv, StoppedIsEmpty, NoChange, Up
<1>6. ASSUME NEW n \in 1..MaxLog, ReadEntries(n) PROVE PositionInv'
  <2>1. /\ Up /\ batch # NoBatch /\ n <= batch.last /\ batch' = [batch EXCEPT !.read = n]
        /\ UNCHANGED <<log, commit, confIndex, snap, applied, phase, delivered, ready, local, pending, building>>
    BY <1>6 DEF ReadEntries, Continuing, Up, group, disk, membership, runLoop, snapshots
  <2>2. /\ batch'.first = batch.first /\ batch'.last = batch.last /\ batch'.snapshot = batch.snapshot
        /\ batch'.read = n
    BY <2>1 DEF TypeOK, ApplyTyped, BatchType
  <2>3. DiskPositions' /\ LoopPositions' /\ ReadyPositions' /\ StoppedIsEmpty'
    BY <2>1 DEF PositionInv, DiskPositions, LoopPositions, ReadyPositions, StoppedIsEmpty, NoChange, Up
  <2>4. QueueInv'
    BY <2>1, <2>2 DEF PositionInv, QueueInv, BatchEnd, Up
  <2>5. QED
    BY <2>3, <2>4 DEF PositionInv
<1>7. QED
    BY <1>1, <1>2, <1>3, <1>4, <1>5, <1>6 DEF ApplyLoop

LEMMA PositionOther ==
    ASSUME TypeOK, GroupInv, PositionInv
    PROVE  /\ \A i \in 1..MaxLog : SaveReceivedSnapshot(i) \/ SnapshotProbe(i) => PositionInv'
           /\ SnapshotFails \/ Crash \/ Open => PositionInv'
<1>num. Numbers
    BY Scalars
<1> USE <1>num DEF Numbers
<1>1. ASSUME NEW i \in 1..MaxLog, SaveReceivedSnapshot(i) PROVE PositionInv'
  <2>1. /\ Up /\ Up' /\ phase' = "select" /\ i > commit /\ i <= Len(log) /\ snap' = snapshotAt(i)
        /\ commit' = i /\ delivered' = i /\ confIndex' = i
        /\ pending' = [NoBatch EXCEPT !.snapshot = i, !.conf = confs[i + 1]]
        /\ UNCHANGED <<log, applied, ready, local, batch, building>>
    BY <1>1 DEF SaveReceivedSnapshot, Up, group, applyLoop, snapshots
  <2>2. snap'.index = i
    BY <2>1 DEF snapshotAt
  <2>3. pending'.first = 0 /\ pending'.last = 0 /\ pending'.read = 0 /\ pending'.snapshot = i
    BY <2>1 DEF NoBatch
  <2>4. DiskPositions'
    BY <2>1, <2>2 DEF PositionInv, DiskPositions, NoChange
  <2>5. LoopPositions' /\ ReadyPositions' /\ StoppedIsEmpty'
    BY <2>1, <2>2 DEF PositionInv, DiskPositions, LoopPositions, ReadyPositions, StoppedIsEmpty, NoChange
  <2>6. QueueInv'
    <3>1. delivered < i /\ snap.index < i
      BY <2>1, SnapFields DEF PositionInv, DiskPositions, LoopPositions
    <3>2. Queue(applied, i, i, batch.first, batch.last, batch.snapshot, 0, 0, i)
      <4>1. Queue(applied, snap.index, delivered, batch.first, batch.last, batch.snapshot,
                  pending.first, pending.last, pending.snapshot)
        BY <2>1, QueueNumbers
      <4>2. i \in Nat
        OBVIOUS
      <4>3. QED
        BY <3>1, <4>1, <4>2, QueueTyped, QueueReceives
    <3>3. i = Greater(i, 0)
      BY DEF Greater
    <3>4. QED
      BY <2>1, <2>2, <2>3, <3>2, <3>3 DEF PositionInv, QueueInv, BatchEnd, Queue
  <2>7. QED
    BY <2>4, <2>5, <2>6 DEF PositionInv
<1>2. ASSUME NEW i \in 1..MaxLog, SnapshotProbe(i) PROVE PositionInv'
  <2>1. /\ Up /\ building' \in {building, capture}
        /\ UNCHANGED <<log, commit, confIndex, snap, applied, phase, delivered, ready, local, pending, batch>>
    BY <1>2, BuildCases DEF SnapshotProbe, Selecting, Up, group, disk, membership, runLoop
  <2>2. building'.index <= applied
    BY <2>1, CaptureTyped, BuildingFields DEF PositionInv, LoopPositions
  <2>3. QED
    BY <2>1, <2>2 DEF PositionInv, DiskPositions, LoopPositions, ReadyPositions, QueueInv, StoppedIsEmpty, NoChange, Up
<1>3. CASE SnapshotFails
  <2>1. /\ Up /\ building' = NoSnapshot
        /\ UNCHANGED <<log, commit, confIndex, snap, applied, phase, delivered, ready, local, pending, batch>>
    BY <1>3 DEF SnapshotFails, Selecting, Up, group, disk, membership, runLoop
  <2>2. building'.index <= applied
    BY <2>1, EmptyFields
  <2>3. QED
    BY <2>1, <2>2 DEF PositionInv, DiskPositions, LoopPositions, ReadyPositions, QueueInv, StoppedIsEmpty, NoChange, Up
<1>4. CASE Crash
  <2>1. /\ phase' = "down" /\ batch' = NoBatch /\ pending' = NoBatch /\ building' = NoSnapshot
        /\ UNCHANGED <<log, commit, confIndex, snap, applied>>
    BY <1>4 DEF Crash, group, disk, membership
  <2>2. QED
    BY <2>1 DEF PositionInv, DiskPositions, LoopPositions, ReadyPositions, QueueInv, StoppedIsEmpty, NoChange, Up
<1>5. CASE Open
  <2>1. /\ ~ Up /\ phase' = "select" /\ Greater(applied, snap.index) <= commit
        /\ applied' = Greater(applied, snap.index) /\ delivered' = applied'
        /\ UNCHANGED <<log, commit, confIndex, snap, ready, local, pending, batch, building>>
    BY <1>5 DEF Open, Up, group
  <2>2. batch = NoBatch /\ pending = NoBatch /\ building = NoSnapshot
    BY <2>1 DEF PositionInv, StoppedIsEmpty
  <2>3. applied' \in {applied, snap.index} /\ applied <= applied' /\ snap.index <= applied' /\ applied' <= commit
        /\ applied' \in Nat
    BY <2>1, SnapFields DEF Greater
  <2>4. DiskPositions'
    BY <2>1, <2>3, SnapFields DEF PositionInv, DiskPositions, NoChange
  <2>5. LoopPositions' /\ ReadyPositions' /\ StoppedIsEmpty'
    BY <2>1, <2>2, <2>3, EmptyFields, SnapFields
       DEF PositionInv, DiskPositions, LoopPositions, ReadyPositions, StoppedIsEmpty, NoChange, Up
  <2>6. QueueInv'
    BY <2>1, <2>2, <2>3, EmptyFields, SnapFields DEF QueueInv, BatchEnd, Greater
  <2>7. QED
    BY <2>4, <2>5, <2>6 DEF PositionInv
<1>6. QED
    BY <1>1, <1>2, <1>3, <1>4, <1>5

LEMMA PositionNext == TypeOK /\ GroupInv /\ PositionInv /\ [Next]_vars => PositionInv'
<1>1. ASSUME PositionInv, UNCHANGED vars PROVE PositionInv'
    BY <1>1 DEF vars, group, disk, membership, runLoop, applyLoop, snapshots, PositionInv, DiskPositions, LoopPositions,
       ReadyPositions, QueueInv, StoppedIsEmpty, NoChange, BatchEnd, Up
<1>2. QED
    BY <1>1, ExtendEntries, PositionExtend, PositionRun, PositionApply, PositionOther DEF Next
-----------------------------------------------------------------------------
(* Membership.                                                             *)

\* The IDs a transaction records as removed.
LEMMA RemovedAfter ==
    ASSUME TypeOK, NEW ids \in SUBSET Ids, NEW n \in 0..MaxLog, retired' = persistRetired(ids, n)
    PROVE  removedIds' = IF n = 0 THEN removedIds ELSE removedIds \cup ids
<1>1. \A i \in Ids : retired'[i] = IF i \in ids /\ retired[i] = 0 THEN n ELSE retired[i]
    BY RetiredTyped
<1>2. \A i \in Ids : retired'[i] # 0 <=> retired[i] # 0 \/ (n # 0 /\ i \in ids)
    BY <1>1
<1>3. QED
    BY <1>2 DEF removedIds

LEMMA MembersInit == Init => MembersInv
<1> SUFFICES ASSUME Init PROVE MembersInv
    OBVIOUS
<1>1. /\ Len(log) = 0 /\ confs[1] = conf /\ gone[1] = {} /\ confIndex = 0 /\ phase = "select"
      /\ snap = NoSnapshot /\ building = NoSnapshot
    BY DEF Init
<1>2. removedIds = {}
    BY DEF Init, removedIds
<1>3. QED
    BY <1>1, <1>2, EmptyFields DEF MembersInv, Follows, NoNews

LEMMA MembersExtend ==
    ASSUME TypeOK, GroupInv, PositionInv, MembersInv, NEW e \in Entries, Extend(e)
    PROVE  MembersInv'
<1>num. Numbers
    BY Scalars
<1> USE <1>num DEF Numbers
<1>1. UNCHANGED <<conf, confIndex, retired, snap, building, phase, local, crashes>>
    BY DEF Extend, disk, membership, runLoop, applyLoop, snapshots, faults
<1>2. removedIds' = removedIds
    BY <1>1 DEF removedIds
<1>3. Len(log') = Len(log) + 1 /\ \A j \in 1..Len(log) : log'[j] = log[j]
    BY ExtendKeeps
<1>4. \A j \in 1..Len(log) + 1 : confs'[j] = confs[j] /\ gone'[j] = gone[j]
    BY ExtendKeeps
<1>5. gone'[Len(log) + 1] \subseteq gone'[Len(log) + 2]
    BY GroupExtend, <1>3 DEF GroupInv, GoneGrows
<1>6. SUFFICES ASSUME MaxReady = 1 \/ crashes = 0
               PROVE  /\ removedIds' \subseteq gone'[Len(log') + 1]
                      /\ Follows(conf, confIndex)'
                      /\ phase # "ready" \/ MaxReady = 1 => NoNews(confIndex)'
                      /\ phase = "ready" => Follows(local.conf, local.index)' /\ NoNews(local.index)'
    BY <1>1, <1>2 DEF MembersInv
<1>7. removedIds \subseteq gone'[Len(log) + 1]
    BY <1>4, <1>6 DEF MembersInv
<1>8. removedIds \subseteq gone'[Len(log) + 2]
    BY <1>5, <1>7
<1>9. ASSUME NEW n \in 0..Len(log), NEW c, Follows(c, n) PROVE c = confs'[n + 1] /\ gone'[n + 1] \subseteq removedIds'
    BY <1>2, <1>4, <1>9 DEF Follows
<1>10. ASSUME NEW n \in Nat, NoNews(n)
       PROVE  \A j \in 1..Len(log') : n < j /\ log'[j].kind = "conf" => removedIds' \subseteq gone'[j + 1]
  <2> SUFFICES ASSUME NEW j \in 1..Len(log'), n < j, log'[j].kind = "conf" PROVE removedIds' \subseteq gone'[j + 1]
    OBVIOUS
  <2>1. CASE j = Len(log) + 1
    BY <1>2, <1>8, <2>1
  <2>2. CASE j # Len(log) + 1
    BY <1>2, <1>3, <1>4, <1>10, <2>2 DEF NoNews
  <2>3. QED
    BY <2>1, <2>2
<1>11. confIndex \in 0..Len(log) /\ Follows(conf, confIndex)
    BY <1>6 DEF PositionInv, DiskPositions, MembersInv
<1>12. CASE phase = "ready"
  <2>1. local.index \in 0..Len(log) /\ Follows(local.conf, local.index) /\ NoNews(local.index)
    BY <1>6, <1>12, LocalFields DEF PositionInv, DiskPositions, ReadyPositions, MembersInv
  <2>2. Follows(local.conf, local.index)' /\ NoNews(local.index)'
    <3>1. \A j \in 1..Len(log') : local.index < j /\ log'[j].kind = "conf" => removedIds' \subseteq gone'[j + 1]
      BY <1>10, <2>1
    <3>2. local.conf = confs'[local.index + 1] /\ gone'[local.index + 1] \subseteq removedIds'
      BY <1>9, <2>1
    <3>3. QED
      BY <1>1, <3>1, <3>2 DEF Follows, NoNews
  <2>3. MaxReady = 1 => NoNews(confIndex)'
    BY <1>1, <1>6, <1>10, <1>11 DEF MembersInv, NoNews
  <2>4. QED
    BY <1>1, <1>2, <1>3, <1>8, <1>9, <1>11, <1>12, <2>2, <2>3 DEF Follows
<1>13. CASE phase # "ready"
  <2>1. NoNews(confIndex)'
    <3>1. NoNews(confIndex)
      BY <1>6, <1>13 DEF MembersInv
    <3>2. \A j \in 1..Len(log') : confIndex < j /\ log'[j].kind = "conf" => removedIds' \subseteq gone'[j + 1]
      BY <1>10, <1>11, <3>1
    <3>3. QED
      BY <1>1, <3>2 DEF NoNews
  <2>2. QED
    BY <1>1, <1>2, <1>3, <1>8, <1>9, <1>11, <1>13, <2>1 DEF Follows
<1>14. QED
    BY <1>12, <1>13

\* A change that a replica processes has the effect it has for the group,
\* although removals behind it may be recorded already.
LEMMA ChangeAgrees ==
    ASSUME TypeOK, GroupInv, PositionInv, MembersInv, MaxReady = 1 \/ crashes = 0,
           phase = "ready", ready.at <= ready.last, log[ready.at].kind = "conf", local.index < ready.at
    PROVE  /\ ready.at \in 1..Len(log) /\ local.conf = confs[ready.at]
           /\ gone[ready.at] \subseteq removedIds /\ removedIds \subseteq gone[ready.at + 1]
           /\ accepts(log[ready.at], local.conf, removedIds) <=> accepts(log[ready.at], confs[ready.at], gone[ready.at])
<1>num. Numbers
    BY Scalars
<1> USE <1>num DEF Numbers
<1> DEFINE n == ready.at
           e == log[n]
<1>1. n \in 1..Len(log) /\ local.index \in Nat
    BY ReadyFields, LocalFields DEF PositionInv, ReadyPositions, DiskPositions
<1>2. confs[n] = confs[local.index + 1] /\ gone[n] = gone[local.index + 1]
  <2>1. NoChange(local.index, n - 1)
    BY DEF PositionInv, ReadyPositions
  <2>2. local.index \in 0..Len(log) /\ n - 1 \in 0..Len(log) /\ local.index <= n - 1 /\ (n - 1) + 1 = n
    <3>1. local.index < n
      OBVIOUS
    <3> HIDE DEF n
    <3> QED
      BY <1>1, <3>1
  <2>3. QED
    BY <2>1, <2>2 DEF GroupInv, CommandsKeepMembers
<1>3. Follows(local.conf, local.index) /\ NoNews(local.index)
    BY DEF MembersInv
<1>4. local.conf = confs[n] /\ gone[n] \subseteq removedIds
    BY <1>2, <1>3 DEF Follows
<1>5. removedIds \subseteq gone[n + 1]
    BY <1>1, <1>3 DEF NoNews
<1>6. e \in Entries
    BY <1>1, GroupElements
<1>7. gone[n + 1] = nextGone(e, confs[n], gone[n])
    BY <1>1 DEF GroupInv, EntriesAct
<1>8. e.action = "add_learner" => removedIds = gone[n]
    BY <1>4, <1>5, <1>7 DEF nextGone
<1>9. accepts(e, local.conf, removedIds) <=> accepts(e, local.conf, gone[n])
    BY <1>6, <1>8, AcceptsSame
<1>10. QED
    BY <1>1, <1>4, <1>5, <1>9

LEMMA MembersApplyMembership ==
    ASSUME TypeOK, GroupInv, PositionInv, MembersInv, ApplyMembership
    PROVE  MembersInv'
<1>num. Numbers
    BY Scalars
<1> USE <1>num DEF Numbers
<1> DEFINE n == ready.at
           e == log[n]
           take == e.kind = "conf" /\ ~ n <= local.index
           drop == e.action = "remove" /\ accepts(e, local.conf, removedIds)
<1>1. /\ phase = "ready" /\ n <= ready.last
      /\ UNCHANGED <<log, confs, gone, conf, confIndex, snap, phase, building, crashes>>
    BY DEF ApplyMembership, group, applyLoop, snapshots, faults
<1>2. n \in 1..Len(log) /\ n \in 1..MaxLog /\ local.index \in Nat
    BY <1>1, ReadyFields, LocalFields DEF PositionInv, ReadyPositions, DiskPositions, GroupInv
<1>3. e \in Entries
    BY <1>2, GroupElements
<1>4. CASE ~ take
  <2>1. local' = local /\ retired' = retired
    BY <1>3, <1>4, EntryTyped DEF ApplyMembership, alreadyApplied
  <2>2. removedIds' = removedIds
    BY <2>1 DEF removedIds
  <2>3. QED
    BY <1>1, <2>1, <2>2 DEF MembersInv, Follows, NoNews
<1>5. CASE take
  <2>1. /\ local' = [conf |-> nextConf(e, local.conf, removedIds), index |-> n]
        /\ retired' = IF drop THEN persistRetired({e.id}, n) ELSE retired
    BY <1>5 DEF ApplyMembership, alreadyApplied
  <2>2. removedIds' = IF drop THEN removedIds \cup {e.id} ELSE removedIds
    <3>1. e.id \in Ids /\ n \in 0..MaxLog /\ n # 0
      BY <1>2, <1>3, <1>5, EntryTyped
    <3>2. CASE drop
      BY <2>1, <3>1, <3>2, RemovedAfter
    <3>3. CASE ~ drop
      BY <2>1, <3>3 DEF removedIds
    <3>4. QED
      BY <3>2, <3>3
  <2>3. removedIds \subseteq removedIds'
    BY <2>2
  <2>4. SUFFICES ASSUME MaxReady = 1 \/ crashes = 0
                 PROVE  /\ removedIds' \subseteq gone[Len(log) + 1]
                        /\ Follows(conf, confIndex)'
                        /\ MaxReady = 1 => NoNews(confIndex)'
                        /\ Follows(local.conf, local.index)' /\ NoNews(local.index)'
    BY <1>1, <2>3 DEF MembersInv
  <2>5. /\ local.conf = confs[n] /\ gone[n] \subseteq removedIds /\ removedIds \subseteq gone[n + 1]
        /\ accepts(e, local.conf, removedIds) <=> accepts(e, confs[n], gone[n])
    BY <1>1, <1>2, <1>5, <2>4, ChangeAgrees
  <2>6. confs[n + 1] = nextConf(e, confs[n], gone[n]) /\ gone[n + 1] = nextGone(e, confs[n], gone[n])
    BY <1>2 DEF GroupInv, EntriesAct
  <2>7. nextConf(e, local.conf, removedIds) = confs[n + 1]
    BY <2>5, <2>6 DEF nextConf
  <2>8. removedIds' = gone[n + 1]
    <3>1. drop <=> (e.action = "remove" /\ accepts(e, confs[n], gone[n]))
      BY <2>5
    <3>2. CASE drop
      <4>1. gone[n + 1] = gone[n] \cup {e.id}
        BY <1>5, <2>6, <3>1, <3>2 DEF nextGone
      <4>2. QED
        BY <2>2, <2>5, <3>2, <4>1
    <3>3. CASE ~ drop
      <4>1. gone[n + 1] = gone[n]
        BY <1>5, <2>6, <3>1, <3>3 DEF nextGone
      <4>2. removedIds = gone[n]
        BY <2>5, <4>1
      <4>3. removedIds' = removedIds
        BY <2>2, <3>3
      <4>4. QED
        BY <4>1, <4>2, <4>3
    <3>4. QED
      BY <3>2, <3>3
  <2>9. \A j \in n..Len(log) : gone[n + 1] \subseteq gone[j + 1]
    <3>1. \A j \in n..Len(log) : n + 1 \in 1..Len(log) + 1 /\ j + 1 \in 1..Len(log) + 1 /\ n + 1 <= j + 1
      BY <1>2
    <3>2. QED
      BY <3>1 DEF GroupInv, GoneGrows
  <2>10. Follows(local.conf, local.index)'
    BY <1>1, <2>1, <2>7, <2>8 DEF Follows
  <2>11. NoNews(local.index)'
    BY <1>1, <1>2, <2>1, <2>8, <2>9 DEF NoNews
  <2>12. removedIds' \subseteq gone[Len(log) + 1]
    BY <1>2, <2>8, <2>9
  <2>13. Follows(conf, confIndex)'
    BY <1>1, <2>3, <2>4 DEF MembersInv, Follows
  <2>14. MaxReady = 1 => NoNews(confIndex)'
    <3>1. MaxReady = 1 => n = delivered + 1
      BY <1>1, <1>2, ReadyFields DEF PositionInv, ReadyPositions
    <3>2. NoChange(confIndex, delivered)
      BY <1>1 DEF PositionInv, LoopPositions, Up
    <3>3. MaxReady = 1 => \A j \in 1..Len(log) : confIndex < j /\ log[j].kind = "conf" => j >= n
      BY <1>2, <3>1, <3>2 DEF NoChange
    <3>4. QED
      BY <1>1, <1>2, <2>8, <2>9, <3>3 DEF NoNews
  <2>15. QED
    BY <2>10, <2>11, <2>12, <2>13, <2>14
<1>6. QED
    BY <1>4, <1>5

\* Steps of the apply loop and of a build leave the membership alone.
LEMMA MembersFrame ==
    ASSUME TypeOK, MembersInv,
           UNCHANGED <<log, confs, gone, conf, confIndex, retired, local, phase, crashes>>,
           snap'.retired \subseteq removedIds, building'.retired \subseteq removedIds
    PROVE  MembersInv'
<1>1. removedIds' = removedIds
    BY DEF removedIds
<1>2. QED
    BY <1>1 DEF MembersInv, Follows, NoNews

LEMMA CaptureRetired == TypeOK => capture.retired \subseteq removedIds
BY CaptureTyped DEF retiredBy, removedIds

LEMMA MembersRun ==
    ASSUME TypeOK, GroupInv, PositionInv, MembersInv, RunLoop
    PROVE  MembersInv'
<1>1. ASSUME NEW n \in 1..MaxLog, SaveReady(n) PROVE MembersInv'
  <2>1. /\ phase = "select" /\ phase' = "ready" /\ local' = [conf |-> conf, index |-> confIndex]
        /\ UNCHANGED <<log, confs, gone, conf, confIndex, retired, snap, building, crashes>>
    BY <1>1 DEF SaveReady, group, membership, applyLoop, snapshots, faults
  <2>2. removedIds' = removedIds /\ local'.conf = conf /\ local'.index = confIndex
    BY <2>1 DEF removedIds
  <2>3. QED
    BY <2>1, <2>2 DEF MembersInv, Follows, NoNews
<1>2. CASE FinishReady
  <2>1. /\ phase = "ready" /\ phase' = "select" /\ conf' = local.conf /\ confIndex' = local.index
        /\ UNCHANGED <<log, confs, gone, retired, snap, building, crashes>>
    BY <1>2 DEF FinishReady, group, applyLoop, snapshots, faults
  <2>2. removedIds' = removedIds
    BY <2>1 DEF removedIds
  <2>3. QED
    BY <2>1, <2>2 DEF MembersInv, Follows, NoNews
<1>3. CASE HandOver
  <2>1. UNCHANGED <<log, confs, gone, conf, confIndex, retired, local, phase, crashes, snap, building>>
    BY <1>3 DEF HandOver, group, disk, membership, snapshots, faults
  <2>2. QED
    BY <2>1, MembersFrame DEF MembersInv
<1>4. QED
    BY <1>1, <1>2, <1>3, MembersApplyMembership DEF RunLoop

LEMMA MembersApply ==
    ASSUME TypeOK, MembersInv, ApplyLoop
    PROVE  MembersInv'
<1> USE DEF group, disk, membership, runLoop, snapshots, applyLoop, faults
<1>1. UNCHANGED <<log, confs, gone, conf, confIndex, retired, local, phase, crashes>>
    BY DEF ApplyLoop, RestoreSnapshot, ApplyEntry, EndBatch, SaveSnapshot, RetrySnapshot, ReadEntries
<1>2. snap' \in {snap, building}
    BY DEF ApplyLoop, RestoreSnapshot, ApplyEntry, EndBatch, SaveSnapshot, RetrySnapshot, ReadEntries
<1>3. building' \in {building, capture, NoSnapshot}
    BY BuildCases DEF ApplyLoop, RestoreSnapshot, ApplyEntry, EndBatch, SaveSnapshot, RetrySnapshot, ReadEntries
<1>4. snap.retired \subseteq removedIds /\ building.retired \subseteq removedIds /\ NoSnapshot.retired \subseteq removedIds
    BY EmptyFields DEF MembersInv
<1>5. snap'.retired \subseteq removedIds /\ building'.retired \subseteq removedIds
    BY <1>2, <1>3, <1>4, CaptureRetired
<1>6. QED
    BY <1>1, <1>5, MembersFrame

LEMMA MembersOther ==
    ASSUME TypeOK, GroupInv, PositionInv, MembersInv
    PROVE  /\ \A i \in 1..MaxLog : SaveReceivedSnapshot(i) \/ SnapshotProbe(i) => MembersInv'
           /\ SnapshotFails \/ Crash \/ Open => MembersInv'
<1>num. Numbers
    BY Scalars
<1> USE <1>num DEF Numbers
<1> USE DEF group, disk, membership, runLoop, snapshots, applyLoop, faults
<1>1. ASSUME NEW i \in 1..MaxLog, SaveReceivedSnapshot(i) PROVE MembersInv'
  <2>1. /\ phase = "select" /\ phase' = "select" /\ i > commit /\ i <= Len(log) /\ snap' = snapshotAt(i)
        /\ conf' = confs[i + 1] /\ confIndex' = i /\ retired' = persistRetired(gone[i + 1], i)
        /\ UNCHANGED <<log, confs, gone, local, building, crashes>>
    BY <1>1 DEF SaveReceivedSnapshot
  <2>2. snap'.retired = gone[i + 1]
    BY <2>1 DEF snapshotAt
  <2>3. removedIds' = removedIds \cup gone[i + 1]
    <3>1. gone[i + 1] \in SUBSET Ids /\ i \in 0..MaxLog /\ i # 0
      BY <2>1, GroupElements
    <3>2. QED
      BY <2>1, <3>1, RemovedAfter
  <2>4. \A j \in i..Len(log) : gone[i + 1] \subseteq gone[j + 1]
    <3>1. \A j \in i..Len(log) : i + 1 \in 1..Len(log) + 1 /\ j + 1 \in 1..Len(log) + 1 /\ i + 1 <= j + 1
      BY <2>1
    <3>2. QED
      BY <3>1 DEF GroupInv, GoneGrows
  <2>5. SUFFICES ASSUME MaxReady = 1 \/ crashes = 0
                 PROVE  removedIds' \subseteq gone[Len(log) + 1] /\ Follows(conf, confIndex)' /\ NoNews(confIndex)'
    BY <2>1, <2>2, <2>3 DEF MembersInv
  <2>6. removedIds \subseteq gone[Len(log) + 1] /\ NoNews(confIndex)
    BY <2>1, <2>5 DEF MembersInv
  <2>7. removedIds' \subseteq gone[Len(log) + 1]
    BY <2>1, <2>3, <2>4, <2>6
  <2>8. Follows(conf, confIndex)'
    BY <2>1, <2>3 DEF Follows
  <2>9. NoNews(confIndex)'
    <3> SUFFICES ASSUME NEW j \in 1..Len(log), i < j, log[j].kind = "conf" PROVE removedIds' \subseteq gone[j + 1]
      BY <2>1 DEF NoNews
    <3>1. confIndex < j
      BY <2>1 DEF PositionInv, DiskPositions
    <3>2. removedIds \subseteq gone[j + 1]
      BY <2>6, <3>1 DEF NoNews
    <3>3. QED
      BY <2>3, <2>4, <3>2
  <2>10. QED
    BY <2>7, <2>8, <2>9
<1>2. ASSUME NEW i \in 1..MaxLog, SnapshotProbe(i) PROVE MembersInv'
  <2>1. /\ UNCHANGED <<log, confs, gone, conf, confIndex, retired, local, phase, crashes, snap>>
        /\ building' \in {building, capture}
    BY <1>2, BuildCases DEF SnapshotProbe
  <2>2. snap.retired \subseteq removedIds /\ building.retired \subseteq removedIds
    BY DEF MembersInv
  <2>3. QED
    BY <2>1, <2>2, MembersFrame, CaptureRetired
<1>3. CASE SnapshotFails
  <2>1. /\ UNCHANGED <<log, confs, gone, conf, confIndex, retired, local, phase, crashes, snap>>
        /\ building' = NoSnapshot
    BY <1>3 DEF SnapshotFails
  <2>2. snap.retired \subseteq removedIds
    BY DEF MembersInv
  <2>3. QED
    BY <2>1, <2>2, MembersFrame, EmptyFields
<1>4. CASE Crash
  <2>1. /\ UNCHANGED <<log, confs, gone, conf, confIndex, retired, snap>>
        /\ phase' = "down" /\ crashes' = crashes + 1 /\ building' = NoSnapshot
    BY <1>4 DEF Crash
  <2>2. removedIds' = removedIds
    BY <2>1 DEF removedIds
  <2>3. crashes' # 0
    BY <2>1 DEF TypeOK, FaultsTyped
  <2>4. QED
    BY <2>1, <2>2, <2>3, EmptyFields DEF MembersInv, Follows, NoNews
<1>5. CASE Open
  <2>1. /\ phase = "down" /\ phase' = "select" /\ retired' = persistRetired(snap.retired, snap.index)
        /\ UNCHANGED <<log, confs, gone, conf, confIndex, snap, building, local, crashes>>
    BY <1>5 DEF Open
  <2>2. snap.retired \subseteq removedIds
    BY DEF MembersInv
  <2>3. removedIds' = removedIds
    BY <2>1, <2>2, SnapFields, RemovedAfter
  <2>4. QED
    BY <2>1, <2>3 DEF MembersInv, Follows, NoNews
<1>6. QED
    BY <1>1, <1>2, <1>3, <1>4, <1>5

LEMMA MembersNext == TypeOK /\ GroupInv /\ PositionInv /\ MembersInv /\ [Next]_vars => MembersInv'
<1>1. ASSUME TypeOK, MembersInv, UNCHANGED vars PROVE MembersInv'
  <2>1. UNCHANGED <<log, confs, gone, conf, confIndex, retired, local, phase, crashes, snap, building>>
    BY <1>1 DEF vars, group, disk, membership, runLoop, applyLoop, snapshots, faults
  <2>2. QED
    BY <1>1, <2>1, MembersFrame DEF MembersInv
<1>2. QED
    BY <1>1, ExtendEntries, MembersExtend, MembersRun, MembersApply, MembersOther DEF Next
-----------------------------------------------------------------------------
(* Snapshots.                                                              *)

LEMMA SnapshotsInit == Init => SnapshotsInv
<1> SUFFICES ASSUME Init PROVE SnapshotsInv
    OBVIOUS
<1>1. /\ phase = "select" /\ confIndex = 0 /\ delivered = 0 /\ applied = 0 /\ gone[1] = {} /\ lastConf = confs[1]
      /\ pending = NoBatch /\ batch = NoBatch /\ snap = NoSnapshot /\ building = NoSnapshot
      /\ \A i \in Ids : retired[i] = 0
    BY DEF Init
<1>2. RemovalsDated
    BY <1>1, EmptyFields DEF RemovalsDated, Processed
<1>3. ConfsDated
    BY <1>1 DEF ConfsDated
<1>4. QED
    BY <1>1, <1>2, <1>3, EmptyFields DEF SnapshotsInv, Up

\* The run loop has processed at least what the application was given, and
\* nothing behind the log.
LEMMA ProcessedRange ==
    ASSUME TypeOK, PositionInv, Up
    PROVE  /\ Processed \in Nat /\ delivered <= Processed /\ Processed <= Len(log) /\ Processed <= commit
           /\ applied <= Processed /\ snap.index <= Processed
<1>num. Numbers
    BY Scalars
<1> USE <1>num DEF Numbers
<1>1. delivered <= commit /\ commit <= Len(log) /\ applied <= delivered /\ snap.index <= delivered
    BY DEF PositionInv, DiskPositions, LoopPositions
<1>2. CASE phase = "ready"
  <2>1. Processed = ready.at - 1 /\ ready.at \in Nat /\ ready.last \in Nat
    BY <1>2, ReadyFields DEF Processed
  <2>2. delivered < ready.at /\ ready.at <= ready.last + 1 /\ ready.last <= commit
    BY <1>2 DEF PositionInv, ReadyPositions
  <2>3. snap.index \in Nat
    BY SnapFields
  <2>4. QED
    BY <1>1, <2>1, <2>2, <2>3
<1>3. CASE phase # "ready"
    BY <1>1, <1>3 DEF Processed
<1>4. QED
    BY <1>2, <1>3

\* Later sets of removed IDs contain the earlier ones.
LEMMA GoneLater ==
    ASSUME TypeOK, GroupInv, NEW i \in Nat, NEW j \in Nat, i <= j, j <= Len(log)
    PROVE  gone[i + 1] \subseteq gone[j + 1]
<1>1. i + 1 \in 1..Len(log) + 1 /\ j + 1 \in 1..Len(log) + 1 /\ i + 1 <= j + 1
    BY GroupElements
<1>2. QED
    BY <1>1 DEF GroupInv, GoneGrows

\* What the application captures at its position is what the group has there.
LEMMA CaptureFaithful ==
    ASSUME TypeOK, GroupInv, PositionInv, SnapshotsInv, crashes = 0,
           applied >= snap.index, lastConf = confs[applied + 1]
    PROVE  Faithful(capture)
<1>num. Numbers
    BY Scalars
<1> USE <1>num DEF Numbers
<1>1. Up /\ RemovalsDated
    BY DEF SnapshotsInv
<1>2. Processed \in Nat /\ applied <= Processed /\ Processed <= Len(log)
    BY <1>1, ProcessedRange
<1>3. ASSUME NEW i \in Ids, retired[i] # 0, retired[i] <= applied PROVE i \in gone[applied + 1]
  <2>1. retired[i] \in Nat /\ i \in gone[retired[i] + 1]
    BY <1>1, <1>3 DEF RemovalsDated, TypeOK, DiskTyped
  <2>2. QED
    BY <1>2, <1>3, <2>1, GoneLater
<1>4. ASSUME NEW i \in gone[applied + 1] PROVE i \in Ids /\ retired[i] # 0 /\ retired[i] <= applied
  <2>1. applied \in snap.index..Processed
    BY <1>2, SnapFields
  <2>2. i \in Ids
    BY <1>2, GroupElements
  <2>3. QED
    BY <1>1, <2>1, <2>2 DEF RemovalsDated
<1>5. retiredBy(applied) = gone[applied + 1]
    BY <1>3, <1>4 DEF retiredBy
<1>6. QED
    BY <1>5, CaptureTyped DEF Faithful

LEMMA SnapshotsFrame ==
    ASSUME TypeOK, SnapshotsInv,
           UNCHANGED <<log, confs, gone, confIndex, retired, phase, delivered, ready, local, crashes>>,
           snap'.index \in Nat, snap'.index >= snap.index,
           crashes = 0 => /\ ConfsDated' /\ (snap'.index > 0 => Faithful(snap)')
                          /\ building' # NoSnapshot /\ building'.index >= snap'.index => Faithful(building)'
    PROVE  SnapshotsInv'
<1> SUFFICES ASSUME crashes = 0 PROVE SnapshotsInv'
    BY DEF SnapshotsInv
<1>1. RemovalsDated /\ Up
    BY DEF SnapshotsInv
<1>2. Processed' = Processed
    BY DEF Processed
<1>3. RemovalsDated'
  <2>1. \A n \in snap'.index..Processed' : n \in snap.index..Processed
    BY <1>2, SnapFields, ReplicaAssumption
  <2>2. QED
    BY <1>1, <1>2, <2>1 DEF RemovalsDated
<1>4. QED
    BY <1>3 DEF SnapshotsInv, Up

LEMMA BatchEndTyped == TypeOK => BatchEnd(batch) \in Nat /\ BatchEnd(pending) \in Nat
<1> SUFFICES ASSUME TypeOK PROVE BatchEnd(batch) \in Nat /\ BatchEnd(pending) \in Nat
    OBVIOUS
<1>1. BatchEnd(batch) \in Nat
    BY QueueTyped, GreaterFacts DEF BatchEnd
<1>2. BatchEnd(pending) \in Nat
    BY QueueTyped, GreaterFacts DEF BatchEnd
<1>3. QED
    BY <1>1, <1>2

\* Both batches end within the log.
LEMMA BatchEnds ==
    ASSUME TypeOK, PositionInv, Up
    PROVE  BatchEnd(batch) <= delivered /\ BatchEnd(pending) <= delivered /\ delivered <= Len(log)
<1>1. delivered = Greater(Greater(applied, BatchEnd(batch)), BatchEnd(pending))
    BY DEF PositionInv, QueueInv
<1>2. Greater(applied, BatchEnd(batch)) \in Nat /\ BatchEnd(batch) <= Greater(applied, BatchEnd(batch))
    BY BatchEndTyped, QueueTyped, GreaterFacts
<1>3. BatchEnd(batch) <= delivered /\ BatchEnd(pending) <= delivered
    BY <1>1, <1>2, BatchEndTyped, QueueTyped, GreaterFacts
<1>4. delivered <= Len(log)
    BY Scalars DEF Numbers, PositionInv, LoopPositions, DiskPositions
<1>5. QED
    BY <1>3, <1>4

LEMMA SnapshotsExtend ==
    ASSUME TypeOK, GroupInv, PositionInv, SnapshotsInv, NEW e \in Entries, Extend(e)
    PROVE  SnapshotsInv'
<1>num. Numbers
    BY Scalars
<1> USE <1>num DEF Numbers
<1>1. UNCHANGED <<confIndex, retired, snap, applied, phase, delivered, ready, local, pending, batch, lastConf,
                  building, crashes>>
    BY DEF Extend, disk, membership, runLoop, applyLoop, snapshots, faults
<1> SUFFICES ASSUME crashes = 0 PROVE SnapshotsInv'
    BY <1>1 DEF SnapshotsInv
<1>2. \A j \in 1..Len(log) + 1 : confs'[j] = confs[j] /\ gone'[j] = gone[j]
    BY ExtendKeeps
<1>3. Up /\ RemovalsDated /\ ConfsDated
    BY DEF SnapshotsInv
<1>4. Processed' = Processed /\ Processed \in Nat /\ Processed <= Len(log)
    BY <1>1, <1>3, ProcessedRange DEF Processed
<1>5. RemovalsDated'
  <2>1. \A i \in Ids : retired[i] \in Nat /\ retired[i] <= Processed /\ (retired[i] # 0 => i \in gone[retired[i] + 1])
    BY <1>3 DEF RemovalsDated, TypeOK, DiskTyped
  <2>2. \A i \in Ids : retired[i] # 0 => i \in gone'[retired[i] + 1]
    BY <1>2, <1>4, <2>1
  <2>3. \A n \in snap.index..Processed : \A i \in gone'[n + 1] : retired[i] # 0 /\ retired[i] <= n
    BY <1>2, <1>3, <1>4, SnapFields DEF RemovalsDated
  <2>4. QED
    BY <1>1, <1>4, <2>1, <2>2, <2>3 DEF RemovalsDated
<1>6. ConfsDated'
  <2>1. BatchEnd(batch) \in 0..Len(log) /\ BatchEnd(pending) \in 0..Len(log) /\ applied \in 0..Len(log)
    BY <1>3, BatchEnds, BatchEndTyped DEF PositionInv, DiskPositions
  <2>2. /\ confs'[BatchEnd(batch) + 1] = confs[BatchEnd(batch) + 1]
        /\ confs'[BatchEnd(pending) + 1] = confs[BatchEnd(pending) + 1]
        /\ confs'[applied + 1] = confs[applied + 1]
    BY <1>2, <2>1
  <2>3. BatchEnd(batch)' = BatchEnd(batch) /\ BatchEnd(pending)' = BatchEnd(pending)
    BY <1>1 DEF BatchEnd
  <2>4. QED
    BY <1>1, <1>3, <2>2, <2>3 DEF ConfsDated
<1>7. snap.index \in 0..Len(log) /\ building.index \in 0..Len(log)
    BY <1>3, SnapFields, BuildingFields DEF PositionInv, DiskPositions, LoopPositions
<1>8. /\ confs'[snap.index + 1] = confs[snap.index + 1] /\ gone'[snap.index + 1] = gone[snap.index + 1]
      /\ confs'[building.index + 1] = confs[building.index + 1]
      /\ gone'[building.index + 1] = gone[building.index + 1]
    BY <1>2, <1>7
<1>9. QED
    BY <1>1, <1>5, <1>6, <1>8 DEF SnapshotsInv, Faithful, Up

LEMMA SnapshotsApplyMembership ==
    ASSUME TypeOK, GroupInv, PositionInv, MembersInv, SnapshotsInv, ApplyMembership
    PROVE  SnapshotsInv'
<1>num. Numbers
    BY Scalars
<1> USE <1>num DEF Numbers
<1> DEFINE n == ready.at
           e == log[n]
           drop == e.action = "remove" /\ accepts(e, local.conf, removedIds)
<1>1. /\ phase = "ready" /\ n <= ready.last /\ phase' = "ready"
      /\ UNCHANGED <<log, confs, gone, confIndex, snap, applied, delivered, pending, batch, lastConf,
                     building, crashes>>
    BY DEF ApplyMembership, group, applyLoop, snapshots, faults
<1> SUFFICES ASSUME crashes = 0 PROVE SnapshotsInv'
    BY <1>1 DEF SnapshotsInv
<1>2. RemovalsDated /\ ConfsDated /\ local.index < n /\ Up
    BY <1>1 DEF SnapshotsInv
<1>3. n \in 1..Len(log) /\ n \in 1..MaxLog /\ local.index \in Nat
    BY <1>1, ReadyFields, LocalFields DEF PositionInv, ReadyPositions, DiskPositions, GroupInv
<1>4. e \in Entries /\ gone[n + 1] = nextGone(e, confs[n], gone[n])
    BY <1>3, GroupElements DEF GroupInv, EntriesAct
<1>5. ready'.at = n + 1 /\ Processed = n - 1 /\ Processed' = n
  <2>1. ready'.at = n + 1
    BY DEF ApplyMembership, TypeOK, RunTyped
  <2>2. QED
    BY <1>1, <1>3, <2>1 DEF Processed
<1>6. \A i \in Ids : retired[i] \in Nat
    BY DEF TypeOK, DiskTyped
<1>7. n - 1 \in snap.index..Processed
    BY <1>2, <1>3, <1>5, SnapFields, ProcessedRange
<1>8. \A i \in gone[n] : i \in Ids /\ retired[i] # 0 /\ retired[i] <= n - 1
  <2>1. (n - 1) + 1 = n /\ gone[n] \in SUBSET Ids
    BY <1>3, GroupElements
  <2>2. QED
    BY <1>2, <1>7, <2>1 DEF RemovalsDated
<1>9. \/ retired' = retired /\ gone[n + 1] = gone[n]
      \/ /\ gone[n + 1] = gone[n] \cup {e.id} /\ e.id \in Ids
         /\ \A i \in Ids : retired'[i] = IF i = e.id /\ retired[i] = 0 THEN n ELSE retired[i]
  <2>1. CASE e.kind = "data"
    <3>1. retired' = retired
      BY <2>1 DEF ApplyMembership
    <3>2. QED
      BY <1>4, <2>1, <3>1 DEF nextGone
  <2>2. CASE e.kind = "conf"
    <3>1. retired' = IF drop THEN persistRetired({e.id}, n) ELSE retired
      BY <1>2, <1>3, <2>2 DEF ApplyMembership, alreadyApplied
    <3>2. accepts(e, local.conf, removedIds) <=> accepts(e, confs[n], gone[n])
      BY <1>1, <1>2, <2>2, ChangeAgrees
    <3>3. e.id \in Ids
      BY <1>4, <2>2, EntryTyped
    <3>4. CASE drop
      <4>1. gone[n + 1] = gone[n] \cup {e.id}
        BY <1>4, <2>2, <3>2, <3>4 DEF nextGone
      <4>2. {e.id} \in SUBSET Ids /\ n \in 0..MaxLog
        BY <1>3, <3>3
      <4>3. \A i \in Ids : retired'[i] = IF i = e.id /\ retired[i] = 0 THEN n ELSE retired[i]
        <5>1. retired' = persistRetired({e.id}, n)
          BY <3>1, <3>4
        <5>2. \A i \in Ids : persistRetired({e.id}, n)[i] =
                             IF i \in {e.id} /\ retired[i] = 0 THEN n ELSE retired[i]
          BY <4>2, RetiredTyped
        <5>3. QED
          BY <5>1, <5>2
      <4>4. QED
        BY <3>3, <4>1, <4>3
    <3>5. CASE ~ drop
      <4>1. gone[n + 1] = gone[n]
        BY <1>4, <2>2, <3>2, <3>5 DEF nextGone
      <4>2. QED
        BY <3>1, <3>5, <4>1
    <3>6. QED
      BY <3>4, <3>5
  <2>3. QED
    BY <1>4, <2>1, <2>2, EntryTyped
<1> HIDE DEF n, e
<1>10. \A i \in Ids : retired[i] # 0 => retired'[i] = retired[i]
    BY <1>9
<1>11. \A i \in Ids : retired'[i] <= n /\ (retired'[i] # 0 => i \in gone[retired'[i] + 1])
  <2> SUFFICES ASSUME NEW i \in Ids PROVE retired'[i] <= n /\ (retired'[i] # 0 => i \in gone[retired'[i] + 1])
    OBVIOUS
  <2>1. retired[i] <= n - 1 /\ (retired[i] # 0 => i \in gone[retired[i] + 1])
    BY <1>2, <1>5 DEF RemovalsDated
  <2>2. CASE retired'[i] = retired[i]
    BY <1>3, <1>6, <2>1, <2>2
  <2>3. CASE retired'[i] # retired[i]
    BY <1>3, <1>9, <2>3
  <2>4. QED
    BY <2>2, <2>3
<1>12. \A k \in snap.index..n : \A i \in gone[k + 1] : retired'[i] # 0 /\ retired'[i] <= k
  <2> SUFFICES ASSUME NEW k \in snap.index..n, NEW i \in gone[k + 1] PROVE retired'[i] # 0 /\ retired'[i] <= k
    OBVIOUS
  <2>1. k \in 0..n
    BY SnapFields, <1>3
  <2>2. CASE k # n
    <3>1. k \in snap.index..Processed /\ i \in Ids
      BY <1>3, <1>5, <2>1, <2>2, GroupElements, SnapFields
    <3>2. QED
      BY <1>2, <1>10, <3>1 DEF RemovalsDated
  <2>3. CASE k = n /\ i \in gone[n]
    BY <1>3, <1>6, <1>8, <1>10, <2>3
  <2>4. CASE k = n /\ i \notin gone[n]
    <3>1. retired'[i] \in {n, retired[i]} /\ retired'[i] # 0
      BY <1>3, <1>9, <2>4
    <3>2. QED
      BY <1>3, <1>11, <2>4, <3>1, <1>9
  <2>5. QED
    BY <2>2, <2>3, <2>4
<1>13. RemovalsDated'
    BY <1>1, <1>5, <1>11, <1>12 DEF RemovalsDated
<1>14. ConfsDated'
    BY <1>1, <1>2 DEF ConfsDated, BatchEnd
<1>15. local'.index < n + 1
    BY <1>2, <1>3 DEF ApplyMembership, n
<1>16. QED
    BY <1>1, <1>5, <1>13, <1>14, <1>15 DEF SnapshotsInv, Up, Faithful

LEMMA SnapshotsRun ==
    ASSUME TypeOK, GroupInv, PositionInv, MembersInv, SnapshotsInv, RunLoop
    PROVE  SnapshotsInv'
<1>num. Numbers
    BY Scalars
<1> USE <1>num DEF Numbers
<1>1. ASSUME NEW n \in 1..MaxLog, SaveReady(n) PROVE SnapshotsInv'
  <2>1. /\ phase = "select" /\ phase' = "ready"
        /\ ready' = [at |-> delivered + 1, last |-> n, changed |-> FALSE]
        /\ local' = [conf |-> conf, index |-> confIndex]
        /\ UNCHANGED <<log, confs, gone, confIndex, retired, snap, applied, delivered, pending, batch, lastConf,
                       building, crashes>>
    BY <1>1 DEF SaveReady, group, membership, applyLoop, snapshots, faults
  <2>2. ready'.at = delivered + 1 /\ local'.index = confIndex
    BY <2>1
  <2>3. Processed' = Processed
    BY <2>1, <2>2 DEF Processed
  <2>4. RemovalsDated => RemovalsDated'
    BY <2>1, <2>3 DEF RemovalsDated
  <2>5. ConfsDated => ConfsDated'
    BY <2>1 DEF ConfsDated, BatchEnd
  <2>6. QED
    BY <2>1, <2>2, <2>4, <2>5 DEF SnapshotsInv, Faithful, Up
<1>2. CASE FinishReady
  <2>1. /\ phase = "ready" /\ phase' = "select" /\ ready.at > ready.last
        /\ confIndex' = local.index /\ delivered' = ready.last
        /\ UNCHANGED <<log, confs, gone, retired, snap, applied, batch, lastConf, building, crashes>>
    BY <1>2 DEF FinishReady, group, applyLoop, snapshots, faults
  <2>2. pending'.conf = local.conf /\ pending'.last = ready.last
    <3>1. pending' = [pending EXCEPT !.first = mergedFirst, !.last = ready.last, !.conf = local.conf,
                                     !.changed = @ \/ ready.changed]
      BY <1>2 DEF FinishReady
    <3>2. DOMAIN pending = {"snapshot", "first", "last", "conf", "changed", "read"}
      BY DEF TypeOK, RunTyped, BatchType
    <3> QED
      BY <3>1, <3>2
  <2>3. ready.last \in 1..Len(log) /\ ready.at = ready.last + 1 /\ local.index \in Nat
    BY <2>1, ReadyFields, LocalFields DEF PositionInv, ReadyPositions, DiskPositions
  <2> SUFFICES ASSUME crashes = 0 PROVE SnapshotsInv'
    BY <2>1 DEF SnapshotsInv
  <2>4. RemovalsDated /\ ConfsDated /\ local.index <= ready.last
    BY <2>1, <2>3 DEF SnapshotsInv
  <2>5. Processed' = Processed
    BY <2>1, <2>3 DEF Processed
  <2>6. RemovalsDated'
    BY <2>1, <2>4, <2>5 DEF RemovalsDated
  <2>7. delivered' = BatchEnd(pending)'
    <3>1. PositionInv' /\ Up'
      BY <2>1, PositionRun DEF Up
    <3>2. pending' # NoBatch
      BY <2>2, <2>3, EmptyFields
    <3>3. QED
      BY <3>1, <3>2 DEF PositionInv, QueueInv
  <2>8. local.conf = confs[ready.last + 1]
    <3>1. NoChange(local.index, ready.last)
      BY <2>1, <2>3 DEF PositionInv, ReadyPositions
    <3>2. Follows(local.conf, local.index)
      BY <2>1 DEF MembersInv
    <3>3. local.index \in 0..Len(log) /\ ready.last \in 0..Len(log)
      BY <2>3, <2>4
    <3>4. confs[ready.last + 1] = confs[local.index + 1]
      BY <2>4, <3>1, <3>3 DEF GroupInv, CommandsKeepMembers
    <3>5. QED
      BY <3>2, <3>4 DEF Follows
  <2>9. ConfsDated'
    <3>1. pending'.conf = confs'[BatchEnd(pending)' + 1]
      BY <2>1, <2>2, <2>7, <2>8
    <3>2. BatchEnd(batch)' = BatchEnd(batch)
      BY <2>1 DEF BatchEnd
    <3>3. QED
      BY <2>1, <2>4, <3>1, <3>2 DEF ConfsDated
  <2>10. QED
    BY <2>1, <2>4, <2>6, <2>9 DEF SnapshotsInv, Faithful, Up
<1>3. CASE HandOver
  <2>1. /\ pending # NoBatch /\ batch' = pending /\ pending' = NoBatch /\ lastConf' = pending.conf
        /\ UNCHANGED <<log, confs, gone, confIndex, retired, phase, delivered, ready, local, crashes, snap, applied,
                       building>>
    BY <1>3 DEF HandOver, group, disk, membership, snapshots, faults
  <2>2. ConfsDated => ConfsDated'
    BY <2>1 DEF ConfsDated, BatchEnd
  <2>3. snap'.index \in Nat /\ snap'.index >= snap.index
    BY <2>1, SnapFields
  <2>4. crashes = 0 => /\ ConfsDated' /\ (snap'.index > 0 => Faithful(snap)')
                       /\ building' # NoSnapshot /\ building'.index >= snap'.index => Faithful(building)'
    BY <2>1, <2>2 DEF SnapshotsInv, Faithful
  <2>5. QED
    BY <2>1, <2>3, <2>4, SnapshotsFrame
<1>4. QED
    BY <1>1, <1>2, <1>3, SnapshotsApplyMembership DEF RunLoop

\* Once the batch has ended the apply loop has the configuration of its
\* position, unless a received snapshot waits.
LEMMA EndsDated ==
    ASSUME TypeOK, PositionInv, SnapshotsInv, EndBatch, crashes = 0, applied >= snap.index
    PROVE  lastConf = confs[applied + 1]
<1>1. /\ Up /\ batch # NoBatch /\ batch.snapshot <= applied
      /\ Current > batch.last \/ Current <= snap.index
    BY DEF EndBatch, Continuing, compacted, Up
<1>2. Current = applied + 1
    BY <1>1, QueueTyped DEF Current, PositionInv, QueueInv, Greater
<1>3. batch.last <= applied
    BY <1>1, <1>2, QueueTyped
<1>4. applied <= BatchEnd(batch)
    BY <1>1 DEF PositionInv, QueueInv
<1>5. BatchEnd(batch) = applied
    BY <1>1, <1>3, <1>4, QueueTyped DEF BatchEnd, Greater
<1>6. QED
    BY <1>1, <1>5 DEF SnapshotsInv, ConfsDated

LEMMA SnapshotsApply ==
    ASSUME TypeOK, GroupInv, PositionInv, SnapshotsInv, ApplyLoop
    PROVE  SnapshotsInv'
<1>num. Numbers
    BY Scalars
<1> USE <1>num DEF Numbers
<1> DEFINE frame == UNCHANGED <<log, confs, gone, confIndex, retired, phase, delivered, ready, local, crashes>>
           goal == crashes = 0 => /\ ConfsDated' /\ (snap'.index > 0 => Faithful(snap)')
                                  /\ building' # NoSnapshot /\ building'.index >= snap'.index => Faithful(building)'
<1>1. frame
    BY DEF ApplyLoop, RestoreSnapshot, ApplyEntry, EndBatch, SaveSnapshot, RetrySnapshot, ReadEntries,
       group, disk, membership, runLoop, applyLoop, snapshots, faults
<1>2. ASSUME snap' = snap PROVE snap'.index \in Nat /\ snap'.index >= snap.index
    BY <1>2, SnapFields
<1>3. ASSUME snap' = snap, building' = building, pending' = pending, lastConf' = lastConf, batch # NoBatch,
             batch' # NoBatch, batch'.snapshot = batch.snapshot, batch'.last = batch.last
      PROVE  SnapshotsInv'
  <2>1. ConfsDated => ConfsDated'
    BY <1>1, <1>3 DEF ConfsDated, BatchEnd
  <2>2. goal
    BY <1>1, <1>3, <2>1 DEF SnapshotsInv, Faithful
  <2>3. QED
    BY <1>1, <1>2, <1>3, <2>2, SnapshotsFrame
<1>4. CASE RestoreSnapshot
  <2>1. batch # NoBatch /\ UNCHANGED <<snap, building, pending, lastConf, batch>>
    <3>1. batch.snapshot > 0
      BY <1>4, BatchFields DEF RestoreSnapshot
    <3>2. QED
      BY <1>4, <3>1, EmptyFields DEF RestoreSnapshot, runLoop
  <2>2. QED
    BY <1>3, <2>1
<1>5. CASE ApplyEntry
    BY <1>3, <1>5 DEF ApplyEntry, Continuing, runLoop, applyLoop, snapshots
<1>6. ASSUME NEW n \in 1..MaxLog, ReadEntries(n) PROVE SnapshotsInv'
  <2>1. /\ batch # NoBatch /\ batch' = [batch EXCEPT !.read = n]
        /\ UNCHANGED <<snap, building, pending, lastConf>>
    BY <1>6 DEF ReadEntries, Continuing, disk, runLoop, snapshots
  <2>2. batch'.snapshot = batch.snapshot /\ batch'.last = batch.last /\ batch'.read = n
    BY <2>1 DEF TypeOK, ApplyTyped, BatchType
  <2>3. batch' # NoBatch
    BY <2>2, EmptyFields
  <2>4. QED
    BY <1>3, <2>1, <2>2, <2>3
<1>7. CASE EndBatch
  <2>1. batch' = NoBatch /\ building' \in {building, capture} /\ UNCHANGED <<snap, pending, lastConf, applied>>
    BY <1>7, BuildCases DEF EndBatch, disk, runLoop
  <2>2. ASSUME crashes = 0, applied >= snap.index PROVE lastConf = confs[applied + 1] /\ Faithful(capture)
    BY <1>7, <2>2, EndsDated, CaptureFaithful
  <2>3. ASSUME crashes = 0 PROVE ConfsDated'
    BY <1>1, <2>1, <2>2, <2>3 DEF SnapshotsInv, ConfsDated, BatchEnd
  <2>4. ASSUME crashes = 0 PROVE building' # NoSnapshot /\ building'.index >= snap'.index => Faithful(building)'
    <3>1. CASE building' = building
      BY <1>1, <2>1, <2>4, <3>1 DEF SnapshotsInv, Faithful
    <3>2. CASE building' = capture
      BY <1>1, <2>1, <2>2, <2>4, <3>2, CaptureTyped DEF Faithful
    <3>3. QED
      BY <2>1, <3>1, <3>2
  <2>5. ASSUME crashes = 0 PROVE snap'.index > 0 => Faithful(snap)'
    BY <1>1, <2>1, <2>5 DEF SnapshotsInv, Faithful
  <2>6. goal
    BY <2>3, <2>4, <2>5
  <2>7. QED
    BY <1>1, <1>2, <2>1, <2>6, SnapshotsFrame
<1>8. CASE SaveSnapshot
  <2>1. /\ batch = NoBatch /\ building # NoSnapshot /\ building' \in {NoSnapshot, capture}
        /\ snap' = snap \/ (snap' = building /\ building.index >= snap.index)
        /\ UNCHANGED <<pending, lastConf, applied, batch>>
    BY <1>8, BuildCases DEF SaveSnapshot, Selecting, runLoop
  <2>2. snap'.index \in Nat /\ snap'.index >= snap.index
    BY <2>1, SnapFields, BuildingFields
  <2>3. ASSUME crashes = 0, applied >= snap.index PROVE lastConf = confs[applied + 1] /\ Faithful(capture)
    <3>1. lastConf = confs[applied + 1]
      BY <2>1, <2>3 DEF SnapshotsInv, ConfsDated
    <3>2. QED
      BY <2>3, <3>1, CaptureFaithful
  <2>4. ASSUME crashes = 0 PROVE ConfsDated'
    <3>1. applied >= snap'.index => applied >= snap.index
      BY <2>2, SnapFields
    <3>2. QED
      BY <1>1, <2>1, <2>4, <3>1 DEF SnapshotsInv, ConfsDated, BatchEnd
  <2>5. ASSUME crashes = 0 PROVE snap'.index > 0 => Faithful(snap)'
    <3>1. CASE snap' = snap
      BY <1>1, <2>5, <3>1 DEF SnapshotsInv, Faithful
    <3>2. CASE snap' = building /\ building.index >= snap.index
      BY <1>1, <2>1, <2>5, <3>2 DEF SnapshotsInv, Faithful
    <3>3. QED
      BY <2>1, <3>1, <3>2
  <2>6. ASSUME crashes = 0, building' # NoSnapshot, building'.index >= snap'.index PROVE Faithful(building)'
    <3>1. building' = capture
      BY <2>1, <2>6
    <3>2. applied >= snap.index
      BY <2>2, <2>6, <3>1, SnapFields, CaptureTyped
    <3>3. QED
      BY <1>1, <2>3, <2>6, <3>1, <3>2 DEF Faithful
  <2>7. goal
    BY <2>4, <2>5, <2>6
  <2>8. QED
    BY <1>1, <2>2, <2>7, SnapshotsFrame
<1>9. CASE RetrySnapshot
  <2>1. batch = NoBatch /\ building' = capture /\ UNCHANGED <<snap, pending, lastConf, applied, batch>>
    BY <1>9 DEF RetrySnapshot, Selecting, disk, runLoop
  <2>2. ASSUME crashes = 0, applied >= snap.index PROVE Faithful(capture)
    BY <2>1, <2>2, CaptureFaithful DEF SnapshotsInv, ConfsDated
  <2>3. ASSUME crashes = 0 PROVE ConfsDated' /\ (snap'.index > 0 => Faithful(snap)')
    BY <1>1, <2>1, <2>3 DEF SnapshotsInv, ConfsDated, BatchEnd, Faithful
  <2>4. ASSUME crashes = 0, building'.index >= snap'.index PROVE Faithful(building)'
    BY <1>1, <2>1, <2>2, <2>4, CaptureTyped DEF Faithful
  <2>5. goal
    BY <2>3, <2>4
  <2>6. QED
    BY <1>1, <1>2, <2>1, <2>5, SnapshotsFrame
<1>10. QED
    BY <1>4, <1>5, <1>6, <1>7, <1>8, <1>9 DEF ApplyLoop

LEMMA SnapshotsOther ==
    ASSUME TypeOK, GroupInv, PositionInv, SnapshotsInv
    PROVE  /\ \A i \in 1..MaxLog : SaveReceivedSnapshot(i) \/ SnapshotProbe(i) => SnapshotsInv'
           /\ SnapshotFails \/ Crash \/ Open => SnapshotsInv'
<1>num. Numbers
    BY Scalars
<1> USE <1>num DEF Numbers
<1> USE DEF group, disk, membership, runLoop, snapshots, applyLoop, faults
<1>1. ASSUME NEW i \in 1..MaxLog, SaveReceivedSnapshot(i) PROVE SnapshotsInv'
  <2>1. /\ phase = "select" /\ phase' = "select" /\ i > commit /\ i <= Len(log) /\ snap' = snapshotAt(i)
        /\ delivered' = i /\ confIndex' = i /\ retired' = persistRetired(gone[i + 1], i)
        /\ pending' = [NoBatch EXCEPT !.snapshot = i, !.conf = confs[i + 1]]
        /\ UNCHANGED <<log, confs, gone, applied, batch, lastConf, building, crashes>>
    BY <1>1 DEF SaveReceivedSnapshot
  <2> SUFFICES ASSUME crashes = 0 PROVE SnapshotsInv'
    BY <2>1 DEF SnapshotsInv
  <2>2. snap'.index = i /\ Faithful(snap)'
    BY <2>1 DEF snapshotAt, Faithful
  <2>3. pending'.last = 0 /\ pending'.snapshot = i /\ pending'.conf = confs[i + 1]
    BY <2>1 DEF NoBatch
  <2>4. Processed' = i /\ Processed = delivered
    BY <2>1 DEF Processed
  <2>5. delivered < i /\ applied < i /\ building.index < i
    BY <2>1, BuildingFields DEF PositionInv, DiskPositions, LoopPositions, Up
  <2>6. gone[i + 1] \in SUBSET Ids /\ i \in 0..MaxLog
    BY <2>1, GroupElements
  <2>7. \A j \in Ids : retired'[j] = IF j \in gone[i + 1] /\ retired[j] = 0 THEN i ELSE retired[j]
    BY <2>1, <2>6, RetiredTyped
  <2>8. \A j \in Ids : retired[j] \in Nat /\ retired[j] <= delivered /\ (retired[j] # 0 => j \in gone[retired[j] + 1])
    BY <2>4 DEF SnapshotsInv, RemovalsDated, TypeOK, DiskTyped
  <2>9. \A j \in Ids : retired'[j] <= i /\ (retired'[j] # 0 => j \in gone[retired'[j] + 1])
    BY <2>5, <2>7, <2>8
  <2>10. \A j \in gone[i + 1] : retired'[j] # 0 /\ retired'[j] <= i
    BY <2>6, <2>7, <2>9
  <2>11. RemovalsDated'
    <3>1. \A n \in snap'.index..Processed' : n = i
      BY <2>2, <2>4
    <3>2. QED
      BY <2>1, <2>4, <2>9, <2>10, <3>1 DEF RemovalsDated
  <2>12. ConfsDated'
    <3>1. BatchEnd(pending)' = i
      BY <2>3 DEF BatchEnd, Greater
    <3>2. BatchEnd(batch)' = BatchEnd(batch)
      BY <2>1 DEF BatchEnd
    <3>3. ConfsDated
      BY DEF SnapshotsInv
    <3>4. QED
      BY <2>1, <2>2, <2>3, <2>5, <3>1, <3>2, <3>3 DEF ConfsDated
  <2>13. ~ (building'.index >= snap'.index) /\ confIndex' <= delivered'
    <3>1. building.index \in Nat
      BY BuildingFields
    <3>2. QED
      BY <2>1, <2>2, <2>5, <3>1
  <2>14. QED
    BY <2>1, <2>2, <2>11, <2>12, <2>13 DEF SnapshotsInv, Up
<1>2. ASSUME NEW i \in 1..MaxLog, SnapshotProbe(i) PROVE SnapshotsInv'
  <2>1. /\ UNCHANGED <<log, confs, gone, confIndex, retired, phase, delivered, ready, local, crashes>>
        /\ UNCHANGED <<snap, pending, lastConf, applied, batch>>
        /\ batch = NoBatch /\ building' \in {building, capture}
    BY <1>2, BuildCases DEF SnapshotProbe, Selecting
  <2>2. ASSUME crashes = 0, applied >= snap.index PROVE Faithful(capture)
    BY <2>1, <2>2, CaptureFaithful DEF SnapshotsInv, ConfsDated
  <2>3. ASSUME crashes = 0 PROVE ConfsDated' /\ (snap'.index > 0 => Faithful(snap)')
    BY <2>1, <2>3 DEF SnapshotsInv, ConfsDated, BatchEnd, Faithful
  <2>4. ASSUME crashes = 0, building' # NoSnapshot, building'.index >= snap'.index PROVE Faithful(building)'
    <3>1. CASE building' = building
      BY <2>1, <2>4, <3>1 DEF SnapshotsInv, Faithful
    <3>2. CASE building' = capture
      BY <2>1, <2>2, <2>4, <3>2, CaptureTyped DEF Faithful
    <3>3. QED
      BY <2>1, <3>1, <3>2
  <2>5. snap'.index \in Nat /\ snap'.index >= snap.index
    BY <2>1, SnapFields
  <2>6. QED
    BY <2>1, <2>3, <2>4, <2>5, SnapshotsFrame
<1>3. CASE SnapshotFails
  <2>1. /\ UNCHANGED <<log, confs, gone, confIndex, retired, phase, delivered, ready, local, crashes>>
        /\ UNCHANGED <<snap, pending, lastConf, applied, batch>> /\ building' = NoSnapshot
    BY <1>3 DEF SnapshotFails
  <2>2. ASSUME crashes = 0 PROVE ConfsDated' /\ (snap'.index > 0 => Faithful(snap)')
    BY <2>1, <2>2 DEF SnapshotsInv, ConfsDated, BatchEnd, Faithful
  <2>3. snap'.index \in Nat /\ snap'.index >= snap.index
    BY <2>1, SnapFields
  <2>4. QED
    BY <2>1, <2>2, <2>3, SnapshotsFrame
<1>4. CASE Crash
  <2>1. crashes' # 0
    BY <1>4 DEF Crash, TypeOK, FaultsTyped
  <2>2. QED
    BY <2>1 DEF SnapshotsInv
<1>5. CASE Open
    BY <1>5 DEF Open, SnapshotsInv, Up
<1>6. QED
    BY <1>1, <1>2, <1>3, <1>4, <1>5

LEMMA SnapshotsNext ==
    TypeOK /\ GroupInv /\ PositionInv /\ MembersInv /\ SnapshotsInv /\ [Next]_vars => SnapshotsInv'
<1>1. ASSUME SnapshotsInv, UNCHANGED vars PROVE SnapshotsInv'
    BY <1>1 DEF vars, group, disk, membership, runLoop, applyLoop, snapshots, faults, SnapshotsInv, RemovalsDated,
       ConfsDated, Processed, BatchEnd, Faithful, Up
<1>2. QED
    BY <1>1, ExtendEntries, SnapshotsExtend, SnapshotsRun, SnapshotsApply, SnapshotsOther DEF Next

-----------------------------------------------------------------------------
(* The theorems.                                                           *)

LEMMA Inductive == Spec => [](TypeOK /\ NodeInv)
<1>1. Init => TypeOK /\ NodeInv
    BY TypeInit, GroupInit, PositionInit, MembersInit, SnapshotsInit DEF NodeInv
<1>2. (TypeOK /\ NodeInv) /\ [Next]_vars => (TypeOK /\ NodeInv)'
    BY TypeNext, GroupNext, PositionNext, MembersNext, SnapshotsNext DEF NodeInv
<1>3. QED
    BY <1>1, <1>2, PTL DEF Spec

\* Every variable of the node keeps its type.
THEOREM TypeCorrect == Spec => []TypeOK
BY Inductive, PTL

\* The saved configuration and the removed IDs of a replica are those of the
\* log (applyMembership, saveConf and persistRetired): for a node that was
\* not restarted whatever a Ready brings, and across restarts when it brings
\* one entry.
THEOREM MembersFollowTheLog == Spec => []ConfigurationFollowsLog
<1>1. NodeInv => ConfigurationFollowsLog
    BY DEF NodeInv, MembersInv, Follows, ConfigurationFollowsLog
<1>2. QED
    BY <1>1, Inductive, PTL

\* Nothing is dropped between the run loop and the apply loop, and the
\* application is never ahead of the durable commit index.
THEOREM NothingIsDropped == Spec => []WorkIsQueued
<1>1. TypeOK /\ NodeInv => WorkIsQueued
  <2> SUFFICES ASSUME TypeOK, NodeInv PROVE WorkIsQueued
    OBVIOUS
  <2>1. Greater(applied, snap.index) <= commit
    BY Scalars, QueueTyped DEF Numbers, NodeInv, PositionInv, DiskPositions, Greater
  <2>2. ASSUME Up PROVE Reach(Reach(applied, batch), pending) = delivered
    <3>1. Queue(applied, snap.index, delivered, batch.first, batch.last, batch.snapshot,
                pending.first, pending.last, pending.snapshot)
      BY <2>2, QueueNumbers DEF NodeInv
    <3>2. Reach(applied, batch) = Greater(applied, Greater(batch.snapshot, batch.last))
      BY <3>1, QueueTyped DEF Queue, Reach, Greater
    <3>3. Greater(applied, Greater(batch.snapshot, batch.last)) \in Nat
      BY QueueTyped DEF Greater
    <3> DEFINE m == Greater(applied, Greater(batch.snapshot, batch.last))
    <3>4. pending.first <= Greater(m, pending.snapshot) + 1 /\ delivered = Greater(m, Greater(pending.snapshot, pending.last))
      BY <3>1 DEF Queue
    <3> HIDE DEF m
    <3>5. m \in Nat /\ Reach(applied, batch) = m
      BY <3>2, <3>3 DEF m
    <3>6. Reach(m, pending) = delivered
      BY <3>4, <3>5, QueueTyped DEF Reach, Greater
    <3>7. QED
      BY <3>5, <3>6
  <2>3. QED
    BY <2>1, <2>2 DEF WorkIsQueued, Up
<1>2. QED
    BY <1>1, Inductive, PTL

\* A snapshot that a node without a restart has saved, its own or a received
\* one, carries the configuration and the removed IDs of its position.
THEOREM SnapshotsAreFaithful == Spec => []SnapshotFollowsLog
<1>1. NodeInv => SnapshotFollowsLog
    BY DEF NodeInv, SnapshotsInv, Faithful, SnapshotFollowsLog
<1>2. QED
    BY <1>1, Inductive, PTL

\* The application takes the entries one by one or jumps forward to a saved
\* snapshot, across crashes and restarts.
THEOREM AppliedInOrder == Spec => AppliesInOrder
<1>1. TypeOK /\ NodeInv /\ [Next]_vars =>
        [applied' # applied => applied' = applied + 1 \/ (applied' > applied /\ applied' <= snap.index)]_vars
  <2> SUFFICES ASSUME TypeOK, NodeInv, Next, applied' # applied
               PROVE  applied' = applied + 1 \/ (applied' > applied /\ applied' <= snap.index)
    OBVIOUS
  <2> USE DEF group, disk, membership, runLoop, snapshots, applyLoop, faults
  <2>1. RestoreSnapshot \/ ApplyEntry \/ Open
    <3>1. ~ \E e \in Entries : Extend(e)
      BY DEF Extend
    <3>2. ~ RunLoop
      BY DEF RunLoop, SaveReady, ApplyMembership, FinishReady, HandOver
    <3>3. ApplyLoop => RestoreSnapshot \/ ApplyEntry
      BY DEF ApplyLoop, EndBatch, SaveSnapshot, RetrySnapshot, ReadEntries
    <3>4. \A i \in 1..MaxLog : ~ SaveReceivedSnapshot(i) /\ ~ SnapshotProbe(i)
      BY DEF SaveReceivedSnapshot, SnapshotProbe
    <3>5. ~ SnapshotFails /\ ~ Crash
      BY DEF SnapshotFails, Crash
    <3>6. QED
      BY <3>1, <3>2, <3>3, <3>4, <3>5, ExtendEntries DEF Next
  <2>2. CASE RestoreSnapshot
    <3>1. Up /\ batch.snapshot > applied /\ applied' = batch.snapshot
      BY <2>2 DEF RestoreSnapshot, Up
    <3>2. batch.snapshot <= snap.index
      BY <3>1 DEF NodeInv, PositionInv, QueueInv
    <3>3. QED
      BY <3>1, <3>2
  <2>3. CASE ApplyEntry
    <3>1. Up /\ batch.snapshot <= applied /\ applied' = Current
      BY <2>3 DEF ApplyEntry, Continuing, Up
    <3>2. batch.first <= Greater(applied, batch.snapshot) + 1
      BY <3>1 DEF NodeInv, PositionInv, QueueInv
    <3>3. QED
      BY <3>1, <3>2, QueueTyped DEF Current, Greater
  <2>4. CASE Open
    <3>1. applied' = Greater(applied, snap.index)
      BY <2>4 DEF Open
    <3>2. QED
      BY <3>1, QueueTyped DEF Greater
  <2>5. QED
    BY <2>1, <2>2, <2>3, <2>4
<1>2. QED
    BY <1>1, Inductive, PTL DEF Spec, AppliesInOrder
=============================================================================
