----------------------------- MODULE ReplicaNode -----------------------------
(***************************************************************************)
(* One replica of a Raft group (internal/replication): the run loop that   *)
(* persists what Raft hands out and applies membership changes, and the    *)
(* apply loop that feeds committed entries and received snapshots to the   *)
(* application, builds snapshots and compacts the log.                     *)
(*                                                                         *)
(* The rest of the group is its committed log.  etcd/raft (external) hands *)
(* out committed entries in order and snapshots of replicas that applied   *)
(* the log without interruption; a crash loses everything but raft.db and  *)
(* the application's checkpoint.  Index 0 stands for the bootstrap         *)
(* configuration.                                                          *)
(***************************************************************************)
EXTENDS Integers, Sequences, FiniteSets

CONSTANTS Ids,              \* member IDs
          Founders,         \* the bootstrap voters
          Protocols,        \* protocols of the commands
          SnapshotEntries,  \* entries between two snapshots
          MaxReady,         \* bound on the committed entries of one Ready
          Probes,           \* whether a leader asks for snapshots
          MaxLog,           \* bound on the committed log
          MaxCrashes,       \* bound on crashes
          MaxFailures       \* bound on failed snapshot builds

VARIABLES log, confs, gone,   \* the group: entries, configurations and removed IDs
          commit, conf, confIndex, retired, snap, minimum,     \* raft.db
          applied,                                             \* application checkpoint
          phase, delivered, ready, local, pending,             \* run loop
          batch, lastConf, configurationIndex, snapshotIndex,  \* apply loop
          building, failed, probe,
          crashes, failures

group == <<log, confs, gone>>
membership == <<conf, confIndex, retired>>
disk == <<commit, membership, snap, minimum, applied>>
runLoop == <<phase, delivered, ready, local, pending>>
snapshots == <<snapshotIndex, building, failed, probe>>
applyLoop == <<batch, lastConf, configurationIndex, snapshots>>
faults == <<crashes, failures>>
vars == <<group, disk, runLoop, applyLoop, faults>>

ConfType == [voters : SUBSET Ids, learners : SUBSET Ids]
NoConf   == [voters |-> {}, learners |-> {}]
BatchType == [first : 0..MaxLog, last : 0..MaxLog, snapshot : 0..MaxLog, conf : ConfType,
              changed : BOOLEAN, read : 0..MaxLog]
NoBatch  == [first |-> 0, last |-> 0, snapshot |-> 0, conf |-> NoConf, changed |-> FALSE, read |-> 0]
SnapshotType == [index : 0..MaxLog, conf : ConfType, retired : SUBSET Ids, protocol : 1..4]
NoSnapshot == [index |-> 0, conf |-> NoConf, retired |-> {}, protocol |-> 1]
Entries == [kind : {"data"}, protocol : Protocols] \cup
           [kind : {"conf"}, action : {"add_learner", "promote", "remove"}, id : Ids, expected : ConfType]

ASSUME ReplicaAssumption ==
    /\ Founders \subseteq Ids /\ IsFiniteSet(Ids) /\ Cardinality(Founders) = 3
    /\ Protocols \subseteq 1..4 /\ Probes \in BOOLEAN
    /\ SnapshotEntries \in Nat \ {0} /\ MaxReady \in Nat \ {0}
    /\ MaxLog \in Nat /\ MaxCrashes \in Nat /\ MaxFailures \in Nat

Greater(a, b) == IF a > b THEN a ELSE b
Members(c) == c.voters \cup c.learners
Protocol(e) == IF e.kind = "data" THEN e.protocol ELSE 1
Greatest(S) == CHOOSE p \in S : \A q \in S : q <= p

\* applyMembership's checks of a change against a configuration.
accepts(e, c, removed) ==
    /\ e.expected = c
    /\ CASE e.action = "add_learner" -> e.id \notin Members(c) \cup removed
         [] e.action = "promote"     -> e.id \in c.learners
         [] e.action = "remove"      -> /\ e.id \in Members(c)
                                        /\ e.id \in c.voters => Cardinality(c.voters) > 3

changedConf(e, c) ==
    CASE e.action = "add_learner" -> [c EXCEPT !.learners = @ \cup {e.id}]
      [] e.action = "promote"     -> [voters |-> c.voters \cup {e.id}, learners |-> c.learners \ {e.id}]
      [] e.action = "remove"      -> [voters |-> c.voters \ {e.id}, learners |-> c.learners \ {e.id}]

nextConf(e, c, removed) == IF e.kind = "conf" /\ accepts(e, c, removed) THEN changedConf(e, c) ELSE c
nextGone(e, c, removed) ==
    IF e.kind = "conf" /\ e.action = "remove" /\ accepts(e, c, removed) THEN removed \cup {e.id} ELSE removed

\* The protocol that an uninterrupted replica records for the log up to i.
protocolAt(i) == Greatest({1} \cup {Protocol(log[j]) : j \in 1..i})
snapshotAt(i) == [index |-> i, conf |-> confs[i + 1], retired |-> gone[i + 1], protocol |-> protocolAt(i)]

Init ==
    /\ log = <<>> /\ confs = <<[voters |-> Founders, learners |-> {}]>> /\ gone = <<{}>>
    /\ commit = 0 /\ conf = confs[1] /\ confIndex = 0 /\ retired = [i \in Ids |-> 0]
    /\ snap = NoSnapshot /\ minimum = 1 /\ applied = 0
    /\ phase = "select" /\ delivered = 0 /\ ready = [at |-> 0, last |-> 0, changed |-> FALSE]
    /\ local = [conf |-> conf, index |-> 0] /\ pending = NoBatch
    /\ batch = NoBatch /\ lastConf = conf /\ configurationIndex = 0 /\ snapshotIndex = 0
    /\ building = NoSnapshot /\ failed = FALSE /\ probe = 0
    /\ crashes = 0 /\ failures = 0

-----------------------------------------------------------------------------
(***************************************************************************)
(* The group.                                                              *)
(***************************************************************************)
Extend(e) ==
    /\ Len(log) < MaxLog
    /\ log' = Append(log, e)
    /\ LET last == Len(log) + 1
       IN  /\ confs' = Append(confs, nextConf(e, confs[last], gone[last]))
           /\ gone' = Append(gone, nextGone(e, confs[last], gone[last]))
    /\ UNCHANGED <<disk, runLoop, applyLoop, faults>>

Propose(p) == Extend([kind |-> "data", protocol |-> p])

\* changeMember: a leader admits a change against a configuration that may no
\* longer be current when the change is committed.  (That a learner has caught
\* up before it is promoted concerns other replicas and is left open.)
ChangeMember(action, id, i) ==
    /\ i \in 1..Len(confs)
    /\ LET e == [kind |-> "conf", action |-> action, id |-> id, expected |-> confs[i]]
       IN  accepts(e, confs[i], gone[i]) /\ Extend(e)

-----------------------------------------------------------------------------
(***************************************************************************)
(* The run loop.                                                           *)
(***************************************************************************)
\* Storage.save raises the minimum protocol to that of the new entries.
savedProtocol(n) == Greatest({minimum} \cup {Protocol(log[i]) : i \in commit + 1 .. n})

\* A Ready with committed entries: new entries and the commit index are saved.
SaveReady(n) ==
    /\ phase = "select" /\ n > delivered /\ n <= Len(log) /\ n - delivered <= MaxReady
    /\ commit' = Greater(commit, n)
    /\ minimum' = savedProtocol(n)
    /\ phase' = "ready" /\ ready' = [at |-> delivered + 1, last |-> n, changed |-> FALSE]
    /\ local' = [conf |-> conf, index |-> confIndex]
    /\ UNCHANGED <<group, membership, snap, applied, delivered, pending, applyLoop, faults>>

\* persistRetired keeps the index that was recorded first.
persistRetired(ids, index) ==
    [i \in Ids |-> IF i \in ids /\ retired[i] = 0 THEN index ELSE retired[i]]

\* A Ready with a snapshot: log, configuration and removed IDs are replaced.
SaveReceivedSnapshot(i) ==
    /\ phase = "select" /\ i > commit /\ i <= Len(log)
    /\ snap' = snapshotAt(i) /\ commit' = i /\ delivered' = i
    /\ conf' = confs[i + 1] /\ confIndex' = i /\ retired' = persistRetired(gone[i + 1], i)
    /\ minimum' = Greater(minimum, protocolAt(i))
    /\ pending' = [NoBatch EXCEPT !.snapshot = i, !.conf = confs[i + 1]]
    /\ UNCHANGED <<group, applied, phase, ready, local, applyLoop, faults>>

removedIds == {i \in Ids : retired[i] # 0}

\* Mutant: an entry at or below the saved position is applied again.
alreadyAppliedNever(i) == FALSE

alreadyApplied(i) == i <= local.index

\* One committed entry of the Ready; a removal is persisted on its own.
ApplyMembership ==
    /\ phase = "ready" /\ ready.at <= ready.last
    /\ LET e == log[ready.at]
           skip == e.kind = "data" \/ alreadyApplied(ready.at)
       IN  /\ ready' = [ready EXCEPT !.at = @ + 1, !.changed = @ \/ e.kind = "conf"]
           /\ local' = IF skip THEN local
                       ELSE [conf |-> nextConf(e, local.conf, removedIds), index |-> ready.at]
           /\ retired' = IF ~ skip /\ e.action = "remove" /\ accepts(e, local.conf, removedIds)
                         THEN persistRetired({e.id}, ready.at) ELSE retired
    /\ UNCHANGED <<group, commit, conf, confIndex, snap, minimum, applied, phase, delivered, pending,
                   applyLoop, faults>>

\* Mutant: a Ready replaces the positions that wait for the apply loop.
mergedFirstLatest == delivered + 1

mergedFirst == IF pending.first = 0 THEN delivered + 1 ELSE pending.first

\* saveConf, the pending positions of the apply loop, and Advance.
FinishReady ==
    /\ phase = "ready" /\ ready.at > ready.last
    /\ conf' = local.conf /\ confIndex' = local.index
    /\ pending' = [pending EXCEPT !.first = mergedFirst, !.last = ready.last, !.conf = local.conf,
                                  !.changed = @ \/ ready.changed]
    /\ delivered' = ready.last /\ phase' = "select"
    /\ UNCHANGED <<group, commit, retired, snap, minimum, applied, ready, local, applyLoop, faults>>

-----------------------------------------------------------------------------
(***************************************************************************)
(* The apply loop.                                                         *)
(***************************************************************************)
Selecting == phase # "down" /\ batch = NoBatch

HandOver ==
    /\ phase = "select" /\ Selecting /\ pending # NoBatch
    /\ batch' = pending /\ pending' = NoBatch /\ lastConf' = pending.conf
    /\ UNCHANGED <<group, disk, phase, delivered, ready, local, configurationIndex, snapshots, faults>>

\* finishProbe.
probeAfter(index) == IF probe > 0 /\ index >= probe THEN 0 ELSE probe

RestoreSnapshot ==
    /\ phase # "down" /\ batch.snapshot > applied
    /\ applied' = batch.snapshot /\ snapshotIndex' = batch.snapshot
    /\ failed' = FALSE /\ probe' = probeAfter(batch.snapshot)
    /\ UNCHANGED <<group, commit, membership, snap, minimum, runLoop, batch, lastConf,
                   configurationIndex, building, faults>>

\* The entry the batch continues with.
Current == Greater(batch.first, applied + 1)
Continuing == phase # "down" /\ batch # NoBatch /\ batch.snapshot <= applied

\* Mutant: the entry that follows the snapshot counts as compacted.
compactedNext(i) == i <= snap.index + 1

compacted(i) == i <= snap.index

ReadEntries(n) ==
    /\ Continuing /\ Current <= batch.last /\ batch.read < Current
    /\ ~ compacted(Current)
    /\ n >= Current /\ n <= batch.last
    /\ batch' = [batch EXCEPT !.read = n]
    /\ UNCHANGED <<group, disk, runLoop, lastConf, configurationIndex, snapshots, faults>>

ApplyEntry ==
    /\ Continuing /\ Current <= batch.read
    /\ applied' = Current
    /\ UNCHANGED <<group, commit, membership, snap, minimum, runLoop, applyLoop, faults>>

\* The removed IDs that belong to a snapshot of the application.
retiredBy(index) == {i \in Ids : retired[i] # 0 /\ retired[i] <= index}

\* Mutant: a snapshot gets the configuration of the disk.
buildConfDisk == conf

buildConf == lastConf

capture == [index |-> applied, conf |-> buildConf, retired |-> retiredBy(applied), protocol |-> minimum]

\* Mutant: only the number of entries starts a snapshot.
configurationDueNever(configuration, index) == FALSE

configurationDue(configuration, index) == configuration > index

\* The end of every turn of the apply loop.
nextBuild(current, index, configuration, request) ==
    IF /\ current = NoSnapshot
       /\ request > 0 \/ applied - index >= SnapshotEntries \/ configurationDue(configuration, index)
    THEN capture ELSE current

\* All entries are applied, or a received snapshot superseded them.
EndBatch ==
    /\ Continuing
    /\ Current > batch.last \/ (batch.read < Current /\ compacted(Current))
    /\ batch' = NoBatch
    /\ configurationIndex' = IF batch.changed THEN batch.last ELSE configurationIndex
    /\ building' = nextBuild(building, snapshotIndex, configurationIndex', probe)
    /\ UNCHANGED <<group, disk, runLoop, lastConf, snapshotIndex, failed, probe, faults>>

SnapshotProbe(i) ==
    /\ Probes /\ Selecting /\ probe = 0
    /\ i > snapshotIndex /\ i <= applied
    /\ probe' = i
    /\ building' = nextBuild(building, snapshotIndex, configurationIndex, i)
    /\ UNCHANGED <<group, disk, runLoop, batch, lastConf, configurationIndex, snapshotIndex, failed, faults>>

\* The minimum protocol once a snapshot that was built here is saved.
protocolSaved == IF building.protocol > 1 THEN building.protocol ELSE minimum

\* A finished build is saved by the run loop unless it is out of date.
SaveSnapshot ==
    /\ Selecting /\ phase = "select" /\ building # NoSnapshot
    /\ LET fresh == building.index > snapshotIndex /\ building.index >= snap.index
           index == IF fresh THEN building.index ELSE snapshotIndex
       IN  /\ snap' = IF fresh THEN building ELSE snap
           /\ minimum' = IF fresh THEN protocolSaved ELSE minimum
           /\ failed' = (failed /\ ~ fresh)
           /\ snapshotIndex' = index /\ probe' = probeAfter(index)
           /\ building' = nextBuild(NoSnapshot, index, configurationIndex, probe')
    /\ UNCHANGED <<group, commit, membership, applied, runLoop, batch, lastConf, configurationIndex, faults>>

SnapshotFails ==
    /\ Selecting /\ building # NoSnapshot /\ building.index > snapshotIndex
    /\ failures < MaxFailures /\ failures' = failures + 1
    /\ building' = NoSnapshot /\ failed' = TRUE /\ probe' = 0
    /\ UNCHANGED <<group, disk, runLoop, batch, lastConf, configurationIndex, snapshotIndex, crashes>>

RetrySnapshot ==
    /\ Selecting /\ failed /\ building = NoSnapshot /\ applied > snapshotIndex
    /\ building' = capture
    /\ UNCHANGED <<group, disk, runLoop, batch, lastConf, configurationIndex, snapshotIndex, failed, probe, faults>>

-----------------------------------------------------------------------------
Crash ==
    /\ phase # "down" /\ crashes < MaxCrashes /\ crashes' = crashes + 1
    /\ phase' = "down"
    /\ pending' = NoBatch /\ batch' = NoBatch /\ building' = NoSnapshot /\ failed' = FALSE /\ probe' = 0
    /\ delivered' = 0 /\ ready' = [at |-> 0, last |-> 0, changed |-> FALSE] /\ local' = [conf |-> NoConf, index |-> 0]
    /\ lastConf' = NoConf /\ configurationIndex' = 0 /\ snapshotIndex' = 0
    /\ UNCHANGED <<group, disk, failures>>

\* Open: the application catches up with the snapshot, and Raft hands out what
\* follows the application's position.
Open ==
    /\ phase = "down" /\ Greater(applied, snap.index) <= commit
    /\ applied' = Greater(applied, snap.index) /\ delivered' = applied'
    /\ retired' = persistRetired(snap.retired, snap.index)
    /\ phase' = "select" /\ lastConf' = snap.conf /\ snapshotIndex' = snap.index
    /\ UNCHANGED <<group, commit, conf, confIndex, snap, minimum, ready, local, pending, batch,
                   configurationIndex, building, failed, probe, faults>>

-----------------------------------------------------------------------------
RunLoop == (\E n \in 1..MaxLog : SaveReady(n)) \/ ApplyMembership \/ FinishReady \/ HandOver
ApplyLoop == \/ RestoreSnapshot \/ ApplyEntry \/ EndBatch \/ SaveSnapshot \/ RetrySnapshot
             \/ \E n \in 1..MaxLog : ReadEntries(n)

Next ==
    \/ \E p \in Protocols : Propose(p)
    \/ \E action \in {"add_learner", "promote", "remove"}, id \in Ids, i \in 1..MaxLog + 1 :
          ChangeMember(action, id, i)
    \/ \E i \in 1..MaxLog : SaveReceivedSnapshot(i) \/ SnapshotProbe(i)
    \/ RunLoop \/ ApplyLoop \/ SnapshotFails \/ Crash \/ Open

Spec == Init /\ [][Next]_vars

\* Both loops run while the node does, and a stopped node is started again.
FairSpec == Spec /\ WF_vars(RunLoop) /\ WF_vars(ApplyLoop) /\ WF_vars(Open)

-----------------------------------------------------------------------------
GroupTyped ==
    /\ log \in Seq(Entries) /\ confs \in Seq(ConfType) /\ gone \in Seq(SUBSET Ids)
    /\ Len(confs) = Len(log) + 1 /\ Len(gone) = Len(log) + 1
DiskTyped ==
    /\ commit \in 0..MaxLog /\ conf \in ConfType /\ confIndex \in 0..MaxLog
    /\ retired \in [Ids -> 0..MaxLog] /\ snap \in SnapshotType /\ minimum \in 1..4
    /\ applied \in 0..MaxLog
RunTyped ==
    /\ phase \in {"select", "ready", "down"} /\ delivered \in 0..MaxLog
    /\ ready \in [at : 0..MaxLog + 1, last : 0..MaxLog, changed : BOOLEAN]
    /\ local \in [conf : ConfType, index : 0..MaxLog] /\ pending \in BatchType
ApplyTyped ==
    /\ batch \in BatchType /\ lastConf \in ConfType
    /\ configurationIndex \in 0..MaxLog /\ snapshotIndex \in 0..MaxLog
    /\ building \in SnapshotType /\ failed \in BOOLEAN /\ probe \in 0..MaxLog
FaultsTyped == crashes \in 0..MaxCrashes /\ failures \in 0..MaxFailures

TypeOK == GroupTyped /\ DiskTyped /\ RunTyped /\ ApplyTyped /\ FaultsTyped

(***************************************************************************)
(* The saved configuration and the removed IDs are those of the log: a     *)
(* received snapshot or an entry handed out again never makes a replica    *)
(* disagree with the group about its members, and neither does a crash     *)
(* between the transactions of a change when a Ready brings one entry.     *)
(* With several entries in one Ready a crash can separate a removal from   *)
(* the addition before it (ReplicasAgree and README, section 6).           *)
(***************************************************************************)
ConfigurationFollowsLog ==
    MaxReady = 1 \/ crashes = 0 =>
        /\ conf = confs[confIndex + 1]
        /\ gone[confIndex + 1] \subseteq removedIds

(***************************************************************************)
(* applyMembership compares configurations so that every replica decides   *)
(* alike: one that has processed the whole log has the group's members.    *)
(***************************************************************************)
ReplicasAgree == phase = "select" /\ delivered = Len(log) => conf = confs[Len(log) + 1]

(***************************************************************************)
(* A saved snapshot carries the configuration and the removed IDs of its   *)
(* own position, so that a replica restored from it agrees with the group. *)
(* It is stated for a node that was not restarted: a restart replays       *)
(* entries below the saved configuration and can save another one with     *)
(* them (README, section 6).                                               *)
(***************************************************************************)
SnapshotFollowsLog ==
    snap.index > 0 /\ crashes = 0 =>
        snap.conf = confs[snap.index + 1] /\ snap.retired = gone[snap.index + 1]

\* The position an application at i reaches with batch b.
Reach(i, b) ==
    LET base == Greater(i, b.snapshot) IN IF b.first <= base + 1 THEN Greater(base, b.last) ELSE base

(***************************************************************************)
(* Entries that Raft handed out and the application has not applied are    *)
(* still on their way: nothing is dropped between the two loops, whichever *)
(* of entries, snapshots and compaction overtakes the other, and the       *)
(* application is never ahead of the durable commit index.                 *)
(***************************************************************************)
WorkIsQueued ==
    /\ Greater(applied, snap.index) <= commit
    /\ phase # "down" => Reach(Reach(applied, batch), pending) = delivered

\* One entry at a time or to a saved snapshot, and never back.
AppliesInOrder ==
    [][applied' # applied =>
         applied' = applied + 1 \/ (applied' > applied /\ applied' <= snap.index)]_vars

(***************************************************************************)
(* The application advances one entry at a time or to a saved snapshot and *)
(* never back, and what is committed is eventually applied, whichever of   *)
(* entries, snapshots and a restart comes first.                           *)
(***************************************************************************)
CommitIsApplied ==
    /\ AppliesInOrder
    /\ \A n \in 1..MaxLog : Len(log) >= n ~> applied >= n

(***************************************************************************)
(* A configuration change eventually has a snapshot of its own although a  *)
(* build fails, unless the node is restarted: the apply loop's mark of the *)
(* change is not durable.                                                  *)
(***************************************************************************)
ConfigurationIsSnapshotted ==
    \A n \in 1..MaxLog :
        (Len(log) >= n /\ log[n].kind = "conf") ~> (snap.index >= n \/ crashes > 0)
=============================================================================
