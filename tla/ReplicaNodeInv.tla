--------------------------- MODULE ReplicaNodeInv ---------------------------
(***************************************************************************)
(* The inductive invariant behind the invariants of ReplicaNode.           *)
(* MCReplicaNode makes it available to TLC; ReplicaNodeProofs proves it.   *)
(***************************************************************************)
EXTENDS ReplicaNode

Up == phase # "down"

-----------------------------------------------------------------------------
(* The group: what an uninterrupted replica computes from the log.         *)

\* Each entry turns one configuration and set of removed IDs into the next.
EntriesAct ==
    \A j \in 1..Len(log) :
        /\ confs[j + 1] = nextConf(log[j], confs[j], gone[j])
        /\ gone[j + 1] = nextGone(log[j], confs[j], gone[j])

\* IDs are removed for good.
GoneGrows == \A i, j \in 1..Len(log) + 1 : i <= j => gone[i] \subseteq gone[j]

\* No configuration change lies behind position i, up to position n.
NoChange(i, n) == \A j \in 1..Len(log) : i < j /\ j <= n => log[j].kind = "data"

\* Commands change neither.
CommandsKeepMembers ==
    \A i, n \in 0..Len(log) : i <= n /\ NoChange(i, n) =>
        confs[n + 1] = confs[i + 1] /\ gone[n + 1] = gone[i + 1]

GroupInv == Len(log) <= MaxLog /\ EntriesAct /\ GoneGrows /\ CommandsKeepMembers

-----------------------------------------------------------------------------
(* Positions of the two loops and of the disk.                             *)

DiskPositions ==
    /\ commit <= Len(log) /\ confIndex <= commit /\ applied <= commit /\ snap.index <= commit
    /\ NoChange(confIndex, applied) /\ NoChange(confIndex, snap.index)

LoopPositions ==
    Up => /\ delivered <= commit /\ applied <= delivered /\ snap.index <= delivered
          /\ NoChange(confIndex, delivered) /\ building.index <= applied

ReadyPositions ==
    phase = "ready" =>
        /\ delivered < ready.at /\ ready.at <= ready.last + 1 /\ ready.last <= commit
        /\ delivered < ready.last /\ ready.last <= delivered + MaxReady
        /\ confIndex <= local.index /\ local.index <= commit
        /\ NoChange(local.index, ready.at - 1)

BatchEnd(b) == Greater(b.snapshot, b.last)

\* What the run loop has handed to the apply loop or keeps for it.  A batch
\* starts where the application will be, a snapshot that waits is ahead of
\* the batch in progress, and nothing else is needed to reach "delivered".
QueueInv ==
    Up => /\ batch.snapshot <= snap.index /\ pending.snapshot <= snap.index
          /\ batch.first = 0 <=> batch.last = 0
          /\ pending.first = 0 <=> pending.last = 0
          /\ batch.read <= batch.last /\ pending.read = 0
          /\ batch.first <= Greater(applied, batch.snapshot) + 1
          /\ pending.snapshot > 0 => Greater(applied, BatchEnd(batch)) <= pending.snapshot
          /\ pending.first <= Greater(Greater(applied, BatchEnd(batch)), pending.snapshot) + 1
          /\ snap.index <= Greater(applied, Greater(batch.snapshot, pending.snapshot))
          /\ delivered = Greater(Greater(applied, BatchEnd(batch)), BatchEnd(pending))
          /\ pending # NoBatch => delivered = BatchEnd(pending)
          /\ batch # NoBatch => applied <= BatchEnd(batch)

\* A stopped node has nothing in memory.
StoppedIsEmpty == ~ Up => batch = NoBatch /\ pending = NoBatch /\ building = NoSnapshot

PositionInv == DiskPositions /\ LoopPositions /\ ReadyPositions /\ QueueInv /\ StoppedIsEmpty

-----------------------------------------------------------------------------
(* Membership.                                                             *)

\* The removals recorded so far are no news to any change behind position n:
\* a change that is processed again finds at most its own effect.
NoNews(n) ==
    \A j \in 1..Len(log) : n < j /\ log[j].kind = "conf" => removedIds \subseteq gone[j + 1]

Follows(c, n) == c = confs[n + 1] /\ gone[n + 1] \subseteq removedIds

MembersInv ==
    /\ snap.retired \subseteq removedIds /\ building.retired \subseteq removedIds
    /\ MaxReady = 1 \/ crashes = 0 =>
         /\ removedIds \subseteq gone[Len(log) + 1]
         /\ Follows(conf, confIndex)
         /\ phase # "ready" \/ MaxReady = 1 => NoNews(confIndex)
         /\ phase = "ready" => Follows(local.conf, local.index) /\ NoNews(local.index)

-----------------------------------------------------------------------------
(* Snapshots of a node that was not restarted.                             *)

\* The last position whose membership change, if any, has been processed.
Processed == IF phase = "ready" THEN ready.at - 1 ELSE delivered

\* Removals are recorded at the position that removed the ID.
RemovalsDated ==
    /\ \A i \in Ids : retired[i] <= Processed /\ (retired[i] # 0 => i \in gone[retired[i] + 1])
    /\ \A n \in snap.index..Processed : \A i \in gone[n + 1] : retired[i] # 0 /\ retired[i] <= n

\* A batch carries the configuration of its end, and so does the apply loop
\* once it is through with it, unless a received snapshot superseded it.
ConfsDated ==
    /\ pending # NoBatch => pending.conf = confs[BatchEnd(pending) + 1]
    /\ batch # NoBatch => lastConf = confs[BatchEnd(batch) + 1]
    /\ batch = NoBatch /\ applied >= snap.index => lastConf = confs[applied + 1]

Faithful(s) == s.conf = confs[s.index + 1] /\ s.retired = gone[s.index + 1]

SnapshotsInv ==
    crashes = 0 =>
        /\ Up /\ confIndex <= delivered /\ (phase = "ready" => local.index < ready.at)
        /\ RemovalsDated /\ ConfsDated
        /\ snap.index > 0 => Faithful(snap)
        /\ building # NoSnapshot /\ building.index >= snap.index => Faithful(building)

NodeInv == GroupInv /\ PositionInv /\ MembersInv /\ SnapshotsInv
=============================================================================
