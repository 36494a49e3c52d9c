# GGraphDB: TLA+ models, model checking and proofs

This directory holds the formal models of GGraphDB (repository `SamuelSupe/graphdb`),
a multi-tenant property-graph database for configuration data. The models are
translated from the Go source; every definition that stands for code is listed
with its file and lines in `PROJECT.json` (`map`).

## 1. The system

| Part | Source | State it keeps | Operations | What is hard |
| --- | --- | --- | --- | --- |
| Replication node | `internal/replication` | Raft log, hard state, applied index, membership and retired IDs, minimum protocol, snapshots, pending proposals | propose, read barrier, ready/persist, apply, compact, install snapshot, join/promote/remove, transfer leadership, drain | crash between persist and apply, outcome-unknown proposals, snapshot install while applying, replayed configuration entries |
| Replicated application | `internal/ha/application*.go` | application state under a replication checkpoint | ApplyBatch, rejected-command retry, snapshot, restore, read fences | exactly-once application, batch rollback, readers against barrier commands |
| Accepted ingestion | `internal/ha/ingest*.go` | accepted records, pending index and its byte budget | accept, flush, status, wait for commit | acknowledged before executed; duplicate and late flush commands |
| Maintenance admission | `internal/ha/maintenance*.go`, `internal/maintenance` | pause counters, active writes | pause, begin write, sync | pause against a write that is already admitted |
| Shard catalog and placement | `internal/ha/shard_catalog.go` | registry, placements, moves | register, drain, resume, unregister, assign, move, cancel, phase records | two coordinators, lost responses |
| Shard ownership and migration | `internal/ha/shard_ownership.go`, `shard_migration.go`, `shard_copy.go`, `shard_transfer.go`, `shard_export.go` | ownership record per tenant, staged chunks, exports | own, freeze, reserve, stage, install, activate, retire, thaw, discard | stale coordinator calls, cancel against cutover, acknowledged writes during a move |
| Router | `internal/sharding` | placement cache, leader cache | resolve, proxy, assign, admin | stale routes, catalog outage |
| Tenant storage | `internal/storage/tenant_*.go`, `commit_*.go` | manifest, commits, snapshots, idempotency records, writer fences and leases | commit, load, recover, compact | fenced writers, crash between object writes and the manifest, repeated requests |
| Ingest service and WAL | `internal/storage/ingest_*.go` | WAL segments, checkpoint, in-memory batches | accept, flush, replay, checkpoint | durability order, replay after crash, failed batches |
| Tasks | `internal/storage/task*.go` | task records, registry of owners, execution slots | start, run, cancel, retry, reconcile, shut down | restart in the middle of a task, cancel racing completion, a record judged by a registry that changed |
| Object backups | `internal/storage/backup_*.go`, `tenant_backup_*.go`, `internal/backupstore` | captures, schedule, remote manifests and payloads | capture, publish, verify, retain, schedule, reset | interrupted deletions, retention beside publications, a plan without a task |
| Garbage collection and read views | `internal/storage/gc*.go`, `file_views.go`, `query_read_view.go` | view gate with its retirement table, cursor of a sweep | mark, sweep in batches, pin | deleting an object a reader still needs; collecting although readers overlap |
| Tenant lifecycle | `internal/storage/tenant_lifecycle*.go`, `tenant_purge*.go`, `tenant_recreate.go` | generation, purge tombstone | create, disable, delete, purge, restore, recreate | a writer of an earlier incarnation |
| Caches | `internal/storage/*cache*.go` | loaded graphs, index objects | get, refresh, evict | stale entries after a publication |
| Graph | `internal/graph` | entities, edges, identities, field sources | apply commit, merge, split, validate | identity conflicts, source priority |
| Query | `internal/query` | none (budgets, cursors) | match, traverse, shortest path, aggregate | paging order, limits |
| HTTP API, CLI, observability, UI | `internal/httpapi`, `cmd`, `internal/observability`, `internal/adminui` | none of their own | request decoding, formatting | |

## 2. Interaction

Clients reach a router, which resolves the tenant's placement in the catalog group
and proxies with the routing epoch it read. Each shard is a Raft group; a mutation
becomes a replicated command, and every replica applies it under a journal that
records the applied index with the change. The coordinator on the catalog leader
reads the catalog, calls the shards over HTTP and records each outcome back in the
catalog. Inside a replica, commands run the same tenant store that the stand-alone
server uses: a commit publishes a manifest last, ingestion goes through a WAL, and
maintenance runs as tasks, of which object backups are scheduled by the store itself.

## 3. Modules

| Module | What it is |
| --- | --- |
| `ShardMigration` | catalog, ownership records and coordinators for one tenant |
| `ShardMigrationInv` | the inductive invariant behind its safety properties |
| `ShardMigrationProofs`, `ShardWriteProofs` | type correctness and single owner; no lost write, fencing and unregistration |
| `CommandLog` | committed commands, and the objects a prefix of them leaves |
| `AppliedPrefix` | abstract specification: a replica holds the outcome of a growing prefix of the log |
| `ReplicatedApply` | the journal protocol by which a replica applies commands; implements `AppliedPrefix` |
| `ReplicatedApplyProofs` | its inductive invariant, the theorems and the refinement |
| `ReplicaNode` | run loop, apply loop, membership, snapshots and `raft.db` of one replica |
| `ReplicaNodeInv`, `ReplicaNodeProofs` | its inductive invariant, and the theorems about members, queued work and snapshots |
| `AcceptedQueue` | accepted ingestion of a replicated group with proposals, read barriers and the maintenance gate |
| `AcceptedQueueInv`, `AcceptedQueueProofs` | its inductive invariant, and the theorems about replicas, publication, reads and pauses |
| `IngestWAL` | segments, durable tail, checkpoint and recovery of the stand-alone ingest log |
| `IngestService` | acceptance, plans, publication and shutdown of the stand-alone service, beside direct operations |
| `IngestServiceInv`, `IngestServiceProofs` | its inductive invariant, and the theorems about barriers, plans, log order and outcomes |
| `TenantStorage` | direct commits, compaction, sweep, views and purge on one tenant's objects |
| `TenantStorageInv`, `TenantStorageProofs` | its inductive invariants, and the theorems about idempotency records and readable views |
| `Tasks` | task records, their owners, slots, cancellation, retry, recovery and shutdown |
| `BackupAutomation` | extends `Tasks` with the object backup operation, the backup repository and the scheduler |
| `BackupAutomationInv`, `BackupAutomationProofs` | its inductive invariant, and the theorems about listed backups and ownerless tasks |
| `MC...` | instances for TLC |

The modules meet at promises that one assumes and another checks. `ShardMigration` and
`AcceptedQueue` apply a command in one step, which `ReplicatedApply` justifies;
`AcceptedQueue` assumes entries reach the application once and in order, which
`ReplicaNode` checks; `IngestService` sees the log as what its recovery returns, which
`IngestWAL` checks, and a manifest as the sequence of commits it stands for, which
`TenantStorage` checks (`ViewsReadable`).

An operator introduced by a comment `Mutant:` is a plausible mistake in the
definition that follows it. It is used by no specification; `PROJECT.json` pairs it
with the property that detects it when it takes the definition's place.

### 3.1 ShardMigration

The state is that of three replicated state machines: the catalog's `registry` and
`place` (a `Placement` with its `Move`), an `owner` record per data shard
(`Ownership`), and the tenant's content at each shard, committed (`data`) or accepted
and not yet flushed (`accepted`). Every replicated command is one action, because the
Raft group that executes it applies it atomically; `ReplicatedApply` justifies that.

Coordinators have no state. A catalog leader that lost its leadership may still hold
an old placement, a call that timed out may still be on its way, and a new leader
repeats calls. So a call may reach its shard at any time after the step that leads a
coordinator to it has succeeded once: the history `done[i]` records those steps and
is the only thing a guard takes from the coordinator. Every other guard is the code's.
A refused call and a repeated call that finds its own effect change nothing and are
stuttering steps. Routes, too, may be used arbitrarily late (`routes` only grows),
which covers every behaviour of the router's cache.

Abstractions: one tenant (no operation reads another tenant's records); content is the
set of writes it includes, and a digest is the content it was computed from; an export
is the content at the time it was taken; `move_error` only stores a message. `own` and
`assigned` use the shard of the one `assign` a tenant can get.

### 3.2 ReplicatedApply

One replica, its committed `log`, the objects (`live`), the before-images and the
commit marker in `pending.db`, and `checkpoint.json`. `stage` follows
`ApplyReplicated` and `recoverReplication`; one action per durable step, so that a crash may
fall between any two. `disk[k]` is the set of contents an object may have after a
power loss: a renamed but unsynced file has its old content, its new one, or is torn.
bbolt transactions and `writeFileAtomic` sync before they return and are atomic.

`ApplyBatch` opens a journal for up to `MaxBatch` (eight in the code) consecutive
publications of one kind. `Reject` is a handler's 4xx answer: the journal is rolled
back and the first entry is tried alone (`job.single`), then its response is recorded
as an empty command. `ApplyError` and `StopOnError` are all other failures, which stop
the replica (`Node.fail`); `Crash` loses power; `Restart` recovers.
`InstallReplicationSnapshot` runs the same protocol for a received snapshot. `cache`
is `Application.catalogState`.

Abstractions: a command is the set of objects it writes or deletes and whether the
application refuses it (deterministically: the code turns every other failure into a
stop); an object's content is the position of the command that wrote it. In the code an
entry at or below the checkpoint is skipped; the model hands out only those above it.

### 3.3 ReplicaNode

One replica against the committed log of its group. `log`, `confs` and `gone` are the
entries, and the configuration and removed IDs that a replica which never stopped has
after each. `commit`, `conf`, `confIndex`, `retired`, `snap`, `minimum` are the
contents of `raft.db`; `applied` is the application's checkpoint. The run loop takes a
Ready in three kinds of steps: `SaveReady` (the transaction of `save`),
`ApplyMembership` per entry (a removal is a transaction of its own), `FinishReady`
(`saveConf`, the pending positions, `Advance`). The apply loop takes a batch
(`HandOver`), restores or reads and applies (`RestoreSnapshot`, `ReadEntries`,
`ApplyEntry`, `EndBatch`), and builds, saves, retries and probes snapshots. `Crash`
loses everything that is not in `raft.db` or the checkpoint, and `Open` is the start.

etcd/raft is external: it hands out committed entries in order, at most `MaxReady` per
Ready, and snapshots of other replicas beyond the local commit index. Entries are
persisted together with their commit index, which leaves out only uncommitted tails
that these loops never look at. Index 0 stands for the bootstrap configuration, so
the three bootstrap entries are not replayed. Peer addresses, leadership and the
snapshot files are not modelled; proposals and read barriers are in `AcceptedQueue`.

### 3.4 AcceptedQueue

The replicas of one group, the leader's `log` with its `commit` index, and per replica
the acceptance records, the cached queue (`pending`, or `NoCache` after a restart, a
restored snapshot or a rejected command), the published `graph` and the state of the
flush loop and of the maintenance worker. A deposed leader keeps believing it leads
(`views`) until `StepDown`, so it plans flushes from its own queue and proposes them;
such proposals are dropped or lost. A caller that stops waiting learns nothing
(`OutcomeUnknown`) while its entry may still be committed, and clients retry. Status reads
wait for a barrier index and answer from whatever replica they reached. A maintenance
worker closes the gate of the tenant, waits for admitted writes, prepares, proposes its
task and opens the gate again. `graph` is the sequence of commits: a flush command makes
one, which maps the positions of the command it still had to do to their batches, and a
direct write adds an empty one. `FlushOrder(r)` is the set of sequences a replica may plan,
the oldest accepted batches up to the limit, by acceptance index. Time, leases of the leader check and the HTTP forwarding
between replicas are left out; one tenant and one generation of it.

### 3.5 IngestWAL

The writer goroutine is a program of disk operations: `ops` holds what is left of the
request it works on, and each operation is a step, so that a kill (`Kill`), a power loss
(`PowerLoss`) or an I/O error falls between any two. Frames are counted, not encoded; a
power loss keeps any subset of the unsynced blocks of a segment (a prefix, possibly
torn), any image of the tail file since its last fsync, with an unsynced
slot perhaps damaged, and a prefix of the directory operations. Assumption: directory operations survive a power loss in the
order in which they were made. `may[i]` is what the callers of request `i` cannot
exclude: an acknowledgement narrows it, an unanswered append widens it. The legacy
36-byte tail format is left out. A torn segment together with a damaged slot closes the
log on purpose; that takes two faults, and `NeverCorrupt` says so.

### 3.6 IngestService

One tenant. `log` holds the requests without a terminal record in LSN order, each with
its plan; `pending`, `order`, `arrived` and `queue` are the memory of the service;
`worker` is the flush under way; `gate` and `lock` are the admission gate and the tenant
lock; `caller` follows a direct commit, purge, creation or disabling through gate,
barrier and lock. Deadlines, forced flushes and backoff only decide when a queue is
dispatched, so it may be dispatched at any time. A plan is the base version, the head
and the commits it adds; "failed" stands for every outcome without a commit. Requests of
an unbound legacy generation and invalid identifiers (`ingest_service.go` 1127-1155) are
left out, as are snapshots and compaction, which do not change a manifest's history.

`wal` says whether the writer of the log still runs. An append that fails with an I/O error
ends it until the next start, whether or not the record is durable, and every later
append fails at once (`LogFails`). Only an accept and a terminal record make the service
fatal then (`AppendAcceptedFails`, `AppendTerminalFails`). Under a PREPARED record
`flushTenantGroup` sets the group to be retried, as after any other error
(`ingest_service.go` 1354-1360), and the service stays ready (`AppendPreparedFails`); a
shutdown does not drain such a queue and ends with its deadline, 30 seconds in
`bootstrap/storage.go` (`Closed`). Appends of other tenants and prunes, which would also
meet the failed log, are not in the model: it allows the state to last longer than
they would.

A worker that stops gives back only a lock it holds (`WorkerUnlocks`): a failing service
leaves the tenant lock of a direct operation alone. Two observations that no property states, because the code documents them as stops: a
schema or quota that changes between plan and publication stops the service with
`ErrIngestRepairRequired`; and a plan without a commit (its base is its final state) is
evaluated again on a retry, so that a changed policy may publish a commit the plan lacks.

### 3.7 TenantStorage

`files` holds commit, segment and snapshot objects, `manifest` the published root,
`records` the idempotency record per key. A direct commit is a chain of steps under
the tenant lock (`Reserve`, `PutCommit`, `Prepare`, `Publish`), its view is kept until the
indexes follow (`FinishIndexes`) and its record is completed outside lock and view
(`CompleteCommit`). A compaction loads, writes pages and record side by side,
settles prepared records one by one (read and replacement are separate steps) and takes the lock
only for `PublishCompaction`. A sweep starts while it has the tenant's task slot, so
not beside a compaction, and gives the slot back before its first batch: from then on a
compaction may start. Only the sweep of an index rebuild, which keeps two snapshots, has
given the slot back before it starts (`SlotFree`, `index_task.go` 80-85). A sweep works on what existed when it started (`StartGC`;
`listBefore`, `gc_batch.go` 50), one object per step, and releases the lock between batches. `retired` is the table of objects
proven unreachable with the views older than the proof (sets instead of epochs); it is
bounded and forgotten when the gate loses its last user. A purge waits for all views
and the lock; a creation starts the next generation.

Abstractions: the pin of a view and the read of its manifest are one step; the
directories are listed when a sweep starts, not batch by batch up to the start's time; commit object and segment are written in one
step; the retry inside `commitWithRetryLocked` is the client's retry, since the lock
excludes conflicts; compactions of a tenant are serialised by the task slot; a half
deleted snapshot version is re-evaluated instead of resumed by cursor; a waiting exclusive
gate is not a state; compaction of an empty tenant is left out. Records, manifests and
settle writes are fenced or conditional as in the code; snapshot objects are not.

### 3.8 Tasks and BackupAutomation

`tasks` holds the durable records; everything else in `Tasks` is memory and goes with a
crash: `at` (where a worker is), `active` (`taskActive`), `cancels` (`taskCancels`),
`signalled` (cancelled contexts), `execution` and `starting`. `GetTask` and
`ReconcileInactiveTask` are two steps, because the record is read before the registry is
asked; a write of the record in between makes the reconciliation give up. `Stop` and
`Exit` are an orderly shutdown, `Crash` any other. `BackupAutomation` adds what a worker
does between `Begin` and `Finish`: one action per durable write or request to the object
store, each of which may fail, and a lost answer is a request that took effect followed
by a failure. `Pin` is the set of tasks between payload and manifest; retention lists
once, then repeats an interrupted deletion and walks the listing again. The scheduler's
run is split at its durable writes, and holds the tenant lock between them. `overtaken` is
not in the code: it remembers that a cancelled task has deleted a listed backup.

Abstractions: a capture is the version it holds and every capture meets a newer version;
a backup ID is the ID of the task that captured first; task IDs are taken in order since
they are random in the code; when a run is due is left open, and age-based retention may
remove any backup it is allowed to remove (`Ageing`). Both slots of a worker are taken in
one step, and a capture is not serialised with commits of the tenant, which allows more
behaviours than the code has.

## 4. Runs

| Run | Shows |
| --- | --- |
| `shard_migration` | one owner (`ActiveIsPlaced`), no lost acknowledged write (`NoLostWrite`), `unregister` strands nothing (`UnregisteredIsEmpty`), epochs fence (`Fenced`), service resumes and moves end (`ServiceResumes`, `MoveEnds`) |
| `cancelled_move_reserves` | a disagreement (section 6) |
| `replicated_apply` | checkpoint, objects and catalog cache agree; the protocol refines `AppliedPrefix`; the log is drained |
| `replica_node` | `WorkIsQueued`, `CommitIsApplied` with a crash anywhere; `ConfigurationFollowsLog` with a crash anywhere if a Ready brings one entry, and up to a crash if it brings more; `SnapshotFollowsLog`, `ConfigurationIsSnapshotted` up to a crash |
| `replayed_addition` | a disagreement (section 6) |
| `accepted_queue` | replicas agree, publication once and in order, linearizable status reads, pauses exclude writers, accepted batches finish |
| `ingest_wal` | one fault never looks like corruption, acknowledged requests survive, the log serves again |
| `ingest_service` | durable plans fit the manifest, outcomes are true, log order, barriers drain, finished requests have outcomes, generations stay apart, everything finishes and returns |
| `disabled_after_publish` | a disagreement (section 6) |
| `tenant_storage` | `ViewsReadable`, `RecordsAreTrue`, `NeverAmbiguous`, `GarbageIsCollected` |
| `recreated_tenant_loses_snapshot` | a disagreement (section 6) |
| `backup_automation` | listed backups are complete and, unless a cancelled task has deleted one, one always stays (`BackupsStayRestorable`), tasks end and none is failed under a live worker (`TasksEnd`), plans are started and captures removed (`ScheduleProceeds`) |

Bounds. Migration: two shards and two moves let a move be followed by its reverse, and
by a second move to the same target, with the calls of both in flight; one write is
enough because writes do not interact; the epoch bound leaves room for both moves.
Application: a log of four with windows of three holds every mixture of a rejected
command with accepted neighbours, and two faults reach a crash during the recovery from
a crash. Replica: logs of three entries hold an addition
and a removal of one ID with a stale change or a command between them; `SnapshotEntries`
is 2 so that snapshots come from the entry count and from configuration changes;
`MaxReady` splits a replay. `SnapshotFollowsLog` and `ConfigurationIsSnapshotted` speak of
the time before a crash because a crash makes them false (section 6), and no run checks
the minimum protocol for the same reason.

Backups: three tasks are a scheduled backup, its retry and a task that publishes or
retains beside it; two slots let two of them upload at once; two troubles are, for
example, a crash during a deletion and a failed request of the task that repeats it.
`RetryTask` is not a trouble, it is bounded by the tasks. `MaxRetries` is 2, so that a
cycle is retried from its checkpoint once and then starts anew.

`AcceptedQueue`, `IngestWAL`, `IngestService` and `TenantStorage` take their bounds from a set of `Workloads`, each a mixture of
calls and faults; one run explores them all. Queue: two batches, one of them
with two digests, budgets of one and two requests, flushes of one request, two elections, or
a fault beside maintenance. Log: two requests in segments of two frames with room for
five, so that a rotation, a checkpoint and a full log all happen within five records, and
up to two faults. Service: two requests, one sent again, groups of two, two faults alone
and one beside a direct commit or a purge with a creation; with three requests and four
calls the safety properties hold as well, and `AcknowledgedFinish` meets the stop described in
section 6. Storage: two keys with three
tries, segments of two commits, one kept snapshot, a retirement table of two, one
compaction, two readers that may overlap without end, a purge; the violation needs
three compactions and a crash. Symmetry is used over member IDs and keys in runs without
liveness. Deadlock checking is off: the bounded calls are used up and a system without
clients stops legitimately. The `TypeOK` of `ReplicaNode` and of those four modules is documentation of
their variables, true in these instances, and not a property of a run.

Fairness. `runShardMigrations` retries the current phase every 200 ms and the flush
loop retries accepted batches, so each of those calls is weakly fair; nothing is
assumed of clients, operators or deposed coordinators. The run and apply loops run while the
process does, and a stopped process is restarted by its supervisor; crashes and
failures are bounded by the faults of the instance. In the queue, Raft commits what a
stable leader holds, a deposed leader steps down, and a caller gives up when its node no
longer leads. In the ingest service the goroutines run, a fatal service is stopped
and opened again, and a shutdown that began ends. Nobody stops a service that looks ready,
so `AcknowledgedFinish` and `CallsReturn` leave out the behaviours in which the log has failed
and the service goes on with it for ever (`[]Unnoticed`); whatever else fails, and whenever an
accept, a terminal record, a shutdown or a crash ends that state, requests finish and
calls return. In storage every step that began is weakly fair, and waiting for the
tenant lock is strongly fair because the lock serves its waiters in turn
(`locks.go` 119-152); the sweep is scheduled again and again. For backups, starts and
workers run and every request ends, since requests have timeouts; the maintenance ticker
calls the scheduler again and again; clients poll the tasks they started, which is what
reconciles a task without an owner (nothing else in the store does, except the scheduler
for its own task). A policy is taken to stay enabled while its plan has no task.

`GarbageIsCollected` assumes that views are eventually always, or eventually never,
active. That is needed: the retirement table goes with the last user of the gate
(`finishRef`, `file_views.go` 128-135), so readers that never overlap and yet are present
at every visit of a sweep make it start its proof anew each time, and nothing is
collected. Readers that do overlap, the harder case at first sight, are covered.

## 5. Proofs

All theorems hold for every value of the constants that satisfies the named
assumptions beside them (`ConstantsAssumption`, `CommandsAssumption`, ...), which say that
counts are counts and names differ: any number of shards, moves, writes, parts,
commands, objects, keys and faults.

* `ShardMigrationProofs!TypeCorrect`, `SingleOwner`. `ActiveIsPlaced` is not inductive:
  a late `activate` or `thaw` would break it if the guards were all that is known. The
  invariant `OwnershipInv` adds that a move is either cancelled or cut over, never both
  (`StepsInOrder`), that the phase fixes which end of the move is placed and at
  which epoch (`PhaseMatchesMove`), that a shard which executed the last call of a move
  has left its epoch behind so that a repetition matches nothing (`StepsLeaveEpoch`),
  and that the source stays frozen while a cutover is possible
  (`CopyKeepsSourceFrozen`).
* `ShardWriteProofs!WritesSurviveMoves`. `WriteInv` adds that epochs of other moves are
  below the placement's (`MovesBelowPlace`), that the placed shard's copy cannot be
  replaced or purged by a late call (`PlacedKeepsCopy`), that a frozen source has nothing
  accepted left (`FrozenIsDrained`), and that while a move may be cut over each of its
  exports and its installed copy hold every acknowledged write (`CopyIsComplete`).
* `ShardWriteProofs!Fencing`, `UnregisterStrandsNothing`. `Fenced` follows from `WriteInv` step by
  step. For unregistration `unregister` looks only at the catalog and not at the
  shard, so `RegistryInv` adds that the placement and both ends of an unfinished move stay
  registered (`RegisteredEnds`), that a frozen, filled or installed shard belongs to the move in
  progress (`HeldIsCurrent`), that the last call of a move has released its shard
  (`EndsReleased`), and that any other shard is empty (`EmptyUnlessHeld`). A reservation repeated
  after its move ended can stay behind, and it stays empty.
* `ReplicatedApplyProofs!TypeCorrect`, `CheckpointConsistent`, `CatalogCacheCorrect`,
  `Refinement`. The invariant relates the three durable places: what a crash would
  recover is the outcome of the recovered position (`Recoverable`), what is not
  journalled or is committed is fully on disk (`Durable`), and each stage says how far
  the objects are (`Running`, `Undoing`, `Rejected`, `Synced`, `CacheShape`). Under it
  only `CommitMarker` moves the recovered position, and every other step
  stutters in `AppliedPrefix`.
* `ReplicaNodeProofs!TypeCorrect`, `MembersFollowTheLog`, `NothingIsDropped`,
  `SnapshotsAreFaithful`, `AppliedInOrder`. `NodeInv` has four parts. `PositionInv` orders the
  positions of disk, run loop and apply loop, and says that between the saved
  configuration and any of them the log changes no member; its `QueueInv` says that
  a batch starts where the application will be and that what waits ends at `delivered`.
  `GroupInv` is about the log alone. `MembersInv` is what `ConfigurationFollowsLog` lacks
  to be inductive: the removals already recorded are no news to a change that will be
  processed again (`NoNews`), which is exactly what fails when a crash separates
  a removal from an addition in one Ready (`replayed_addition`). `SnapshotsInv` dates
  removals and the configurations carried by batches, so that a snapshot built by the
  apply loop, beside a run loop that has gone on, has those of its own index.
* `AcceptedQueueProofs!TypeCorrect`, `CachesAreInvisible`, `PublicationOrder`, `ReadsAreCurrent`,
  `PauseHolds`. The properties compare replicas at different positions, so the invariant
  speaks of a history `h`, the durable state behind each committed entry: `QueueInv(h)` for
  some `h` is inductive (`History`), every replica is at one point of it whatever its cache
  holds (`ReplicasInv`), because a cache is either absent or the accepted records. A flush may
  be planned from a stale queue; it stays harmless because the batches it leaves out
  and that come before one of its own are finished, and this survives every later command
  (`FlushFits` in `PlansInv` and `TailInv`, `Grows`). `ClientsInv` bounds what clients know
  by the committed state. `PauseInv` is separate: a clean pause is held by the
  current leader and no mutation is on its way to it (`Quiet`).
* `TenantStorageProofs!TypeCorrect`, `RecordsTruth`, `EvidenceStays`. A direct commit and a
  compaction meet at the idempotency record, of which the compaction holds a copy it read
  without the lock. `StorageInv` says that the manifest publishes the history, without
  a gap between its snapshot and its head (`Follows`); who holds the lock (`LockInv`);
  for each key what its record and its writer promise (`RecordInv`, `WriterInv`: a writer
  that may publish has a key that never was, and one that completes a record was published
  or changed nothing); and for a compaction of the current generation that
  its verdict is still the truth when it is written and that no record it has dealt with
  is prepared again at a version its snapshot covers (`CompCurrent`). That needs the
  verdict of a retry to be the truth about the history (`VerdictFacts`), the segment of
  loose commits to read like the commits (`SegmentedFollows`), and the lease generation:
  a compaction that outlives a purge has lost its fence, or finds nothing left (`Emptied`).
  Which files exist plays no role here.
* `TenantStorageProofs!ReadableViews`, `CompactedOnceViews`. That a reader, and the next commit, find
  every object their manifest names is about the files, and a sweep decides without
  the lock on what it has listed and remembered. `ViewInv` adds to `StorageInv`: the manifest, the
  calls that hold a successor of it and the views name existing commits, and an object
  the sweep has retired is named by no later manifest, while the views that do name it are
  remembered (`TailsInv`, `GateInv`); a snapshot object spells the history up to its version, none
  is newer than the one being compacted, what a compaction has written stays until it is published,
  and a retired one is older than both (`SnapshotsInv`). A listing may be older than the generation it
  is used in. It then names no snapshot the new one has, because identifiers of commits
  are never used twice (`ListedInv`, `IdsInv`), and while the old compaction runs
  the new generation has published none (`StaleInv`), or never will (`NoneLeft`). `ReadableViews` has one hypothesis:
  a compaction that outlives its generation writes no snapshot into the next while another compaction
  follows it (`WritesOwnSnapshots`). It is necessary, since snapshots are put without a fence under
  a key that names the version alone; `recreated_tenant_loses_snapshot` (section 6) is a
  behaviour without it. `CompactedOnceViews` discharges it for the workloads that purge nothing or
  compact at most once, which include those of the run `tenant_storage`: any number of keys, readers, sweeps,
  crashes and faults. `ViewInv` was model-checked beyond that, with two compactions.
* `IngestServiceProofs!TypeCorrect`, `DrainBarrier`, `NothingEndsUnrecorded`,
  `NothingCrossesAPurge`, `PlansAreFound`, `PreparedInOrder`, `OutcomesTruth`. The invariant has two layers. `BaseInv`
  says where every acknowledged request is: the worker's group, the rest of its dispatch,
  the queue and the accepted sequence are one `Pipe` without repetition, whose members
  are active in memory (`PipeInv`); a durable request is active or on its way to be,
  and an active one that the log has lost has its record (`LogInv`); who pauses a
  tenant has the gate and, past the barrier, nothing active (`GateInv`,
  `DrainInv`); who has the lock (`LockInv`); and the group is of one generation (`CohortInv`).
  The plans stand on it. The log has the order of the pipe (`OrderInv`), through
  retries, which put a group back in front, and restarts; memory and log have the
  same plans, but for the one under which the log failed, and nobody past the barrier meets one (`MarkInv`); a group that is planned
  afresh has none (`FlushInv`). Hence a fresh plan that reaches the log for a group that is not empty finds no other one
  in force (`FreshAlone`; after a failed append memory lacks the plan, and the log takes no more): an earlier request would be in the group, and a later one
  would have been prepared before it against `PreparedInLogOrder`. So one plan is
  in force at a time, the manifest is before or behind it, and a worker publishes
  that plan or nothing (`ForceInv`); a direct commit comes only when there is none. Of a request that is in
  the history without a record the log still has that plan (`OutcomesFit`), which is why the
  retry after a crash or an unanswered write does not publish it again and records
  what happened (`HistoryInv`).
* `BackupAutomationProofs!TypeCorrect`, `RestorableBackups`, `OrphansHaveNoWorker`. Retention
  spares the backup its task has verified, so one stays listed as long as no other task
  takes that one. `IInv` says that only one unfinished task is at work
  (`OneOwner`; `Released` carries it through a start that fails and puts the admission of the
  task before it back), that a checkpoint names a recorded task of the same kind (`Sound`), so
  that a retry publishes under an automatic ID, and that the verified backup stays
  listed while no cancelled task has deleted (`VerifiedStays`). That what is listed
  is complete needs `UploadedFirst` and `ErasedAlone`: a backup being erased is neither
  listed nor pinned. `OneOwner` and `ViewCurrent` also give that a reconciliation which read
  the record before it asks the registry fails no task that has a worker; the proof is the
  first half of `TasksEnd`.

The inductive invariants were model-checked before they were proved; `MCAcceptedQueue`
computes the history for that. Lemmas on `CommandLog` state what one more command does to
`Outcome`, and those on `ApplyCommand` what one command does to the durable state, so no
induction over the log is needed.

Only model-checked, and why:

* Liveness under fairness is out of the prover's reach: `ServiceResumes`, `MoveEnds`,
  `AcceptedIsFinished`, the second half of `CommitIsApplied` (`AppliedInOrder` is
  the first), the second half of `TasksEnd` (`OrphansHaveNoWorker` is the first),
  `ScheduleProceeds`, `ConfigurationIsSnapshotted`, `AcknowledgedFinish`, `CallsReturn` and the temporal properties of the other runs.
* `NeverCorrupt` and `AcknowledgedSurvive` of `IngestWAL`: what recovery returns is a fold over the
  frames of the sorted segments, and that it equals what was acknowledged is an induction over
  data. `NeverCorrupt` depends on the fold too, because a plan without its request is
  one kind of corruption.
* `ViewsReadable` of `TenantStorage` without `WritesOwnSnapshots`: it is false there.
* `IngestService` beside an operator who disables the tenant (`SpecOperated`): `OutcomesAreTrue`
  is false there (section 6), and the theorems are about `Spec`.

## 6. Disagreements found

Four have a run that expects a violation; `PROJECT.json` quotes the text each contradicts.

1. `cancelled_move_reserves`: a cancelled move can leave its target reserved, because a
   discard that meets an older retired record leaves no tombstone.
2. `replayed_addition`: a crash between the two transactions of a removal makes one
   replica replay an addition against the record of the later removal and decide
   differently from the others.
3. `disabled_after_publish`: a request that was published before the tenant was disabled
   is recorded as failed when its batch record is retried after it.
4. `recreated_tenant_loses_snapshot`: a compaction that outlives the purge of its tenant
   writes its snapshot into the next generation, because snapshot objects are put
   without a fence, and its record has a higher version than any snapshot there. A
   compaction of the new generation writes its snapshot and the process stops. A sweep
   that keeps one snapshot starts, when no task has the slot, and gives it back. The
   compaction is repeated at the same version, finds its objects with the same content
   and does not write them again; the sweep takes them for superseded by the stale
   record and deletes them; the compaction publishes a manifest that names them.
   The slot excludes the shorter way, a sweep that starts between the writes and
   the publication of one compaction.
   The default of the scheduled sweep keeps two, which needs one more stale record.
   Two milder effects: objects that land between purge and creation make the creation
   refuse until the purge is repeated, and a stale snapshot of one version makes every
   compaction at that version fail with a conflict.

Others were met while modelling and are kept without a run:

* Data that existed before sharding is protected only until the first ownership record
  is written (`shard_ownership.go:65`); a cancelled move removes the protection.
* A snapshot probe after a restart saves a snapshot with an old configuration, and a
  replay that takes several Readys saves one with a later configuration than its index.
* A snapshot that was built earlier lowers the minimum protocol again (`storage.go:386`).
* An ingest log whose outstanding requests and plans exceed `MaxBytes` less the control
  reserve cannot be opened: the mandatory prune of `OpenIngestService` fails with
  `ErrIngestWALFull`. `docs/local-disk.md:388` allows admitted flushes to exceed the
  admission budget and does not say that the log may then refuse to open.
* A `restore_part` that arrives after a `maintenance_reset` returns a plain error and
  stops the replicas, although a comment in `application.go` calls such a command
  "obsolete, rather than a replica failure".
* A finished request that is sent again may be flushed in one group between two that are
  not prepared. `ingestDurableBatchWithHooks` skips it because of its record
  (`ingest_batch.go:246-254`), so the PREPARED record does not name it. If the publication
  fails then, or the process stops, `flushTenant` (`ingest_service.go:1084-1114`) forms
  prepared cohorts from neighbours with one flush ID, and the one in between splits the
  cohort: the first half is found to publish something other than its plan, which is
  `ErrIngestRepairRequired`, again after every restart. `docs/ingest-wal-multiwriter-design.md:117-119`
  tells clients to retry with the same batch identity. It takes three requests, four accepts, groups of
  three and one fault; nothing is lost and no outcome is wrong, but what was acknowledged does
  not finish. The proof of `OutcomesTruth` is not affected: it says what is recorded, not that
  something is.
* A log that fails under a PREPARED record leaves the service ready: `Readiness` looks at
  `fatalErr` (`ingest_service.go:722`), which only an accept, a terminal record or a plan
  that needs repair sets. The group is retried without end, and a
  barrier waits for it, until one of these, a crash or a shutdown comes.
  `docs/local-disk.md:172-173` says "If the WAL service fails or is forced to close, a
  committed-result wait returns the service error promptly."; the test of it fails
  the log under an accept (`ingest_service_test.go:1413-1444`). Without `[]Unnoticed`,
  `AcknowledgedFinish` and `CallsReturn` are violated by it; no safety property is, since on
  such a log nothing is accepted, and nothing published that was not planned before.
* Retention protects the newest backup of its first listing (`backup_retention.go:95-113`)
  and deletes by a second one (146-153). A manifest that a cancelled task still had on its
  way may be listed between the two; it is then the newest automatic backup, retained by
  nobody, and is deleted. `docs/object-backup.md:134` says that "the newest automatic
  snapshot and the just-verified snapshot are always protected". `MaxRetries = 1` shows it.
* The just-verified one is not always protected either. `CancelTask` writes the record,
  which releases the admission, before it stops the worker (`task_control.go:31-46`), and a
  deletion request may be on its way. A retry can then verify and keep the backup that
  the cancelled task is deleting, while it deletes the one the cancelled task had kept, and
  no automatic backup is left. It takes four tasks: with `MaxTasks = 4`, `BackupSlots = 2`,
  `MaxTroubles = 3`, `KeepCount = 1`, `MaxRetries = 1` TLC reaches it. It was met while the
  property was being proved; `BackupsStayRestorable` therefore leaves out what follows such a
  deletion (`overtaken`), and everything else it says is proved for all constants.

## 7. Plan

1. Proofs: the parts of `IngestWAL` that need no induction over frames (what the writer's program
   leaves on disk). They are the only safety properties of the runs without a theorem.
2. `TenantService`, the abstract service of a sharded tenant, refined by `ShardMigration`.
3. The other operations of `Tasks` (restore, repair, export), and replicated maintenance
   tasks, beside a purge.
4. Graph merge and split, and query paging, against reference definitions.

## 8. Not modelled

* Rolling upgrade, drain and leadership hand-off, transport, diagnostics: protocol
  negotiation is a comparison of versions; the rest carries no protocol state.
* Staged restores and the execution of replicated maintenance tasks. Of the task types
  compaction, sweep and object backup are modelled; restore and its drill, repair, export,
  index rebuild and the replay of dead letters are not, nor are the queue limit, the queue
  index and several tenants that share slots. Of retention, `keep_count` 0, the limit of
  100 deletions and `PinReadView` of restores are left out.
* Index building and publication, object and Parquet formats, caches: derived data and
  encodings. The largest files of `internal/storage` are of this kind
  (`parquet_*.go`, `index_*.go`, `cache.go`) and hold no state that steps of two actors share
  beyond the manifest and the views modelled here.
* Collector status and dead letters of ingestion, several tenants that share workers,
  cloning of tenants, remote readers' heartbeats.
* Graph and query algorithms: pure functions over one immutable graph, best tested
  against reference definitions.
* The S3 client, HTTP API, command line, configuration, metrics, user interface, SDK and
  tools: decoding, formatting and wiring.
