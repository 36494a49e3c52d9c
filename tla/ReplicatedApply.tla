--------------------------- MODULE ReplicatedApply ---------------------------
(***************************************************************************)
(* How one replica applies committed commands to its data directory        *)
(* (ha/application.go over storage/replication_checkpoint.go): up to eight *)
(* publications share a journal of before-images, the objects are changed  *)
(* in place, everything is synced, a commit marker is written, and then    *)
(* the checkpoint is published and the journal removed.  A command the     *)
(* application refuses rolls the journal back and is retried or recorded   *)
(* alone; any other failure stops the replica until it is restarted.       *)
(*                                                                         *)
(* The process may stop between any two steps.  disk[k] is the set of      *)
(* contents object k can have after a power loss: a renamed file that was  *)
(* not synced yet may have its old content, its new content or be torn.    *)
(* bbolt transactions and writeFileAtomic are durable when they return.    *)
(***************************************************************************)
EXTENDS CommandLog

CONSTANTS MaxBatch,   \* entries that may share a journal (8)
          Catalog,    \* the object catalogState caches
          MaxFaults   \* bound on crashes and failed operations

VARIABLES log,         \* committed commands
          live,        \* content of the objects
          disk,        \* contents each object may have after a power loss
          before,      \* before-images in pending.db
          marker,      \* commit marker in pending.db; 0: none
          open,        \* pending.db exists
          checkpoint,  \* checkpoint.json
          stage,       \* where ApplyReplicated or recoverReplication stands
          job,         \* the application in progress
          cache,       \* Application.catalogState
          faults       \* crashes and failures so far

vars == <<log, live, disk, before, marker, open, checkpoint, stage, job, cache, faults>>
journalVars == <<before, marker, open>>

Torn    == -1   \* a renamed file whose content never reached the disk
NoImage == -2
NoCache == -2

\* The promise this module is to keep, with the position and the objects that
\* a crash at this moment would recover.
Applied == INSTANCE AppliedPrefix WITH
    index   <- IF marker > 0 THEN marker ELSE checkpoint,
    content <- [k \in Keys |-> IF marker = 0 /\ before[k] # NoImage THEN before[k] ELSE live[k]]

Values == {Absent, Torn} \cup 1..MaxLog
Stages == {"idle", "run", "undo", "rejected", "synced", "publish", "unlink", "failed", "down"}
Reasons == {"none", "reject", "error", "restart"}

\* Only applyCatalog writes the catalog: a control command that never rejects.
ASSUME CommandsAssumption ==
    /\ Commands \subseteq CommandType
    /\ Catalog \in Keys
    /\ \A c \in Commands : c.op[Catalog] # "keep" =>
           c.op[Catalog] = "put" /\ c.class = "control" /\ ~ c.rejects
    /\ MaxLog \in Nat /\ MaxBatch \in Nat \ {0} /\ MaxFaults \in Nat

Idle == [first |-> 0, last |-> 0, at |-> 0, todo |-> {}, aim |-> [k \in Keys |-> Absent],
         snapshot |-> FALSE, why |-> "none", single |-> FALSE]

Init ==
    /\ log = <<>> /\ checkpoint = 0 /\ marker = 0 /\ open = FALSE
    /\ live = [k \in Keys |-> Absent] /\ disk = [k \in Keys |-> {Absent}]
    /\ before = [k \in Keys |-> NoImage]
    /\ stage = "idle" /\ job = Idle /\ cache = NoCache /\ faults = 0

\* Raft commits one more command.
Choose(c) ==
    /\ Len(log) < MaxLog
    /\ log' = Append(log, c)
    /\ UNCHANGED <<live, disk, journalVars, checkpoint, stage, job, cache, faults>>

\* publicationCommand of one kind: acceptance and graph publication are kept apart.
sharesJournal(a, b) == a.class # "control" /\ a.class = b.class

\* Mutant: the whole window is tried again after a rejection.
retryWidthAll == MaxBatch

\* After a rejection the first entry is retried alone.
retryWidth == IF job.single THEN 1 ELSE MaxBatch

ApplyBatch(n) ==
    /\ stage = "idle"
    /\ n <= retryWidth /\ checkpoint + n <= Len(log)
    /\ \A i \in 2..n : sharesJournal(log[checkpoint + 1], log[checkpoint + i])
    /\ stage' = "run" /\ open' = TRUE
    /\ job' = [first |-> checkpoint + 1, last |-> checkpoint + n, at |-> checkpoint + 1,
               todo |-> Touches(log, checkpoint + 1), aim |-> Written(log, checkpoint + 1),
               snapshot |-> FALSE, why |-> "none", single |-> FALSE]
    /\ UNCHANGED <<log, live, disk, before, marker, checkpoint, cache, faults>>

\* Mutant: catalogState survives the installation of a snapshot.
cacheKept == cache

\* catalogState once a snapshot is being installed.
cacheOnRestore == NoCache

\* Restore, RestoreSnapshot: a received snapshot replaces every object.
InstallReplicationSnapshot(n) ==
    /\ stage = "idle" /\ ~ job.single
    /\ n > checkpoint /\ n <= Len(log)
    /\ stage' = "run" /\ open' = TRUE /\ cache' = cacheOnRestore
    /\ job' = [first |-> n, last |-> n, at |-> n, aim |-> Outcome(log, n),
               todo |-> {k \in Keys : live[k] # Absent \/ Outcome(log, n)[k] # Absent},
               snapshot |-> TRUE, why |-> "none", single |-> FALSE]
    /\ UNCHANGED <<log, live, disk, before, marker, checkpoint, faults>>

\* The first mutation of an object in an application stores its before-image.
journalObject(k) ==
    /\ stage = "run" /\ k \in job.todo /\ before[k] = NoImage
    /\ before' = [before EXCEPT ![k] = live[k]]
    /\ UNCHANGED <<log, live, disk, marker, open, checkpoint, stage, job, cache, faults>>

\* Mutant: objects are changed before their before-image is stored.
journaledNever(k) == TRUE

journaled(k) == before[k] # NoImage

\* PutConditional, DeleteConditional, putReader.
writeObject(k) ==
    /\ stage = "run" /\ k \in job.todo
    /\ journaled(k) \/ (live[k] = Absent /\ job.aim[k] = Absent)
    /\ live' = [live EXCEPT ![k] = job.aim[k]]
    /\ disk' = [disk EXCEPT ![k] = @ \cup {job.aim[k]} \cup
                                   (IF job.aim[k] = Absent THEN {} ELSE {Torn})]
    /\ job' = [job EXCEPT !.todo = @ \ {k}]
    /\ UNCHANGED <<log, journalVars, checkpoint, stage, cache, faults>>

\* Every mutation of the current command has been made, and it was accepted.
Completed == stage = "run" /\ job.todo = {} /\ (job.snapshot \/ ~ log[job.at].rejects)

NextCommand ==
    /\ Completed /\ job.at < job.last
    /\ job' = [job EXCEPT !.at = job.at + 1, !.todo = Touches(log, job.at + 1),
                          !.aim = Written(log, job.at + 1)]
    /\ UNCHANGED <<log, live, disk, journalVars, checkpoint, stage, cache, faults>>

\* Mutant: an object without a before-image is rolled back like the others.
ImagedAll == Keys

\* Objects with a before-image are those a rollback restores.
Imaged == {k \in Keys : before[k] # NoImage}

\* The handler answers 4xx: a rejection, after none, some or all of its writes.
Reject ==
    /\ stage = "run" /\ ~ job.snapshot /\ log[job.at].rejects
    /\ stage' = "undo" /\ cache' = NoCache
    /\ job' = [job EXCEPT !.todo = Imaged, !.why = "reject"]
    /\ UNCHANGED <<log, live, disk, journalVars, checkpoint, faults>>

\* Any other failure of a handler or a file operation, and cancellation.
ApplyError ==
    /\ stage = "run" /\ faults < MaxFaults /\ faults' = faults + 1
    /\ stage' = "undo" /\ cache' = NoCache
    /\ job' = [job EXCEPT !.todo = Imaged, !.why = "error"]
    /\ UNCHANGED <<log, live, disk, journalVars, checkpoint>>

\* Mutant: the files are not synced before the commit marker.
syncedNothing == disk

\* syncPendingDirectories, syncFiles, syncDirectories.
syncedObjects == [k \in Keys |-> IF before[k] # NoImage THEN {live[k]} ELSE disk[k]]

SyncBarrier ==
    /\ Completed /\ job.at = job.last
    /\ disk' = syncedObjects
    /\ stage' = "synced"
    /\ UNCHANGED <<log, live, journalVars, checkpoint, job, cache, faults>>

CommitMarker ==
    /\ stage = "synced"
    /\ marker' = job.last /\ stage' = "publish"
    /\ UNCHANGED <<log, live, disk, before, open, checkpoint, job, cache, faults>>

PublishCheckpoint ==
    /\ stage = "publish"
    /\ checkpoint' = marker /\ stage' = "unlink"
    /\ UNCHANGED <<log, live, disk, journalVars, job, cache, faults>>

\* The catalog as the commands just committed left it, if they wrote it.
catalogStatePending ==
    IF /\ job.why = "none" /\ ~ job.snapshot
       /\ \E i \in job.first..job.last : log[i].op[Catalog] = "put"
    THEN live[Catalog] ELSE cache

\* pending.db is removed, and the application is done or undone.
RemoveJournal ==
    /\ stage = "unlink"
    /\ before' = [k \in Keys |-> NoImage] /\ marker' = 0 /\ open' = FALSE
    /\ stage' = "idle" /\ job' = Idle
    /\ cache' = catalogStatePending
    /\ UNCHANGED <<log, live, disk, checkpoint, faults>>

\* recoverReplication without a commit marker.
RestoreImage(k) ==
    /\ stage = "undo" /\ k \in job.todo
    /\ live' = [live EXCEPT ![k] = before[k]] /\ disk' = [disk EXCEPT ![k] = {before[k]}]
    /\ job' = [job EXCEPT !.todo = @ \ {k}]
    /\ UNCHANGED <<log, journalVars, checkpoint, stage, cache, faults>>

\* Where an undone application goes on: a shared journal is retried entry by
\* entry, a lone rejected entry is recorded, an error stops the replica.
RolledBack ==
    /\ stage = "undo" /\ job.todo = {}
    /\ before' = [k \in Keys |-> NoImage] /\ marker' = 0 /\ open' = FALSE
    /\ \/ job.why = "restart" /\ stage' = "idle" /\ job' = Idle
       \/ job.why = "error" /\ stage' = "failed" /\ job' = Idle
       \/ /\ job.why = "reject" /\ job.first < job.last
          /\ stage' = "idle" /\ job' = [Idle EXCEPT !.single = TRUE]
       \/ job.why = "reject" /\ job.first = job.last /\ stage' = "rejected" /\ UNCHANGED job
    /\ UNCHANGED <<log, live, disk, checkpoint, cache, faults>>

\* The rejection's response is applied as an empty command at its position.
RecordRejection ==
    /\ stage = "rejected"
    /\ open' = TRUE /\ stage' = "synced"
    /\ UNCHANGED <<log, live, disk, before, marker, checkpoint, job, cache, faults>>

\* A failing sync (of the new journal, or of the objects), marker, checkpoint or
\* removal leaves the journal in place and stops the replica (Node.fail); so does
\* a failing rollback.
StopOnError ==
    /\ stage \in {"run", "undo", "rejected", "synced", "publish", "unlink"}
    /\ stage = "run" => Imaged = {} \/ (Completed /\ job.at = job.last)
    /\ faults < MaxFaults /\ faults' = faults + 1
    /\ stage' = "failed" /\ job' = Idle /\ cache' = NoCache
    /\ UNCHANGED <<log, live, disk, journalVars, checkpoint>>

Crash ==
    /\ stage # "down" /\ faults < MaxFaults /\ faults' = faults + 1
    /\ \E lost \in [Keys -> Values] :
          /\ \A k \in Keys : lost[k] \in disk[k]
          /\ live' = lost /\ disk' = [k \in Keys |-> {lost[k]}]
    /\ stage' = "down" /\ job' = Idle /\ cache' = NoCache
    /\ UNCHANGED <<log, journalVars, checkpoint>>

\* A stopped replica is restarted without a power loss.
Stop ==
    /\ stage = "failed"
    /\ stage' = "down" /\ job' = Idle /\ cache' = NoCache
    /\ UNCHANGED <<log, live, disk, journalVars, checkpoint, faults>>

\* Mutant: a journal without a marker is taken for an empty one.
restartStageForgetful == IF marker > 0 THEN "publish" ELSE "idle"

restartStage == IF ~ open THEN "idle" ELSE IF marker > 0 THEN "publish" ELSE "undo"

\* OpenFileStore runs recoverReplication before any reader is admitted.
Restart ==
    /\ stage = "down"
    /\ stage' = restartStage
    /\ job' = [Idle EXCEPT !.todo = IF restartStage = "undo" THEN Imaged ELSE {},
                           !.why = IF restartStage = "idle" THEN "none" ELSE "restart"]
    /\ UNCHANGED <<log, live, disk, journalVars, checkpoint, cache, faults>>

\* Application.catalog, under the application lock.
ReadCatalog ==
    /\ stage = "idle" /\ cache = NoCache /\ live[Catalog] # Absent
    /\ cache' = live[Catalog]
    /\ UNCHANGED <<log, live, disk, journalVars, checkpoint, stage, job, faults>>

-----------------------------------------------------------------------------
Application ==
    \/ \E n \in 1..MaxBatch : ApplyBatch(n)
    \/ \E k \in Keys : journalObject(k) \/ writeObject(k) \/ RestoreImage(k)
    \/ NextCommand \/ Reject \/ SyncBarrier \/ CommitMarker \/ PublishCheckpoint
    \/ RemoveJournal \/ RolledBack \/ RecordRejection

Next ==
    \/ \E c \in Commands : Choose(c)
    \/ Application
    \/ \E n \in 1..MaxLog : InstallReplicationSnapshot(n)
    \/ ApplyError \/ StopOnError \/ Crash \/ Stop \/ Restart \/ ReadCatalog

Spec == Init /\ [][Next]_vars

\* The apply loop runs while the node does; a stopped process is restarted.
FairSpec == Spec /\ WF_vars(Application) /\ WF_vars(Stop) /\ WF_vars(Restart)

-----------------------------------------------------------------------------
TypeOK ==
    /\ log \in Seq(Commands) /\ Len(log) <= MaxLog
    /\ live \in [Keys -> Values]
    /\ disk \in [Keys -> SUBSET Values]
    /\ before \in [Keys -> Values \cup {NoImage}]
    /\ marker \in 0..MaxLog /\ checkpoint \in 0..MaxLog /\ open \in BOOLEAN
    /\ stage \in Stages
    /\ job \in [first : 0..MaxLog, last : 0..MaxLog, at : 0..MaxLog, todo : SUBSET Keys,
                aim : [Keys -> Values], snapshot : BOOLEAN, why : Reasons, single : BOOLEAN]
    /\ cache \in Values \cup {NoCache}
    /\ faults \in 0..MaxFaults

(***************************************************************************)
(* Whenever the replica is ready to apply or to serve, its objects are     *)
(* exactly the outcome of the commands up to checkpoint.json: no crash,    *)
(* rollback, rejection or interrupted recovery leaves part of a command    *)
(* behind or loses one that the checkpoint covers.                         *)
(***************************************************************************)
CheckpointMatchesObjects == stage = "idle" => ~ open /\ live = Outcome(log, checkpoint)

(***************************************************************************)
(* Every step of journal, objects, marker and checkpoint implements at     *)
(* most one atomic advance over a prefix of the log.                       *)
(***************************************************************************)
AppliesAtomically == Applied!Spec

(***************************************************************************)
(* catalogState never shows a catalog that was not committed, nor an older *)
(* one than the checkpoint covers.                                         *)
(***************************************************************************)
CatalogCacheCurrent == stage = "idle" /\ cache # NoCache => cache = Outcome(log, checkpoint)[Catalog]

(***************************************************************************)
(* A committed command is eventually covered by the checkpoint: a rejected *)
(* neighbour, a crash or a failure delays the log but never blocks it.     *)
(***************************************************************************)
LogIsDrained == \A n \in 1..MaxLog : Len(log) >= n ~> checkpoint >= n
=============================================================================
