--------------------------- MODULE TenantStorage ---------------------------
(***************************************************************************)
(* The objects of one tenant in the local file store, and everything that  *)
(* touches them at once: direct commits with an idempotency key            *)
(* (tenant_commit.go, commit_idempotency.go), the compaction that folds    *)
(* the commit tail into a snapshot while commits go on (task_compact.go,   *)
(* local_compact.go), the sweep that removes what the manifest no longer   *)
(* names (gc.go), the views that keep files alive for readers              *)
(* (file_views.go, gc_views.go), and the purge that ends a generation of   *)
(* the tenant (tenant_lifecycle.go).  Only commits, sweeps, purges and the *)
(* last step of a compaction hold the tenant lock.                         *)
(***************************************************************************)
EXTENDS Naturals, Sequences, FiniteSets, FiniteSetsExt

CONSTANTS
  Keys,           \* idempotency keys, each with the one request it stands for
  Readers,        \* callers of PinReadView
  SegmentTarget,  \* loose commits that make a segment
  Keep,           \* KeepSnapshots
  MaxRetired,     \* size of the retirement table
  Workloads       \* bounds: tries, skips, compactions, purges, crashes, faults and
                  \* pauses; the keys and readers that come; whether a sweep does

ASSUME SizesAreCounts ==
  SegmentTarget \in Nat \ {0} /\ Keep \in Nat \ {0} /\ MaxRetired \in Nat

WorkloadType ==
  [tries : Nat, skips : Nat, compactions : Nat, purges : Nat, crashes : Nat, faults : Nat, pauses : Nat,
   keys : SUBSET Keys, readers : SUBSET Readers, sweep : BOOLEAN]

ASSUME WorkloadsAreTyped == Workloads \subseteq WorkloadType

VARIABLES
  manifest,  \* the published root
  files,     \* commit, segment and snapshot objects
  records,   \* idempotency record of each key
  tenant,    \* phase of the purge tombstone, and the generation of the lease
  lock,      \* holder of the tenant lock
  writer,    \* the commit under way for each key
  reader,    \* the views of readers
  comp,      \* the compaction under way
  gc,        \* the sweep under way
  retired,   \* objects proven unreachable, with the views older than the proof
  history,   \* the commits that were published, in order
  left       \* what remains of the workload

vars == <<manifest, files, records, tenant, lock, writer, reader, comp, gc,
          retired, history, left>>

Nobody == "nobody"
Compactor == "compactor"
Sweeper == "sweeper"
Purger == "purger"

NoCommit == <<"none", 0>>
EmptyManifest == [version |-> 0, head |-> NoCommit, snap |-> 0, tail |-> {}]
NoRecord == [state |-> "none", version |-> 0, id |-> NoCommit, skipped |-> FALSE]
Pending == [NoRecord EXCEPT !.state = "pending"]
IdleWriter == [at |-> "idle", try |-> 0, held |-> NoRecord, next |-> EmptyManifest, made |-> {}]
IdleReader == [at |-> "idle", m |-> EmptyManifest]
IdleComp == [at |-> "idle", m |-> EmptyManifest, ids |-> <<>>, fence |-> 0,
             wrote |-> {}, todo |-> {}, key |-> Nobody, seen |-> NoRecord,
             settled |-> NoRecord]
IdleGC == [at |-> "idle", m |-> EmptyManifest, listed |-> {}, moved |-> FALSE]

ASSUME RolesAreNoKeys == Keys \intersect {Nobody, Compactor, Sweeper, Purger} = {}

\* A view is a handle of its own, whoever holds it.
ASSUME ViewsAreDistinct == Keys \intersect Readers = {}

\* An object: a commit or segment holds the commits lo..hi, a snapshot the
\* whole graph.  A snapshot is written as pages with a catalog and as one
\* record, both under a key that names nothing but the version.
Object(kind, lo, hi, ids) == [kind |-> kind, lo |-> lo, hi |-> hi, ids |-> ids]
IsSnapshot(o) == o.kind \in {"pages", "record"}
SameKey(o, p) ==
  o.kind = p.kind /\ o.hi = p.hi /\ (IsSnapshot(o) \/ o.ids = p.ids)
SnapshotIn(objects, kind, version) == {o \in objects : o.kind = kind /\ o.hi = version}

Views ==
  {k \in Keys : writer[k].at \notin {"idle", "completing"}}
    \union {r \in Readers : reader[r].at # "idle"}
Free == lock = Nobody

Init ==
  /\ manifest = EmptyManifest /\ files = {} /\ history = <<>>
  /\ records = [k \in Keys |-> NoRecord]
  /\ tenant = [phase |-> "active", generation |-> 1]
  /\ lock = Nobody
  /\ writer = [k \in Keys |-> IdleWriter]
  /\ reader = [r \in Readers |-> IdleReader]
  /\ comp = IdleComp /\ gc = IdleGC
  /\ retired = <<>>
  /\ left \in Workloads

Spent(what) == left[what] > 0 /\ left' = [left EXCEPT ![what] = @ - 1]

----------------------------------------------------------------------------
(* What a manifest names, and what is read through it.                     *)

\* A snapshot is read through its catalog; the record is kept beside it.
Complete(m) == m.tail \subseteq files /\ (m.snap > 0 => SnapshotIn(files, "pages", m.snap) # {})

TailCommit(m, v) ==
  LET o == CHOOSE o \in m.tail : o.lo <= v /\ v <= o.hi IN o.ids[v - o.lo + 1]
InTail(m, v) == \E o \in m.tail : o.lo <= v /\ v <= o.hi

\* The snapshot followed by the commits of the tail that are newer.
GraphOf(m) ==
  LET base == IF m.snap = 0 THEN <<>>
              ELSE (CHOOSE o \in SnapshotIn(files, "pages", m.snap) : TRUE).ids
  IN base \o [i \in 1..(m.version - m.snap) |-> TailCommit(m, m.snap + i)]

----------------------------------------------------------------------------
(* Views.  A proof of unreachability remembers the views that were active, *)
(* and the gate with everything it remembers goes with its last user.      *)

Shrunk(v) ==
  IF Views \ {v} = {} /\ gc.at # "sweeping" THEN <<>>
  ELSE [o \in DOMAIN retired |-> retired[o] \ {v}]

\* A reader pins a view and then reads the manifest.
PinReadView(r) ==
  /\ r \in left.readers /\ reader[r].at = "idle" /\ lock # Purger /\ tenant.phase = "active"
  /\ reader' = [reader EXCEPT ![r] = [at |-> "reading", m |-> manifest]]
  /\ UNCHANGED <<manifest, files, records, tenant, lock, writer, comp, gc, retired, history, left>>

Release(r) ==
  /\ reader[r].at # "idle"
  /\ reader' = [reader EXCEPT ![r] = IdleReader]
  /\ retired' = Shrunk(r)
  /\ UNCHANGED <<manifest, files, records, tenant, lock, writer, comp, gc, history, left>>

----------------------------------------------------------------------------
(* Direct commits.                                                         *)

\* A view is pinned before the lock is waited for; whether the tenant can be
\* written was looked up earlier and is looked up again under the lock.
BeginCommit(k) ==
  /\ k \in left.keys /\ writer[k].at = "idle" /\ lock # Purger
  /\ Spent("tries")
  /\ writer' = [writer EXCEPT ![k].at = "waiting", ![k].try = left.tries]
  /\ UNCHANGED <<manifest, files, records, tenant, lock, reader, comp, gc, retired, history>>

\* Mutant: a version that was reached is taken for the request's own.
VerdictByVersion(rec) ==
  IF rec.skipped \/ manifest.version >= rec.version THEN "published" ELSE "not"

\* directCommitPreparedPublished: did the commit a prepared record names get
\* into the manifest?
Verdict(rec) ==
  IF rec.skipped THEN "published"
  ELSE IF manifest.version < rec.version THEN "not"
  ELSE IF manifest.version = rec.version
       THEN IF manifest.head = rec.id THEN "published" ELSE "not"
  ELSE IF manifest.snap >= rec.version THEN "ambiguous"
  ELSE IF InTail(manifest, rec.version) /\ TailCommit(manifest, rec.version) = rec.id
       THEN "published" ELSE "not"

Committed(rec) == [rec EXCEPT !.state = "committed"]

Leave(k) ==
  /\ lock' = IF lock = k THEN Nobody ELSE lock
  /\ writer' = [writer EXCEPT ![k] = IdleWriter]
  /\ retired' = Shrunk(k)

\* The lock is held and the tenant still writable: a new request reserves its
\* key, a retried one learns what became of it.
Reserve(k) ==
  /\ writer[k].at = "waiting" /\ Free /\ tenant.phase = "active"
  /\ LET rec == records[k]
         take(r) == /\ lock' = k
                    /\ writer' = [writer EXCEPT ![k].at = "reserved", ![k].held = r]
                    /\ records' = [records EXCEPT ![k] = r]
                    /\ UNCHANGED retired
     IN \/ rec.state = "none" /\ take(Pending)
        \/ rec.state = "pending" /\ take(rec)
        \/ rec.state = "committed" /\ Leave(k) /\ UNCHANGED records
        \/ /\ rec.state = "prepared"
           /\ \/ Verdict(rec) = "not" /\ take(rec)
              \/ /\ Verdict(rec) = "published" /\ Leave(k)
                 /\ records' = [records EXCEPT ![k] = Committed(rec)]
              \/ Verdict(rec) = "ambiguous" /\ Leave(k) /\ UNCHANGED records
  /\ UNCHANGED <<manifest, files, tenant, reader, comp, gc, history, left>>

\* The tenant was purged while the call waited for the lock.
Refused(k) ==
  /\ writer[k].at = "waiting" /\ Free /\ tenant.phase # "active"
  /\ Leave(k)
  /\ UNCHANGED <<manifest, files, records, tenant, reader, comp, gc, history, left>>

\* Nothing would change: the outcome is recorded without a commit.
Skip(k) ==
  /\ writer[k].at = "reserved" /\ records[k] = writer[k].held /\ Spent("skips")
  /\ LET rec == [state |-> "prepared", version |-> manifest.version, id |-> manifest.head,
                 skipped |-> TRUE]
     IN /\ records' = [records EXCEPT ![k] = rec]
        /\ writer' = [writer EXCEPT ![k].at = "published", ![k].held = rec]
  /\ lock' = Nobody
  /\ UNCHANGED <<manifest, files, tenant, reader, comp, gc, retired, history>>

Loose(m) == {o \in m.tail : o.kind = "commit"}

\* Loose commits are gathered in a segment once there are enough.
Segmented(m) ==
  LET lo == Min({o.lo : o \in Loose(m)})
      commits == [i \in 1..(m.version - lo + 1) |-> TailCommit(m, lo + i - 1)]
  IN IF Cardinality(Loose(m)) < SegmentTarget THEN m
     ELSE [m EXCEPT !.tail = (@ \ Loose(m)) \union {Object("segment", lo, m.version, commits)}]

\* The commit object, with a new ID, and the segment are written before
\* anything names them.
PutCommit(k) ==
  /\ writer[k].at = "reserved"
  /\ LET id == <<k, writer[k].try>>
         v == manifest.version + 1
         o == Object("commit", v, v, <<id>>)
         next == Segmented([manifest EXCEPT !.version = v, !.head = id, !.tail = @ \union {o}])
     IN /\ files' = files \union {o} \union next.tail
        /\ writer' = [writer EXCEPT ![k].at = "put", ![k].made = {o}, ![k].next = next]
  /\ UNCHANGED <<manifest, records, tenant, lock, reader, comp, gc, retired, history, left>>

\* The deferred cleanup: the commit object goes unless the head may name it.
Cleaned(k) ==
  IF manifest.version >= writer[k].next.version THEN files ELSE files \ writer[k].made

\* Any step before the publication fails, or the record has been changed by
\* a compaction that settled it.
CommitFails(k) ==
  /\ \/ writer[k].at \in {"put", "prepared"} /\ Spent("faults")
     \/ /\ writer[k].at \in {"reserved", "put"} /\ records[k] # writer[k].held
        /\ UNCHANGED left
  /\ files' = IF writer[k].at = "reserved" THEN files ELSE Cleaned(k)
  /\ Leave(k)
  /\ UNCHANGED <<manifest, records, tenant, reader, comp, gc, history>>

Prepare(k) ==
  /\ writer[k].at = "put" /\ records[k] = writer[k].held
  /\ LET rec == [state |-> "prepared", version |-> writer[k].next.version,
                 id |-> writer[k].next.head, skipped |-> FALSE]
     IN /\ records' = [records EXCEPT ![k] = rec]
        /\ writer' = [writer EXCEPT ![k].at = "prepared", ![k].held = rec]
  /\ UNCHANGED <<manifest, files, tenant, lock, reader, comp, gc, retired, history, left>>

\* The manifest is replaced and the lock released; the view is kept while
\* the indexes follow.
Publish(k) ==
  /\ writer[k].at = "prepared"
  /\ manifest' = writer[k].next
  /\ history' = Append(history, writer[k].next.head)
  /\ lock' = Nobody
  /\ writer' = [writer EXCEPT ![k].at = "published"]
  /\ UNCHANGED <<files, records, tenant, reader, comp, gc, retired, left>>

\* The manifest was replaced although its write returned an error.
PublishUnanswered(k) ==
  /\ writer[k].at = "prepared" /\ Spent("faults")
  /\ manifest' = writer[k].next
  /\ history' = Append(history, writer[k].next.head)
  /\ Leave(k)
  /\ UNCHANGED <<files, records, tenant, reader, comp, gc>>

\* The view is released before the record is completed.
FinishIndexes(k) ==
  /\ writer[k].at = "published"
  /\ writer' = [writer EXCEPT ![k].at = "completing"]
  /\ retired' = Shrunk(k)
  /\ UNCHANGED <<manifest, files, records, tenant, lock, reader, comp, gc, history, left>>

\* completeDirectCommit, outside lock and view: a retry or a compaction may
\* have been faster.
CompleteCommit(k) ==
  /\ writer[k].at = "completing"
  /\ records' = IF records[k] = writer[k].held
                THEN [records EXCEPT ![k] = Committed(writer[k].held)] ELSE records
  /\ writer' = [writer EXCEPT ![k] = IdleWriter]
  /\ UNCHANGED <<manifest, files, tenant, lock, reader, comp, gc, retired, history, left>>

----------------------------------------------------------------------------
(* Compaction.  Everything before the last step runs without the tenant    *)
(* lock and without a view; a fence bound at the start ties it to the      *)
(* generation of the tenant.                                               *)

StopCompaction == comp' = IdleComp
FenceCurrent == tenant.phase # "purged" /\ comp.fence = tenant.generation

StartCompaction ==
  /\ comp.at = "idle" /\ tenant.phase = "active" /\ manifest.version > 0
  /\ Spent("compactions")
  /\ comp' = [IdleComp EXCEPT !.at = "loading", !.m = manifest, !.fence = tenant.generation]
  /\ UNCHANGED <<manifest, files, records, tenant, lock, writer, reader, gc, retired, history>>

\* loadWithMeta: objects that are gone are excused by a newer manifest.
LoadGraph ==
  /\ comp.at = "loading"
  /\ comp' = IF ~Complete(comp.m)
             THEN IF comp.m = manifest THEN IdleComp ELSE [comp EXCEPT !.m = manifest]
             ELSE IF comp.m.snap = comp.m.version \/ ~FenceCurrent THEN IdleComp
             ELSE [comp EXCEPT !.at = "writing", !.ids = GraphOf(comp.m)]
  /\ UNCHANGED <<manifest, files, records, tenant, lock, writer, reader, gc, retired, history, left>>

\* Pages and record are written side by side, without a fence.  An object
\* under the same key must have the same content.
PutSnapshot(kind) ==
  /\ comp.at = "writing" /\ kind \notin comp.wrote
  /\ LET o == Object(kind, 1, comp.m.version, comp.ids)
         there == SnapshotIn(files, kind, o.hi)
     IN /\ IF there \subseteq {o} THEN comp' = [comp EXCEPT !.wrote = @ \union {kind}]
                                  ELSE StopCompaction
        /\ IF there = {}
           THEN /\ files' = files \union {o}
                /\ retired' = [p \in {q \in DOMAIN retired : ~SameKey(o, q)} |-> retired[p]]
                /\ gc' = [gc EXCEPT !.moved = @ \/ (gc.at = "sweeping" /\ kind = "pages")]
           ELSE UNCHANGED <<files, retired, gc>>
  /\ UNCHANGED <<manifest, records, tenant, lock, writer, reader, history, left>>

\* The progress of the task is stored under the fence.
SnapshotWritten ==
  /\ comp.at = "writing" /\ comp.wrote = {"pages", "record"}
  /\ comp' = IF FenceCurrent THEN [comp EXCEPT !.at = "settling", !.todo = Keys] ELSE IdleComp
  /\ UNCHANGED <<manifest, files, records, tenant, lock, writer, reader, gc, retired, history, left>>

\* Mutant: the version of the snapshot itself is left out.
UnsettledBelow(rec) == rec.state = "prepared" /\ rec.version < comp.m.version

\* Records whose commit the compaction would make unrecognisable.
Unsettled(rec) == rec.state = "prepared" /\ rec.version <= comp.m.version

\* settleDirectCommitsBeforeCompaction reads a record ...
SettleRead(k) ==
  /\ comp.at = "settling" /\ k \in comp.todo
  /\ comp' = IF ~Unsettled(records[k]) THEN [comp EXCEPT !.todo = @ \ {k}]
             ELSE IF Verdict(records[k]) = "ambiguous" THEN IdleComp
             ELSE [comp EXCEPT !.at = "replacing", !.todo = @ \ {k}, !.key = k, !.seen = records[k],
                     !.settled = IF Verdict(records[k]) = "published"
                                 THEN Committed(records[k]) ELSE Pending]
  /\ UNCHANGED <<manifest, files, records, tenant, lock, writer, reader, gc, retired, history, left>>

\* ... and replaces it under the fence by what it was found to be, unless a
\* retry of the request was faster.
SettlePut(k) ==
  /\ comp.at = "replacing" /\ comp.key = k
  /\ LET again == [comp EXCEPT !.at = "settling", !.key = Nobody, !.seen = NoRecord,
                      !.settled = NoRecord]
     IN IF FenceCurrent /\ records[k] = comp.seen
        THEN /\ records' = [records EXCEPT ![k] = comp.settled]
             /\ comp' = again
        ELSE /\ UNCHANGED records
             /\ comp' = IF FenceCurrent /\ records[k] = comp.settled /\ comp.settled # Pending
                        THEN again ELSE IdleComp
  /\ UNCHANGED <<manifest, files, tenant, lock, writer, reader, gc, retired, history, left>>

LockForPublication ==
  /\ comp.at = "settling" /\ comp.todo = {} /\ Free
  /\ IF FenceCurrent /\ tenant.phase = "active"
     THEN lock' = Compactor /\ comp' = [comp EXCEPT !.at = "locked"]
     ELSE UNCHANGED lock /\ StopCompaction
  /\ UNCHANGED <<manifest, files, records, tenant, writer, reader, gc, retired, history, left>>

\* Whether the head still descends from what was compacted.
Descends ==
  LET S == comp.m.version
  IN IF manifest.version = S THEN manifest = comp.m
     ELSE manifest.version > S /\ InTail(manifest, S) /\ TailCommit(manifest, S) = comp.m.head

TailAfter(m, version) == {o \in m.tail : o.hi > version}

PublishCompaction ==
  /\ comp.at = "locked"
  /\ manifest' = IF manifest.snap < comp.m.version /\ Descends
                 THEN [manifest EXCEPT !.snap = comp.m.version,
                                       !.tail = TailAfter(manifest, comp.m.version)]
                 ELSE manifest
  /\ lock' = Nobody
  /\ StopCompaction
  /\ UNCHANGED <<files, records, tenant, writer, reader, gc, retired, history, left>>

----------------------------------------------------------------------------
(* The sweep.  It starts under the task slot of the tenant, which a         *)
(* compaction keeps to its end, and leaves out what is written after that;  *)
(* then it gives the slot back and holds the lock for a batch at a time.    *)

\* The sweep after an index rebuild, which keeps two snapshots, has given
\* the slot back before it starts.
SlotFree == comp.at = "idle" \/ Keep = 2

\* Of a tenant that is being purged the first batch finds nothing to list.
StartGC ==
  /\ left.sweep /\ gc.at = "idle" /\ SlotFree
  /\ gc' = [IdleGC EXCEPT !.at = "paused", !.listed = IF tenant.phase = "active" THEN files ELSE {}]
  /\ UNCHANGED <<manifest, files, records, tenant, lock, writer, reader, comp, retired, history, left>>

\* A batch, the first of a run or the one after a pause.
RunGC ==
  /\ gc.at = "paused" /\ Free
  /\ IF tenant.phase = "active"
     THEN lock' = Sweeper /\ gc' = [gc EXCEPT !.at = "sweeping", !.m = manifest]
     ELSE UNCHANGED lock /\ gc' = IdleGC
  /\ UNCHANGED <<manifest, files, records, tenant, writer, reader, comp, retired, history, left>>

\* A commit or segment that the manifest does not name and has passed.
Unreferenced(o, m) == ~IsSnapshot(o) /\ o \notin m.tail /\ o.hi <= m.version

\* The newest snapshots are kept whether or not the manifest names them.
Superseded(o, m, listing) ==
  /\ IsSnapshot(o) /\ o.hi # m.snap
  /\ SnapshotIn(listing, "record", o.hi) # {}
  /\ Cardinality({p \in listing : p.kind = "record" /\ p.hi > o.hi}) >= Keep

\* Pages that no record goes with.
Orphaned(o, m) == o.kind = "pages" /\ o.hi < m.snap /\ SnapshotIn(files, "record", o.hi) = {}

\* What the sweep may remove when it knows manifest m.
Unreachable(m, listing) ==
  {o \in listing \intersect files :
     Unreferenced(o, m) \/ Superseded(o, m, listing) \/ Orphaned(o, m)}

\* Mutant: an object that was retired before is deleted on the next visit.
CanDeleteRetired(o) == ~gc.moved /\ (o \in DOMAIN retired \/ Views = {})

\* Mutant: every view protects the object, not only older ones.
CanDeleteIdle(o) == ~gc.moved /\ Views = {}

\* Only views older than the proof protect the object.
CanDelete(o) ==
  /\ ~gc.moved
  /\ IF o \in DOMAIN retired THEN retired[o] = {} ELSE Views = {}

\* One object, after which the batch may be over.
Visit(o) ==
  /\ gc.at = "sweeping" /\ o \in Unreachable(gc.m, gc.listed)
  /\ LET table == IF CanDelete(o) THEN Restrict(retired, DOMAIN retired \ {o})
                  ELSE IF o \in DOMAIN retired \/ gc.moved
                          \/ Cardinality(DOMAIN retired) >= MaxRetired THEN retired
                  ELSE [p \in DOMAIN retired \union {o} |-> IF p = o THEN Views ELSE retired[p]]
         rest == [gc EXCEPT !.listed = @ \ {o}]
     IN /\ files' = IF CanDelete(o) THEN files \ {o} ELSE files
        /\ \/ gc' = rest /\ retired' = table /\ UNCHANGED <<lock, left>>
           \/ /\ gc' = [rest EXCEPT !.at = "paused", !.m = EmptyManifest, !.moved = FALSE]
              /\ retired' = IF Views = {} THEN <<>> ELSE table
              /\ lock' = Nobody /\ Spent("pauses")
  /\ UNCHANGED <<manifest, records, tenant, writer, reader, comp, history>>

EndGC ==
  /\ gc.at = "sweeping" /\ Unreachable(gc.m, gc.listed) = {}
  /\ gc' = IdleGC /\ lock' = Nobody
  /\ retired' = IF Views = {} THEN <<>> ELSE retired
  /\ UNCHANGED <<manifest, files, records, tenant, writer, reader, comp, history, left>>

----------------------------------------------------------------------------
(* Purge and recreation.  A purge waits for every view and for the lock,   *)
(* but neither waits for nor stops a compaction.                           *)

BeginPurge ==
  /\ Free /\ Views = {}
  /\ \/ tenant.phase = "active" /\ Spent("purges")
     \/ tenant.phase = "purging" /\ UNCHANGED left
     \/ /\ tenant.phase = "purged" /\ files # {}
        /\ UNCHANGED left
  /\ lock' = Purger
  /\ tenant' = [tenant EXCEPT !.phase = "purging"]
  /\ UNCHANGED <<manifest, files, records, writer, reader, comp, gc, retired, history>>

PurgeObjects ==
  /\ lock = Purger /\ tenant.phase = "purging"
  /\ files' = {} /\ records' = [k \in Keys |-> NoRecord]
  /\ manifest' = EmptyManifest /\ history' = <<>>
  /\ tenant' = [tenant EXCEPT !.phase = "purged"]
  /\ lock' = Nobody
  /\ UNCHANGED <<writer, reader, comp, gc, retired, left>>

\* The purge removed the lease; the next has the epoch after the one that the
\* tombstone remembers.
NewLease == [phase |-> "active", generation |-> tenant.generation + 1]

\* A tenant is created again under a new lease once nothing is left.
CreateTenant ==
  /\ Free /\ tenant.phase = "purged" /\ files = {} /\ \A k \in Keys : records[k] = NoRecord
  /\ tenant' = NewLease
  /\ UNCHANGED <<manifest, files, records, lock, writer, reader, comp, gc, retired, history, left>>

\* The process stops; a restart finds the objects and nothing else.
Crash ==
  /\ Spent("crashes")
  /\ lock' = Nobody
  /\ writer' = [k \in Keys |-> IdleWriter]
  /\ reader' = [r \in Readers |-> IdleReader]
  /\ comp' = IdleComp /\ gc' = IdleGC /\ retired' = <<>>
  /\ UNCHANGED <<manifest, files, records, tenant, history>>

----------------------------------------------------------------------------
WriterStep(k) ==
  \/ Reserve(k) \/ Refused(k) \/ Skip(k) \/ PutCommit(k) \/ Prepare(k)
  \/ Publish(k) \/ CommitFails(k) \/ PublishUnanswered(k) \/ FinishIndexes(k)
  \/ CompleteCommit(k)

CompactionStep ==
  \/ LoadGraph \/ SnapshotWritten \/ LockForPublication \/ PublishCompaction
  \/ \E kind \in {"pages", "record"} : PutSnapshot(kind)
  \/ \E k \in Keys : SettleRead(k) \/ SettlePut(k)

SweepStep == StartGC \/ RunGC \/ EndGC \/ \E o \in files : Visit(o)

Next ==
  \/ \E r \in Readers : PinReadView(r) \/ Release(r)
  \/ \E k \in Keys : BeginCommit(k) \/ WriterStep(k)
  \/ StartCompaction \/ CompactionStep \/ SweepStep
  \/ BeginPurge \/ PurgeObjects \/ CreateTenant \/ Crash

\* Every call that began makes progress, waiters for the tenant lock are
\* served in turn, and the sweep is scheduled again and again; nobody is
\* obliged to write, compact, read or purge.
Fairness ==
  /\ \A r \in Readers : WF_vars(Release(r))
  /\ \A k \in Keys : WF_vars(WriterStep(k)) /\ SF_vars(Reserve(k))
  /\ WF_vars(CompactionStep) /\ SF_vars(LockForPublication) /\ WF_vars(SweepStep) /\ WF_vars(PurgeObjects)

Spec == Init /\ [][Next]_vars /\ Fairness

----------------------------------------------------------------------------
(* Properties.                                                             *)

CommitIds == Keys \X Nat
ObjectType == [kind : {"commit", "segment", "pages", "record"}, lo : Nat, hi : Nat, ids : Seq(CommitIds)]
ManifestType == [version : Nat, head : CommitIds \union {NoCommit}, snap : Nat, tail : SUBSET ObjectType]
RecordType == [state : {"none", "pending", "prepared", "committed"}, version : Nat,
               id : CommitIds \union {NoCommit}, skipped : BOOLEAN]
WriterType == [at : {"idle", "waiting", "reserved", "put", "prepared", "published", "completing"},
               try : Nat, held : RecordType, next : ManifestType, made : SUBSET ObjectType]
ReaderType == [at : {"idle", "reading"}, m : ManifestType]
CompType == [at : {"idle", "loading", "writing", "settling", "replacing", "locked"}, m : ManifestType,
             ids : Seq(CommitIds), fence : Nat, wrote : SUBSET {"pages", "record"}, todo : SUBSET Keys,
             key : Keys \union {Nobody}, seen : RecordType, settled : RecordType]
GCType == [at : {"idle", "sweeping", "paused"}, m : ManifestType, listed : SUBSET ObjectType, moved : BOOLEAN]

ObjectsTyped ==
  manifest \in ManifestType /\ files \subseteq ObjectType /\ records \in [Keys -> RecordType]
    /\ history \in Seq(CommitIds)
TenantTyped ==
  /\ tenant \in [phase : {"active", "purging", "purged"}, generation : Nat \ {0}]
  /\ lock \in Keys \union {Nobody, Compactor, Sweeper, Purger}
  /\ left \in WorkloadType
CallsTyped == writer \in [Keys -> WriterType] /\ reader \in [Readers -> ReaderType] /\ comp \in CompType
SweepTyped ==
  /\ gc \in GCType
  /\ DOMAIN retired \subseteq ObjectType /\ retired \in [DOMAIN retired -> SUBSET (Keys \union Readers)]

\* The types of the variables.
TypeOK == ObjectsTyped /\ TenantTyped /\ CallsTyped /\ SweepTyped

Readable(m) ==
  /\ Complete(m) /\ (m.snap > 0 => SnapshotIn(files, "record", m.snap) # {})
  /\ GraphOf(m) = SubSeq(history, 1, m.version)

\* The published manifest, and the manifest of every reader that pinned a
\* view before it read it, can be read to the last object and give the graph
\* of that version, whatever commits, compactions and sweeps have run since.
ViewsReadable ==
  tenant.phase = "active" =>
    /\ Readable(manifest)
    /\ \A r \in Readers : reader[r].at = "reading" => Readable(reader[r].m)

\* An idempotency key is applied at most once, and a record that says its
\* request was committed, or changed nothing, is right.
RecordsAreTrue ==
  \A k \in Keys :
    LET mine == {i \in DOMAIN history : history[i][1] = k}
    IN /\ Cardinality(mine) <= 1
       /\ records[k].state = "committed" =>
            IF records[k].skipped THEN mine = {}
            ELSE \E i \in mine : i = records[k].version /\ history[i] = records[k].id

\* A compaction never takes away the evidence that a retry needs: no prepared
\* record names a version that only a snapshot holds.
NeverAmbiguous ==
  \A k \in Keys :
    (records[k].state = "prepared" /\ ~records[k].skipped) => records[k].version > manifest.snap

\* Where a sweep is scheduled, what is unreachable is collected although new
\* readers keep arriving, so that some view is active at every moment.
GarbageIsCollected ==
  (left.sweep /\ (<>[](Views # {}) \/ <>[](Views = {}))) =>
    []<>(tenant.phase # "active" \/ Unreachable(manifest, files) = {})
=============================================================================
