-------------------------- MODULE TenantStorageInv --------------------------
(***************************************************************************)
(* The inductive invariants behind RecordsAreTrue, NeverAmbiguous and      *)
(* ViewsReadable of TenantStorage.  TenantStorageProofs proves them.       *)
(***************************************************************************)
EXTENDS TenantStorage

-----------------------------------------------------------------------------
(* Manifest and history.                                                   *)

\* Object o holds the commits lo to hi of the history h.
Holds(o, h) ==
  /\ o.kind \in {"commit", "segment"} /\ (o.kind = "commit" => o.lo = o.hi)
  /\ 1 <= o.lo /\ o.lo <= o.hi /\ o.hi <= Len(h)
  /\ \A v \in o.lo..o.hi : o.ids[v - o.lo + 1] = h[v]

\* Manifest m publishes the history h: what is behind its snapshot is in the
\* tail, without a gap.
Follows(m, h) ==
  /\ m.version = Len(h) /\ m.snap <= m.version
  /\ m.version > 0 => m.head = h[m.version]
  /\ \A o \in m.tail : Holds(o, h) /\ m.snap < o.hi
  /\ \A v \in m.snap + 1..m.version : InTail(m, v)

\* The tail of m names a commit for every version that is read through it.
Tailed(m) == \A v \in m.snap + 1..m.version : TailCommit(m, v) \in CommitIds

-----------------------------------------------------------------------------
(* The tenant lock and the purge.                                          *)

LockInv ==
  /\ \A k \in Keys : writer[k].at \in {"reserved", "put", "prepared"} <=> lock = k
  /\ comp.at = "locked" <=> lock = Compactor
  /\ gc.at = "sweeping" <=> lock = Sweeper
  /\ lock = Purger => tenant.phase = "purging"
  /\ lock \in Keys \union {Compactor, Sweeper} => tenant.phase = "active"

\* Nothing is left that an object or a record of the tenant says.
Emptied == manifest = EmptyManifest /\ history = <<>> /\ \A k \in Keys : records[k] = NoRecord

PurgeInv == tenant.phase = "purged" => Emptied

-----------------------------------------------------------------------------
(* Records and the writers of their requests.                              *)

\* Where the request of key k was published.
Mine(k) == {i \in DOMAIN history : history[i][1] = k}

RecordInv(k) ==
  LET rec == records[k] IN
  /\ rec.state \in {"none", "pending"} \/ rec.skipped => Mine(k) = {}
  /\ rec.state \in {"prepared", "committed"} /\ ~rec.skipped =>
       /\ rec.id[1] = k /\ rec.version > 0 /\ Mine(k) \subseteq {rec.version}
       /\ Mine(k) # {} => history[rec.version] = rec.id
       /\ rec.state = "committed" => Mine(k) # {}
       /\ rec.state = "prepared" => manifest.snap < rec.version

\* A writer publishes only a key that was not published, and its record names
\* what it publishes; one that completes a record was published.
WriterInv(k) ==
  LET w == writer[k] IN
  /\ w.at \in {"reserved", "put", "prepared"} => Mine(k) = {}
  /\ w.at \in {"put", "prepared"} =>
       Follows(w.next, Append(history, <<k, w.try>>)) /\ w.next.snap = manifest.snap
  /\ w.at = "prepared" =>
       /\ records[k] = [state |-> "prepared", version |-> Len(history) + 1, id |-> <<k, w.try>>, skipped |-> FALSE]
       /\ w.held = records[k]
  /\ w.at \in {"published", "completing"} =>
       /\ w.held.state = "prepared"
       /\ records[k] = w.held => w.held.skipped \/ Mine(k) # {}

-----------------------------------------------------------------------------
(* The compaction.                                                         *)

Published(rec) == rec.skipped \/ history[rec.version] = rec.id

\* The keys whose records the compaction has dealt with.
Dealt ==
  IF comp.at = "settling" THEN Keys \ comp.todo
  ELSE IF comp.at = "replacing" THEN Keys \ (comp.todo \union {comp.key})
  ELSE IF comp.at = "locked" THEN Keys ELSE {}

\* A compaction of the current generation: what it has read stays true, and
\* what it has dealt with is never again prepared at a version it covers.
CompCurrent ==
  /\ comp.m.version <= manifest.version
  /\ comp.at = "replacing" =>
       /\ comp.seen.version <= comp.m.version /\ (comp.seen.skipped \/ comp.seen.version > 0)
       /\ comp.settled = IF Published(comp.seen) THEN Committed(comp.seen) ELSE Pending
  /\ \A k \in Dealt : records[k].state = "prepared" /\ ~records[k].skipped => comp.m.version < records[k].version

CompInv ==
  /\ comp.fence <= tenant.generation
  /\ comp.at # "idle" => Tailed(comp.m)
  /\ comp.at = "replacing" => comp.key \in Keys /\ comp.seen.state = "prepared"
  /\ comp.at = "locked" => comp.fence = tenant.generation
  /\ comp.at # "idle" /\ comp.fence = tenant.generation =>
       (tenant.phase # "active" /\ Emptied) \/ CompCurrent

StorageInv ==
  /\ Follows(manifest, history) /\ LockInv /\ PurgeInv
  /\ \A k \in Keys : RecordInv(k) /\ WriterInv(k)
  /\ CompInv

-----------------------------------------------------------------------------
(* What the objects of a view depend on.  Everything but the identifiers   *)
(* is about an active tenant: a purge removes it all at once.              *)

\* The history g goes on where h ends.
Extends(h, g) == Len(h) <= Len(g) /\ \A i \in 1..Len(h) : g[i] = h[i]

\* Manifest m was published on the way to history h: the tail behind its
\* snapshot holds the commits, without a gap.
Covers(m, h) ==
  /\ m.snap <= m.version /\ m.version <= Len(h)
  /\ \A o \in m.tail : Holds(o, h)
  /\ \A v \in m.snap + 1..m.version : InTail(m, v)

\* The commits ids are the first n of the history h.
Spells(ids, n, h) == n <= Len(h) /\ Len(ids) = n /\ \A i \in 1..n : ids[i] = h[i]

\* What a view that read m needs of the store.
Names(m, o) == o \in m.tail \/ (IsSnapshot(o) /\ m.snap > 0 /\ o.hi = m.snap)

\* A call that may still make a commit, under its identifier.
Open(w) == w.at \in {"waiting", "reserved", "put", "prepared"}

\* No commit will be made under this identifier any more.
Used(id) ==
  /\ id[2] > left.tries
  /\ \A k \in Keys : Open(writer[k]) => id # <<k, writer[k].try>>

IdsInv ==
  /\ \A k \in Keys : Open(writer[k]) => writer[k].try > left.tries
  /\ \A i \in DOMAIN history : Used(history[i])

\* A purge waits for the views, and what the sweep remembers goes with the
\* last of them; a sweep that holds the lock knows the manifest.
GateInv ==
  /\ tenant.phase # "active" => DOMAIN retired = {} /\ \A r \in Readers : reader[r].at = "idle"
  /\ Views = {} /\ gc.at # "sweeping" => DOMAIN retired = {}
  /\ gc.at = "sweeping" => gc.m = manifest

WriterTail(k) ==
  LET w == writer[k] IN
  w.at \in {"put", "prepared"} =>
    /\ w.next.tail \subseteq files
    /\ \A o \in w.next.tail : o \in manifest.tail \/ o.hi = w.next.version
    /\ \A o \in w.made : ~IsSnapshot(o) /\ o.hi = w.next.version

ReaderTail(r) ==
  LET m == reader[r].m IN
  reader[r].at = "reading" => Covers(m, history) /\ m.tail \subseteq files /\ m.snap <= manifest.snap

\* The proof that o is unreachable stands: no later manifest names it, and
\* the views that do are remembered.
RetiredTail(o) ==
  /\ ~IsSnapshot(o) => o \notin manifest.tail /\ o.hi <= manifest.version
  /\ \A r \in Readers : reader[r].at = "reading" /\ Names(reader[r].m, o) => r \in retired[o]

TailsInv ==
  /\ manifest.tail \subseteq files
  /\ \A k \in Keys : WriterTail(k)
  /\ \A r \in Readers : ReaderTail(r)
  /\ \A o \in DOMAIN retired : RetiredTail(o)

-----------------------------------------------------------------------------
(* Snapshots, whose keys name a version and nothing else.                  *)

\* A compaction of the current generation of the tenant.
CompRuns == comp.at # "idle" /\ comp.fence = tenant.generation

\* While one of an earlier generation runs, the new one has no snapshot.
StaleInv ==
  tenant.phase = "active" /\ comp.at # "idle" /\ comp.fence # tenant.generation => manifest.snap = 0

\* Both objects of the snapshot of a version are there.
Stored(objects, version) == \A kind \in {"pages", "record"} : SnapshotIn(objects, kind, version) # {}

\* A snapshot object holds the history up to its version, and the version is
\* not newer than the one being compacted.
SnapshotTrue(o) ==
  0 < o.hi /\ Spells(o.ids, o.hi, history) /\ (CompRuns => o.hi <= comp.m.version)

\* What a compaction has loaded is the history, and what it has written
\* stays until it is published.
CompSnapshot ==
  CompRuns =>
    /\ Covers(comp.m, history) /\ 0 < comp.m.version /\ manifest.snap <= comp.m.version
    /\ IF comp.at = "loading" THEN comp.wrote = {} ELSE Spells(comp.ids, comp.m.version, history)
    /\ comp.at \in {"settling", "replacing", "locked"} => comp.wrote = {"pages", "record"}
    /\ manifest.snap < comp.m.version =>
         \A kind \in comp.wrote : SnapshotIn(files, kind, comp.m.version) # {}

RetiredSnapshot(o) ==
  o.hi # manifest.snap /\ o.hi < manifest.version /\ (CompRuns => o.hi < comp.m.version)

SnapshotsInv ==
  /\ manifest.snap > 0 => Stored(files, manifest.snap)
  /\ \A r \in Readers : reader[r].at = "reading" /\ reader[r].m.snap > 0 => Stored(files, reader[r].m.snap)
  /\ \A o \in files : IsSnapshot(o) => SnapshotTrue(o)
  /\ CompSnapshot
  /\ \A o \in DOMAIN retired : IsSnapshot(o) => RetiredSnapshot(o)

\* The listing of a sweep was made in this generation, or it knows no
\* snapshot that this generation can have.
ListedNow ==
  \A o \in gc.listed : IsSnapshot(o) =>
    /\ o.ids # <<>> /\ history # <<>> /\ o.ids[1] = history[1]
    /\ o.hi <= manifest.version /\ (CompRuns => o.hi <= comp.m.version)
ListedBefore ==
  \A o \in gc.listed : IsSnapshot(o) =>
    o.ids # <<>> /\ Used(o.ids[1]) /\ \A i \in DOMAIN history : history[i] # o.ids[1]
ListedInv == gc.at # "idle" => ListedNow \/ ListedBefore

\* No compaction will publish a snapshot, and this generation has none.
NoneLeft ==
  /\ left.compactions = 0
  /\ tenant.phase = "active" => manifest.snap = 0 /\ ~CompRuns

ViewInv ==
  /\ IdsInv /\ GateInv /\ StaleInv
  /\ tenant.phase = "active" => TailsInv
  /\ NoneLeft \/ (ListedInv /\ (tenant.phase = "active" => SnapshotsInv))

\* A compaction that outlived its generation writes its snapshot only where
\* no other compaction follows it: the next would take the snapshot for one
\* of the new generation.
WritesOwnSnapshots ==
  comp.at = "writing" /\ tenant.phase = "active" => comp.fence = tenant.generation \/ left.compactions = 0

\* The workloads in which that cannot happen: nothing is purged, or no second
\* compaction comes.
CompactedOnce == \A w \in Workloads : w.purges = 0 \/ w.compactions <= 1

\* How such a workload goes on.
CompactedOnceInv ==
  \/ left.purges = 0 /\ tenant.phase = "active" /\ (comp.at # "idle" => comp.fence = tenant.generation)
  \/ left.compactions = 0
  \/ left.compactions = 1 /\ comp.at = "idle"
=============================================================================
