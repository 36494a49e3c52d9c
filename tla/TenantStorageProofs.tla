------------------------ MODULE TenantStorageProofs ------------------------
(***************************************************************************)
(* Machine-checked theorems about TenantStorage, for any keys, readers,    *)
(* sizes, and numbers of retries, compactions, purges, crashes and faults. *)
(***************************************************************************)
EXTENDS TenantStorageInv, FiniteSetTheorems, WellFoundedInduction, TLAPS

-----------------------------------------------------------------------------
(* Operators.                                                              *)

LEMMA LessThanPairs == \A a, b \in Nat : <<a, b>> \in OpToRel(<, Nat) <=> a < b
BY Zenon DEF OpToRel

LEMMA MinFacts ==
    ASSUME NEW S \in SUBSET Nat, S # {}
    PROVE  Min(S) \in S /\ \A y \in S : Min(S) <= y
<1>1. PICK x \in S : \A y \in S : ~ (<<y, x>> \in OpToRel(<, Nat))
    BY NatLessThanWellFounded, WFMin
<1>2. \A y \in S : ~ (y < x)
    BY <1>1, LessThanPairs, Zenon
<1> HIDE <1>1
<1>3. \A y \in S : x <= y
    BY <1>2
<1>4. QED
    BY <1>3 DEF Min

LEMMA SeqIntro ==
    ASSUME NEW S, NEW n \in Nat, NEW f \in [1..n -> S]
    PROVE  f \in Seq(S)
OBVIOUS

LEMMA NoneCounted == Cardinality({}) = 0
BY FS_EmptySet

LEMMA ManifestFields ==
    ASSUME NEW m \in ManifestType
    PROVE  /\ m.version \in Nat /\ m.snap \in Nat /\ m.head \in CommitIds \union {NoCommit}
           /\ m.tail \subseteq ObjectType /\ DOMAIN m = {"version", "head", "snap", "tail"}
BY DEF ManifestType

LEMMA ObjectFields ==
    ASSUME NEW o \in ObjectType
    PROVE  o.lo \in Nat /\ o.hi \in Nat /\ o.ids \in Seq(CommitIds)
BY DEF ObjectType

-----------------------------------------------------------------------------
(* What a manifest that publishes a history says.                          *)

LEMMA TailIsHistory ==
    ASSUME NEW m \in ManifestType, NEW h \in Seq(CommitIds), Follows(m, h), NEW v \in Nat, InTail(m, v)
    PROVE  TailCommit(m, v) = h[v] /\ v \in DOMAIN h
<1> DEFINE o == CHOOSE o \in m.tail : o.lo <= v /\ v <= o.hi
<1>1. o \in m.tail /\ o.lo <= v /\ v <= o.hi
    BY DEF InTail
<1>2. Holds(o, h) /\ o.lo \in Nat /\ o.hi \in Nat
    BY <1>1, ManifestFields, ObjectFields DEF Follows
<1>3. o.ids[v - o.lo + 1] = h[v] /\ v \in 1..Len(h)
    BY <1>1, <1>2 DEF Holds
<1>4. QED
    BY <1>3 DEF TailCommit

LEMMA FollowsTailed ==
    ASSUME NEW m \in ManifestType, NEW h \in Seq(CommitIds), Follows(m, h)
    PROVE  Tailed(m)
<1> SUFFICES ASSUME NEW v \in m.snap + 1..m.version PROVE TailCommit(m, v) \in CommitIds
    BY DEF Tailed
<1>1. v \in Nat /\ InTail(m, v)
    BY ManifestFields DEF Follows
<1>2. TailCommit(m, v) = h[v] /\ v \in DOMAIN h
    BY <1>1, TailIsHistory
<1>3. QED
    BY <1>2

\* One commit more.
LEMMA FollowsAppend ==
    ASSUME NEW m \in ManifestType, NEW h \in Seq(CommitIds), Follows(m, h), NEW id \in CommitIds,
           NEW n \in ManifestType,
           n.version = m.version + 1, n.head = id, n.snap = m.snap,
           n.tail = m.tail \union {Object("commit", m.version + 1, m.version + 1, <<id>>)}
    PROVE  Follows(n, Append(h, id))
<1> DEFINE v == m.version + 1
           new == Object("commit", v, v, <<id>>)
           g == Append(h, id)
<1>1. m.version \in Nat /\ m.snap \in Nat /\ m.version = Len(h) /\ m.snap <= m.version
    BY ManifestFields DEF Follows
<1>2. Len(g) = v /\ g[v] = id /\ \A i \in 1..Len(h) : g[i] = h[i]
    BY <1>1
<1>3. Holds(new, g) /\ m.snap < new.hi
    BY <1>1, <1>2 DEF Holds, Object
<1>4. \A o \in m.tail : Holds(o, g) /\ m.snap < o.hi
  <2> TAKE o \in m.tail
  <2>1. Holds(o, h) /\ m.snap < o.hi /\ o.lo \in Nat /\ o.hi \in Nat
    BY ManifestFields, ObjectFields DEF Follows
  <2>2. QED
    BY <1>1, <1>2, <2>1 DEF Holds
<1>5. \A i \in n.snap + 1..n.version : InTail(n, i)
  <2> TAKE i \in n.snap + 1..n.version
  <2>1. CASE i = v
    <3>1. new \in n.tail /\ new.lo = v /\ new.hi = v
      BY DEF Object
    <3>2. QED
      BY <1>1, <2>1, <3>1 DEF InTail
  <2>2. CASE i # v
    <3>1. InTail(m, i)
      BY <1>1, <2>2 DEF Follows
    <3>2. QED
      BY <3>1 DEF InTail
  <2>3. QED
    BY <2>1, <2>2
<1>6. QED
    BY <1>1, <1>2, <1>3, <1>4, <1>5 DEF Follows

\* Gathering the loose commits in a segment changes nothing that is read.
LEMMA SegmentedFollows ==
    ASSUME NEW m \in ManifestType, NEW h \in Seq(CommitIds), Follows(m, h)
    PROVE  /\ Segmented(m) \in ManifestType /\ Follows(Segmented(m), h)
           /\ Segmented(m).version = m.version /\ Segmented(m).head = m.head /\ Segmented(m).snap = m.snap
<1>1. /\ m.version \in Nat /\ m.snap \in Nat /\ m.version = Len(h) /\ m.snap <= m.version
      /\ m.tail \subseteq ObjectType
    BY ManifestFields DEF Follows
<1>2. CASE Cardinality(Loose(m)) < SegmentTarget
    BY <1>2 DEF Segmented
<1>3. CASE ~ (Cardinality(Loose(m)) < SegmentTarget)
  <2> DEFINE lows == {o.lo : o \in Loose(m)}
             lo == Min(lows)
             commits == [i \in 1..(m.version - lo + 1) |-> TailCommit(m, lo + i - 1)]
             segment == Object("segment", lo, m.version, commits)
             n == [m EXCEPT !.tail = (@ \ Loose(m)) \union {segment}]
  <2>1. Loose(m) # {}
    <3>1. SUFFICES ASSUME Loose(m) = {} PROVE FALSE
      OBVIOUS
    <3>2. Cardinality(Loose(m)) = 0
      BY <3>1, NoneCounted
    <3>3. 0 < SegmentTarget
      BY SizesAreCounts
    <3>4. QED
      BY <1>3, <3>2, <3>3
  <2>2. lows \subseteq Nat /\ lows # {}
    BY <1>1, <2>1, ObjectFields DEF Loose
  <2>3. lo \in lows /\ \A y \in lows : lo <= y
    BY <2>2, MinFacts
  <2>4. PICK first \in Loose(m) : first.lo = lo
    BY <2>3
  <2>5. \A o \in Loose(m) : o.lo = o.hi /\ m.snap < o.lo /\ o.lo <= m.version /\ lo <= o.lo /\ o.lo \in Nat /\ 1 <= o.lo
    BY <1>1, <2>3, ObjectFields DEF Loose, Follows, Holds
  <2>6. lo \in Nat /\ m.snap < lo /\ lo <= m.version /\ 1 <= lo
    BY <2>4, <2>5
  <2> HIDE DEF lo
  <2>7. \A i \in 1..(m.version - lo + 1) : commits[i] = h[lo + i - 1] /\ lo + i - 1 \in 1..Len(h)
    <3> TAKE i \in 1..(m.version - lo + 1)
    <3>1. lo + i - 1 \in m.snap + 1..m.version /\ lo + i - 1 \in Nat /\ lo + i - 1 \in 1..Len(h)
      BY <1>1, <2>6
    <3>2. InTail(m, lo + i - 1)
      BY <3>1 DEF Follows
    <3>3. QED
      BY <3>1, <3>2, TailIsHistory
  <2>8. commits \in Seq(CommitIds)
    <3>1. \A i \in 1..Len(h) : h[i] \in CommitIds
      OBVIOUS
    <3>2. m.version - lo + 1 \in Nat
      BY <1>1, <2>6
    <3> DEFINE len == m.version - lo + 1
    <3>3. DOMAIN commits = 1..len
      OBVIOUS
    <3>4. \A i \in 1..len : commits[i] \in CommitIds
      <4> HIDE DEF commits
      <4> QED
        BY <2>7, <3>1
    <3>5. commits = [i \in 1..len |-> commits[i]]
      OBVIOUS
    <3> HIDE DEF commits, len
    <3>6. commits \in [1..len -> CommitIds] /\ len \in Nat
      BY <3>2, <3>4, <3>5 DEF len
    <3>7. QED
      BY <3>6, SeqIntro
  <2> HIDE DEF commits
  <2>9. Holds(segment, h) /\ m.snap < segment.hi /\ segment \in ObjectType
    <3>1. /\ segment.kind = "segment" /\ segment.lo = lo /\ segment.hi = m.version /\ segment.ids = commits
          /\ segment \in ObjectType
      BY <1>1, <2>6, <2>8 DEF Object, ObjectType
    <3>2. \A v \in lo..m.version : commits[v - lo + 1] = h[v]
      <4> TAKE v \in lo..m.version
      <4>1. v - lo + 1 \in 1..(m.version - lo + 1) /\ lo + (v - lo + 1) - 1 = v
        BY <1>1, <2>6
      <4>2. QED
        BY <2>7, <4>1
    <3>3. QED
      BY <1>1, <2>6, <3>1, <3>2 DEF Holds
  <2> HIDE DEF segment
  <2>10. /\ n.version = m.version /\ n.head = m.head /\ n.snap = m.snap
         /\ n.tail = (m.tail \ Loose(m)) \union {segment} /\ n \in ManifestType
    BY <1>1, <2>9 DEF ManifestType
  <2>11. segment.lo = lo /\ segment.hi = m.version
    BY DEF segment, Object
  <2> HIDE DEF n
  <2>12. \A v \in n.snap + 1..n.version : InTail(n, v)
    <3> TAKE v \in n.snap + 1..n.version
    <3>1. PICK o \in m.tail : o.lo <= v /\ v <= o.hi
      BY <2>10 DEF Follows, InTail
    <3>2. CASE o \notin Loose(m)
      BY <2>10, <3>1, <3>2 DEF InTail
    <3>3. CASE o \in Loose(m)
      <4>1. lo <= v /\ v <= m.version
        BY <1>1, <2>5, <2>6, <2>10, <3>1, <3>3
      <4>2. QED
        BY <2>10, <2>11, <4>1 DEF InTail
    <3>4. QED
      BY <3>2, <3>3
  <2>13. Follows(n, h)
    BY <2>9, <2>10, <2>12 DEF Follows
  <2>14. Segmented(m) = n
    BY <1>3 DEF Segmented, n, segment, commits, lo
  <2>15. QED
    BY <2>10, <2>13, <2>14
<1>4. QED
    BY <1>2, <1>3

\* A snapshot takes the place of the tail up to its version.
LEMMA CompactedFollows ==
    ASSUME NEW m \in ManifestType, NEW h \in Seq(CommitIds), Follows(m, h), NEW S \in Nat,
           m.snap < S, S <= m.version,
           NEW n \in ManifestType, n = [m EXCEPT !.snap = S, !.tail = TailAfter(m, S)]
    PROVE  Follows(n, h)
<1>1. m.version \in Nat /\ m.snap \in Nat /\ DOMAIN m = {"version", "head", "snap", "tail"}
    BY ManifestFields
<1>2. n.version = m.version /\ n.head = m.head /\ n.snap = S /\ n.tail = {o \in m.tail : o.hi > S}
    BY <1>1 DEF TailAfter
<1>3. \A v \in n.snap + 1..n.version : InTail(n, v)
  <2> TAKE v \in n.snap + 1..n.version
  <2>1. PICK o \in m.tail : o.lo <= v /\ v <= o.hi
    BY <1>1, <1>2 DEF Follows, InTail
  <2>2. o.hi \in Nat
    BY ManifestFields, ObjectFields
  <2>3. QED
    BY <1>1, <1>2, <2>1, <2>2 DEF InTail
<1>4. \A o \in n.tail : Holds(o, h) /\ n.snap < o.hi
  <2> TAKE o \in n.tail
  <2>1. o \in m.tail /\ o.hi > S /\ o.hi \in Nat
    BY <1>2, ManifestFields, ObjectFields
  <2>2. QED
    BY <1>2, <2>1 DEF Follows
<1>5. QED
    BY <1>1, <1>2, <1>3, <1>4 DEF Follows

\* The verdict on a prepared record is the truth about the history.
LEMMA VerdictFacts ==
    ASSUME manifest \in ManifestType, history \in Seq(CommitIds), Follows(manifest, history),
           NEW rec \in RecordType, rec.skipped \/ rec.version > 0
    PROVE  /\ Verdict(rec) \in {"published", "not", "ambiguous"}
           /\ rec.skipped => Verdict(rec) = "published"
           /\ ~rec.skipped /\ Verdict(rec) = "published" =>
                rec.version \in DOMAIN history /\ history[rec.version] = rec.id
           /\ Verdict(rec) = "not" => ~ (rec.version \in DOMAIN history /\ history[rec.version] = rec.id)
<1>1. rec.version \in Nat /\ rec.skipped \in BOOLEAN
    BY DEF RecordType
<1>2. manifest.version \in Nat /\ manifest.snap \in Nat /\ manifest.version = Len(history) /\ DOMAIN history = 1..Len(history)
    BY ManifestFields DEF Follows
<1>3. CASE rec.skipped
    BY <1>3 DEF Verdict
<1>4. CASE ~rec.skipped /\ manifest.version < rec.version
    BY <1>1, <1>2, <1>4 DEF Verdict
<1>5. CASE ~rec.skipped /\ manifest.version = rec.version
    BY <1>1, <1>2, <1>5 DEF Verdict, Follows
<1>6. CASE ~rec.skipped /\ manifest.version > rec.version /\ manifest.snap >= rec.version
    BY <1>1, <1>2, <1>6 DEF Verdict
<1>7. CASE ~rec.skipped /\ manifest.version > rec.version /\ ~ (manifest.snap >= rec.version)
  <2>1. InTail(manifest, rec.version)
    BY <1>1, <1>2, <1>7 DEF Follows
  <2>2. TailCommit(manifest, rec.version) = history[rec.version]
    BY <1>1, <2>1, TailIsHistory
  <2>3. QED
    BY <1>1, <1>2, <1>7, <2>1, <2>2 DEF Verdict
<1>8. QED
    BY <1>1, <1>2, <1>3, <1>4, <1>5, <1>6, <1>7

-----------------------------------------------------------------------------
(* Types.                                                                  *)

LEMMA ConstantsTyped ==
    /\ EmptyManifest \in ManifestType /\ NoRecord \in RecordType /\ Pending \in RecordType
    /\ IdleWriter \in WriterType /\ IdleReader \in ReaderType /\ IdleComp \in CompType /\ IdleGC \in GCType
<1>1. EmptyManifest \in ManifestType
    BY DEF EmptyManifest, ManifestType
<1>2. NoRecord \in RecordType /\ Pending \in RecordType
    BY DEF NoRecord, Pending, RecordType
<1>3. <<>> \in Seq(CommitIds)
    OBVIOUS
<1>4. QED
    BY <1>1, <1>2, <1>3 DEF IdleWriter, IdleReader, IdleComp, IdleGC, WriterType, ReaderType, CompType, GCType

LEMMA WriterFields ==
    ASSUME NEW w \in WriterType
    PROVE  /\ w.at \in {"idle", "waiting", "reserved", "put", "prepared", "published", "completing"} /\ w.try \in Nat
           /\ w.held \in RecordType /\ w.next \in ManifestType /\ w.made \in SUBSET ObjectType
           /\ DOMAIN w = {"at", "try", "held", "next", "made"}
BY DEF WriterType

LEMMA RecordFields ==
    ASSUME NEW r \in RecordType
    PROVE  /\ r.state \in {"none", "pending", "prepared", "committed"} /\ r.version \in Nat
           /\ r.id \in CommitIds \union {NoCommit} /\ r.skipped \in BOOLEAN
           /\ DOMAIN r = {"state", "version", "id", "skipped"}
           /\ Committed(r) \in RecordType /\ Committed(r).state = "committed"
           /\ Committed(r).version = r.version /\ Committed(r).id = r.id /\ Committed(r).skipped = r.skipped
BY DEF RecordType, Committed

LEMMA CompFields ==
    TypeOK => /\ comp.at \in {"idle", "loading", "writing", "settling", "replacing", "locked"}
              /\ comp.m \in ManifestType /\ comp.ids \in Seq(CommitIds) /\ comp.fence \in Nat
              /\ comp.wrote \subseteq {"pages", "record"} /\ comp.todo \subseteq Keys
              /\ comp.key \in Keys \union {Nobody} /\ comp.seen \in RecordType /\ comp.settled \in RecordType
              /\ DOMAIN comp = {"at", "m", "ids", "fence", "wrote", "todo", "key", "seen", "settled"}
BY DEF TypeOK, CallsTyped, CompType

LEMMA GCFields ==
    TypeOK => /\ gc.at \in {"idle", "sweeping", "paused"} /\ gc.m \in ManifestType
              /\ gc.listed \subseteq ObjectType /\ gc.moved \in BOOLEAN
              /\ DOMAIN gc = {"at", "m", "listed", "moved"}
BY DEF TypeOK, SweepTyped, GCType

LEMMA SpentTyped ==
    ASSUME left \in WorkloadType,
           NEW what \in {"tries", "skips", "compactions", "purges", "crashes", "faults", "pauses"}, Spent(what)
    PROVE  left' \in WorkloadType
<1>1. left[what] \in Nat /\ left[what] - 1 \in Nat
    BY DEF Spent, WorkloadType
<1>2. left' = [left EXCEPT ![what] = left[what] - 1]
    BY DEF Spent
<1>3. QED
    BY <1>1, <1>2 DEF WorkloadType

LEMMA EmptyTable ==
    DOMAIN <<>> \subseteq ObjectType /\ <<>> \in [DOMAIN <<>> -> SUBSET (Keys \union Readers)]
<1>1. DOMAIN <<>> = {}
    OBVIOUS
<1>2. QED
    BY <1>1

LEMMA ShrunkTyped ==
    ASSUME SweepTyped, NEW v
    PROVE  /\ DOMAIN Shrunk(v) \subseteq ObjectType
           /\ Shrunk(v) \in [DOMAIN Shrunk(v) -> SUBSET (Keys \union Readers)]
<1>1. CASE Views \ {v} = {} /\ gc.at # "sweeping"
    BY <1>1, EmptyTable DEF Shrunk
<1>2. CASE ~ (Views \ {v} = {} /\ gc.at # "sweeping")
  <2>1. Shrunk(v) = [o \in DOMAIN retired |-> retired[o] \ {v}]
    BY <1>2 DEF Shrunk
  <2>2. \A o \in DOMAIN retired : retired[o] \in SUBSET (Keys \union Readers)
    BY DEF SweepTyped
  <2>3. QED
    BY <2>1, <2>2 DEF SweepTyped
<1>3. QED
    BY <1>1, <1>2

\* What is read through a complete manifest is a sequence of commits.
LEMMA GraphTyped ==
    ASSUME files \subseteq ObjectType, NEW m \in ManifestType, Complete(m), Tailed(m)
    PROVE  GraphOf(m) \in Seq(CommitIds)
<1> DEFINE base == IF m.snap = 0 THEN <<>> ELSE (CHOOSE o \in SnapshotIn(files, "pages", m.snap) : TRUE).ids
           n == m.version - m.snap
           tail == [i \in 1..n |-> TailCommit(m, m.snap + i)]
<1>1. base \in Seq(CommitIds)
  <2>1. CASE m.snap = 0
    BY <2>1
  <2>2. CASE m.snap # 0
    <3>1. SnapshotIn(files, "pages", m.snap) # {}
      BY <2>2, ManifestFields DEF Complete
    <3>2. (CHOOSE o \in SnapshotIn(files, "pages", m.snap) : TRUE) \in files
      BY <3>1 DEF SnapshotIn
    <3>3. QED
      BY <2>2, <3>2, ObjectFields
  <2>3. QED
    BY <2>1, <2>2
<1>2. m.version \in Nat /\ m.snap \in Nat
    BY ManifestFields
<1>3. tail \in Seq(CommitIds)
  <2>1. CASE n \in Nat
    <3>1. \A i \in 1..n : TailCommit(m, m.snap + i) \in CommitIds
      BY <1>2, <2>1 DEF Tailed
    <3>2. tail \in [1..n -> CommitIds]
      BY <3>1
    <3> HIDE DEF tail, n
    <3>3. QED
      BY <2>1, <3>2, SeqIntro
  <2>2. CASE n \notin Nat
    <3>1. 1..n = 1..0
      BY <1>2, <2>2
    <3>2. tail \in [1..0 -> CommitIds]
      BY <3>1
    <3> HIDE DEF tail, n
    <3>3. QED
      BY <3>2, SeqIntro
  <2>3. QED
    BY <2>1, <2>2
<1>4. GraphOf(m) = base \o tail
    BY DEF GraphOf
<1> HIDE DEF base, tail
<1>5. QED
    BY <1>1, <1>3, <1>4

\* The manifest that a commit is going to publish.
LEMMA NextFollows ==
    ASSUME TypeOK, Follows(manifest, history), NEW k \in Keys, PutCommit(k)
    PROVE  /\ writer' = [writer EXCEPT ![k] = writer'[k]] /\ writer'[k] \in WriterType
           /\ writer'[k].at = "put" /\ writer'[k].try = writer[k].try /\ writer'[k].held = writer[k].held
           /\ Follows(writer'[k].next, Append(history, <<k, writer[k].try>>))
           /\ writer'[k].next.version = Len(history) + 1 /\ writer'[k].next.head = <<k, writer[k].try>>
           /\ writer'[k].next.snap = manifest.snap
           /\ files' \subseteq ObjectType
<1> DEFINE id == <<k, writer[k].try>>
           v == manifest.version + 1
           o == Object("commit", v, v, <<id>>)
           m == [manifest EXCEPT !.version = v, !.head = id, !.tail = @ \union {o}]
           next == Segmented(m)
<1>1. /\ manifest \in ManifestType /\ history \in Seq(CommitIds) /\ writer[k] \in WriterType
      /\ writer \in [Keys -> WriterType] /\ files \subseteq ObjectType
    BY DEF TypeOK, ObjectsTyped, CallsTyped
<1>2. id \in CommitIds /\ v \in Nat /\ manifest.version = Len(history)
    BY <1>1, WriterFields, ManifestFields DEF CommitIds, Follows
<1>3. /\ files' = files \union {o} \union next.tail
      /\ writer' = [writer EXCEPT ![k].at = "put", ![k].made = {o}, ![k].next = next]
    BY DEF PutCommit
<1> HIDE DEF id
<1>4. o \in ObjectType
  <2>1. <<id>> \in Seq(CommitIds)
    BY <1>2
  <2>2. QED
    BY <1>2, <2>1 DEF Object, ObjectType
<1>5. /\ m \in ManifestType /\ m.version = manifest.version + 1 /\ m.head = id /\ m.snap = manifest.snap
      /\ m.tail = manifest.tail \union {o}
  <2> HIDE DEF o
  <2> QED
    BY <1>1, <1>2, <1>4 DEF ManifestType
<1> HIDE DEF m
<1>6. Follows(m, Append(history, id))
    BY <1>1, <1>2, <1>5, FollowsAppend
<1>7. Append(history, id) \in Seq(CommitIds) /\ Append(history, id)[v] = id
    BY <1>1, <1>2
<1>8. /\ next \in ManifestType /\ Follows(next, Append(history, id))
      /\ next.version = v /\ next.head = id /\ next.snap = manifest.snap
    BY <1>5, <1>6, <1>7, SegmentedFollows
<1> HIDE DEF next, o
<1>9. next.tail \subseteq ObjectType
    BY <1>8, ManifestFields
<1> DEFINE w == [writer[k] EXCEPT !.at = "put", !.made = {o}, !.next = next]
<1>10. writer' = [writer EXCEPT ![k] = w]
    BY <1>1, <1>3, WriterFields
<1>11. /\ w \in WriterType /\ w.at = "put" /\ w.try = writer[k].try /\ w.held = writer[k].held /\ w.next = next
    BY <1>1, <1>4, <1>8 DEF WriterType
<1> HIDE DEF w
<1>12. writer'[k] = w
    BY <1>1, <1>10
<1>13. QED
    BY <1>1, <1>2, <1>3, <1>4, <1>8, <1>9, <1>10, <1>11, <1>12 DEF id

LEMMA TypeInit == Init => TypeOK
<1> SUFFICES ASSUME Init PROVE TypeOK
    OBVIOUS
<1>1. ObjectsTyped
  <2>1. <<>> \in Seq(CommitIds)
    OBVIOUS
  <2>2. QED
    BY <2>1, ConstantsTyped DEF Init, ObjectsTyped
<1>2. TenantTyped
    BY WorkloadsAreTyped DEF Init, TenantTyped
<1>3. CallsTyped /\ SweepTyped
    BY ConstantsTyped, EmptyTable DEF Init, CallsTyped, SweepTyped
<1>4. QED
    BY <1>1, <1>2, <1>3 DEF TypeOK

LEMMA TypeReader ==
    ASSUME TypeOK, NEW r \in Readers, PinReadView(r) \/ Release(r)
    PROVE  TypeOK'
<1>1. CASE PinReadView(r)
  <2>1. [at |-> "reading", m |-> manifest] \in ReaderType
    BY DEF TypeOK, ObjectsTyped, ReaderType
  <2>2. QED
    BY <1>1, <2>1 DEF PinReadView, TypeOK, ObjectsTyped, TenantTyped, CallsTyped, SweepTyped
<1>2. CASE Release(r)
  <2>1. retired' = Shrunk(r) /\ UNCHANGED gc
    BY <1>2 DEF Release
  <2>2. SweepTyped'
    BY <2>1, ShrunkTyped DEF TypeOK, SweepTyped
  <2>3. CallsTyped'
    BY <1>2, ConstantsTyped DEF Release, TypeOK, CallsTyped
  <2>4. QED
    BY <1>2, <2>2, <2>3 DEF Release, TypeOK, ObjectsTyped, TenantTyped
<1>3. QED
    BY <1>1, <1>2

\* The writer of k gets a new state.
LEMMA WriterSet ==
    ASSUME TypeOK, NEW k \in Keys, NEW w \in WriterType, writer' = [writer EXCEPT ![k] = w],
           UNCHANGED <<reader, comp>>
    PROVE  CallsTyped'
BY DEF TypeOK, CallsTyped

LEMMA LeaveTyped ==
    ASSUME TypeOK, NEW k \in Keys, Leave(k), UNCHANGED <<reader, comp, gc>>
    PROVE  CallsTyped' /\ SweepTyped' /\ lock' \in Keys \union {Nobody, Compactor, Sweeper, Purger}
<1>1. CallsTyped'
    BY WriterSet, ConstantsTyped DEF Leave
<1>2. SweepTyped'
    BY ShrunkTyped DEF Leave, TypeOK, SweepTyped
<1>3. lock' \in Keys \union {Nobody, Compactor, Sweeper, Purger}
    BY DEF Leave, TypeOK, TenantTyped
<1>4. QED
    BY <1>1, <1>2, <1>3

LEMMA TypeWriter ==
    ASSUME TypeOK, Follows(manifest, history), \A k \in Keys : WriterInv(k), NEW k \in Keys, BeginCommit(k) \/ WriterStep(k)
    PROVE  TypeOK'
<1>1. /\ writer[k] \in WriterType /\ writer \in [Keys -> WriterType] /\ records \in [Keys -> RecordType]
      /\ records[k] \in RecordType /\ manifest \in ManifestType /\ left \in WorkloadType /\ SweepTyped
      /\ files \subseteq ObjectType /\ history \in Seq(CommitIds)
    BY DEF TypeOK, ObjectsTyped, CallsTyped, TenantTyped
<1>2. CASE BeginCommit(k)
  <2>1. [writer[k] EXCEPT !.at = "waiting", !.try = left.tries] \in WriterType
    BY <1>1 DEF WriterType, WorkloadType
  <2>2. writer' = [writer EXCEPT ![k] = [writer[k] EXCEPT !.at = "waiting", !.try = left.tries]]
    BY <1>1, <1>2, WriterFields DEF BeginCommit
  <2>3. CallsTyped'
    BY <1>2, <2>1, <2>2, WriterSet DEF BeginCommit
  <2>4. left' \in WorkloadType
    BY <1>1, <1>2, SpentTyped DEF BeginCommit
  <2>5. QED
    BY <1>2, <2>3, <2>4 DEF BeginCommit, TypeOK, ObjectsTyped, TenantTyped, SweepTyped
<1>3. CASE Reserve(k)
  <2>1. UNCHANGED <<manifest, files, tenant, reader, comp, gc, history, left>>
    BY <1>3 DEF Reserve
  <2>2. CASE \E r \in {Pending, records[k]} :
               /\ lock' = k /\ records' = [records EXCEPT ![k] = r] /\ UNCHANGED retired
               /\ writer' = [writer EXCEPT ![k].at = "reserved", ![k].held = r]
    <3>1. PICK r \in {Pending, records[k]} :
               /\ lock' = k /\ records' = [records EXCEPT ![k] = r] /\ UNCHANGED retired
               /\ writer' = [writer EXCEPT ![k].at = "reserved", ![k].held = r]
      BY <2>2
    <3>2. r \in RecordType
      BY <1>1, ConstantsTyped
    <3>3. [writer[k] EXCEPT !.at = "reserved", !.held = r] \in WriterType
      BY <1>1, <3>2 DEF WriterType
    <3>4. writer' = [writer EXCEPT ![k] = [writer[k] EXCEPT !.at = "reserved", !.held = r]]
      BY <1>1, <3>1, WriterFields
    <3>5. CallsTyped'
      BY <2>1, <3>3, <3>4, WriterSet
    <3>6. records' \in [Keys -> RecordType]
      BY <1>1, <3>1, <3>2
    <3>7. QED
      BY <2>1, <3>1, <3>5, <3>6 DEF TypeOK, ObjectsTyped, TenantTyped, SweepTyped
  <2>3. CASE Leave(k) /\ records' \in {records, [records EXCEPT ![k] = Committed(records[k])]}
    <3>1. records' \in [Keys -> RecordType]
      BY <1>1, <2>3, RecordFields
    <3>2. QED
      BY <2>1, <2>3, <3>1, LeaveTyped DEF TypeOK, ObjectsTyped, TenantTyped
  <2>4. QED
    BY <1>3, <2>2, <2>3 DEF Reserve
<1>4. CASE Refused(k)
    BY <1>4, LeaveTyped DEF Refused, TypeOK, ObjectsTyped, TenantTyped
<1>5. CASE Skip(k)
  <2> DEFINE rec == [state |-> "prepared", version |-> manifest.version, id |-> manifest.head, skipped |-> TRUE]
  <2>1. rec \in RecordType
    BY <1>1, ManifestFields DEF RecordType
  <2>2. records' = [records EXCEPT ![k] = rec] /\ writer' = [writer EXCEPT ![k].at = "published", ![k].held = rec]
    BY <1>5 DEF Skip
  <2> HIDE DEF rec
  <2>3. [writer[k] EXCEPT !.at = "published", !.held = rec] \in WriterType
    BY <1>1, <2>1 DEF WriterType
  <2>4. writer' = [writer EXCEPT ![k] = [writer[k] EXCEPT !.at = "published", !.held = rec]]
    BY <1>1, <2>2, WriterFields
  <2>5. CallsTyped'
    BY <1>5, <2>3, <2>4, WriterSet DEF Skip
  <2>6. records' \in [Keys -> RecordType] /\ left' \in WorkloadType
    BY <1>1, <1>5, <2>1, <2>2, SpentTyped DEF Skip
  <2>7. QED
    BY <1>5, <2>5, <2>6 DEF Skip, TypeOK, ObjectsTyped, TenantTyped, SweepTyped
<1>6. CASE PutCommit(k)
  <2>1. CallsTyped' /\ files' \subseteq ObjectType
    BY <1>6, NextFollows, WriterSet DEF PutCommit
  <2>2. QED
    BY <1>6, <2>1 DEF PutCommit, TypeOK, ObjectsTyped, TenantTyped, SweepTyped
<1>7. CASE CommitFails(k)
  <2>1. left' \in WorkloadType
    BY <1>1, <1>7, SpentTyped DEF CommitFails
  <2>2. files' \subseteq ObjectType
    BY <1>1, <1>7 DEF CommitFails, Cleaned
  <2>3. QED
    BY <1>7, <2>1, <2>2, LeaveTyped DEF CommitFails, TypeOK, ObjectsTyped, TenantTyped
<1>8. CASE Prepare(k)
  <2> DEFINE rec == [state |-> "prepared", version |-> writer[k].next.version, id |-> writer[k].next.head, skipped |-> FALSE]
  <2>1. rec \in RecordType
    BY <1>1, WriterFields, ManifestFields DEF RecordType
  <2>2. records' = [records EXCEPT ![k] = rec] /\ writer' = [writer EXCEPT ![k].at = "prepared", ![k].held = rec]
    BY <1>8 DEF Prepare
  <2> HIDE DEF rec
  <2>3. [writer[k] EXCEPT !.at = "prepared", !.held = rec] \in WriterType
    BY <1>1, <2>1 DEF WriterType
  <2>4. writer' = [writer EXCEPT ![k] = [writer[k] EXCEPT !.at = "prepared", !.held = rec]]
    BY <1>1, <2>2, WriterFields
  <2>5. CallsTyped'
    BY <1>8, <2>3, <2>4, WriterSet DEF Prepare
  <2>6. records' \in [Keys -> RecordType]
    BY <1>1, <2>1, <2>2
  <2>7. QED
    BY <1>8, <2>5, <2>6 DEF Prepare, TypeOK, ObjectsTyped, TenantTyped, SweepTyped
<1>9. ASSUME writer[k].at = "prepared"
      PROVE  writer[k].next \in ManifestType /\ Append(history, writer[k].next.head) \in Seq(CommitIds)
  <2>1. Follows(writer[k].next, Append(history, <<k, writer[k].try>>)) /\ writer[k].next \in ManifestType
    BY <1>1, <1>9, WriterFields DEF WriterInv
  <2>2. <<k, writer[k].try>> \in CommitIds
    BY <1>1, WriterFields DEF CommitIds
  <2>3. Append(history, <<k, writer[k].try>>) \in Seq(CommitIds) /\ Len(Append(history, <<k, writer[k].try>>)) > 0
    BY <1>1, <2>2
  <2>4. writer[k].next.head \in CommitIds
    BY <2>1, <2>3 DEF Follows
  <2>5. QED
    BY <1>1, <2>1, <2>4
<1>10. CASE Publish(k)
  <2>1. [writer[k] EXCEPT !.at = "published"] \in WriterType
    BY <1>1 DEF WriterType
  <2>2. writer' = [writer EXCEPT ![k] = [writer[k] EXCEPT !.at = "published"]]
    BY <1>1, <1>10, WriterFields DEF Publish
  <2>3. CallsTyped'
    BY <1>10, <2>1, <2>2, WriterSet DEF Publish
  <2>4. manifest' \in ManifestType /\ history' \in Seq(CommitIds)
    BY <1>9, <1>10 DEF Publish
  <2>5. QED
    BY <1>10, <2>3, <2>4 DEF Publish, TypeOK, ObjectsTyped, TenantTyped, SweepTyped
<1>11. CASE PublishUnanswered(k)
  <2>1. manifest' \in ManifestType /\ history' \in Seq(CommitIds) /\ left' \in WorkloadType
    BY <1>1, <1>9, <1>11, SpentTyped DEF PublishUnanswered
  <2>2. QED
    BY <1>11, <2>1, LeaveTyped DEF PublishUnanswered, TypeOK, ObjectsTyped, TenantTyped
<1>12. CASE FinishIndexes(k)
  <2>1. [writer[k] EXCEPT !.at = "completing"] \in WriterType
    BY <1>1 DEF WriterType
  <2>2. writer' = [writer EXCEPT ![k] = [writer[k] EXCEPT !.at = "completing"]]
    BY <1>1, <1>12, WriterFields DEF FinishIndexes
  <2>3. CallsTyped'
    BY <1>12, <2>1, <2>2, WriterSet DEF FinishIndexes
  <2>4. SweepTyped'
    BY <1>1, <1>12, ShrunkTyped DEF FinishIndexes, SweepTyped
  <2>5. QED
    BY <1>12, <2>3, <2>4 DEF FinishIndexes, TypeOK, ObjectsTyped, TenantTyped
<1>13. CASE CompleteCommit(k)
  <2>1. CallsTyped'
    BY <1>13, ConstantsTyped, WriterSet DEF CompleteCommit
  <2>2. Committed(writer[k].held) \in RecordType
    BY <1>1, WriterFields, RecordFields
  <2>3. records' \in [Keys -> RecordType]
    BY <1>1, <1>13, <2>2 DEF CompleteCommit
  <2>4. QED
    BY <1>13, <2>1, <2>3 DEF CompleteCommit, TypeOK, ObjectsTyped, TenantTyped, SweepTyped
<1>14. QED
    BY <1>2, <1>3, <1>4, <1>5, <1>6, <1>7, <1>8, <1>10, <1>11, <1>12, <1>13 DEF WriterStep

LEMMA TypeCompaction ==
    ASSUME TypeOK, CompInv, StartCompaction \/ CompactionStep
    PROVE  TypeOK'
<1>1. /\ records \in [Keys -> RecordType] /\ manifest \in ManifestType /\ left \in WorkloadType /\ SweepTyped
      /\ files \subseteq ObjectType /\ comp \in CompType /\ tenant.generation \in Nat
    BY DEF TypeOK, ObjectsTyped, CallsTyped, TenantTyped
<1>2. CASE StartCompaction
  <2>1. [IdleComp EXCEPT !.at = "loading", !.m = manifest, !.fence = tenant.generation] \in CompType
    BY <1>1, ConstantsTyped DEF CompType
  <2>2. left' \in WorkloadType
    BY <1>1, <1>2, SpentTyped DEF StartCompaction
  <2>3. QED
    BY <1>2, <2>1, <2>2 DEF StartCompaction, TypeOK, ObjectsTyped, TenantTyped, CallsTyped, SweepTyped
<1>3. CASE LoadGraph
  <2>1. CASE ~Complete(comp.m)
    BY <1>1, <1>3, <2>1, ConstantsTyped DEF LoadGraph, CompType, TypeOK, ObjectsTyped, TenantTyped, CallsTyped, SweepTyped
  <2>2. CASE Complete(comp.m)
    <3>1. GraphOf(comp.m) \in Seq(CommitIds)
      BY <1>1, <1>3, <2>2, CompFields, GraphTyped DEF LoadGraph, CompInv
    <3>2. [comp EXCEPT !.at = "writing", !.ids = GraphOf(comp.m)] \in CompType
      BY <1>1, <3>1 DEF CompType
    <3>3. comp' \in CompType
      BY <1>3, <2>2, <3>2, ConstantsTyped DEF LoadGraph
    <3>4. QED
      BY <1>3, <3>3 DEF LoadGraph, TypeOK, ObjectsTyped, TenantTyped, CallsTyped, SweepTyped
  <2>3. QED
    BY <2>1, <2>2
<1>4. ASSUME NEW kind \in {"pages", "record"}, PutSnapshot(kind) PROVE TypeOK'
  <2> DEFINE o == Object(kind, 1, comp.m.version, comp.ids)
  <2>1. o \in ObjectType
    BY CompFields, ManifestFields DEF Object, ObjectType
  <2>2. comp' \in {[comp EXCEPT !.wrote = @ \union {kind}], IdleComp}
    BY <1>4 DEF PutSnapshot, StopCompaction
  <2>3. comp' \in CompType
    BY <1>1, <2>2, ConstantsTyped DEF CompType
  <2>4. \/ UNCHANGED <<files, retired, gc>>
        \/ /\ files' = files \union {o}
           /\ retired' = [p \in {q \in DOMAIN retired : ~SameKey(o, q)} |-> retired[p]]
           /\ gc' = [gc EXCEPT !.moved = @ \/ (gc.at = "sweeping" /\ kind = "pages")]
    BY <1>4 DEF PutSnapshot
  <2> HIDE DEF o
  <2>5. files' \subseteq ObjectType
    BY <1>1, <2>1, <2>4
  <2>6. SweepTyped'
    <3>1. CASE UNCHANGED <<files, retired, gc>>
      BY <1>1, <3>1 DEF SweepTyped
    <3>2. CASE /\ retired' = [p \in {q \in DOMAIN retired : ~SameKey(o, q)} |-> retired[p]]
               /\ gc' = [gc EXCEPT !.moved = @ \/ (gc.at = "sweeping" /\ kind = "pages")]
      <4>1. gc' \in GCType
        BY <1>1, <3>2 DEF SweepTyped, GCType
      <4>2. QED
        BY <1>1, <3>2, <4>1 DEF SweepTyped
    <3>3. QED
      BY <2>4, <3>1, <3>2
  <2>7. QED
    BY <1>4, <2>3, <2>5, <2>6 DEF PutSnapshot, TypeOK, ObjectsTyped, TenantTyped, CallsTyped
<1>5. CASE SnapshotWritten
  <2>1. [comp EXCEPT !.at = "settling", !.todo = Keys] \in CompType
    BY <1>1 DEF CompType
  <2>2. QED
    BY <1>5, <2>1, ConstantsTyped DEF SnapshotWritten, TypeOK, ObjectsTyped, TenantTyped, CallsTyped, SweepTyped
<1>6. CASE LockForPublication
  <2>1. [comp EXCEPT !.at = "locked"] \in CompType
    BY <1>1 DEF CompType
  <2>2. QED
    BY <1>6, <2>1, ConstantsTyped
       DEF LockForPublication, StopCompaction, TypeOK, ObjectsTyped, TenantTyped, CallsTyped, SweepTyped
<1>7. CASE PublishCompaction
  <2>1. TailAfter(manifest, comp.m.version) \subseteq ObjectType /\ comp.m.version \in Nat
    BY <1>1, CompFields, ManifestFields DEF TailAfter
  <2>2. [manifest EXCEPT !.snap = comp.m.version, !.tail = TailAfter(manifest, comp.m.version)] \in ManifestType
    BY <1>1, <2>1 DEF ManifestType
  <2>3. manifest' \in ManifestType /\ comp' \in CompType
    BY <1>1, <1>7, <2>2, ConstantsTyped DEF PublishCompaction, StopCompaction
  <2>4. QED
    BY <1>7, <2>3 DEF PublishCompaction, TypeOK, ObjectsTyped, TenantTyped, CallsTyped, SweepTyped
<1>8. ASSUME NEW k \in Keys, SettleRead(k) PROVE TypeOK'
  <2>1. Committed(records[k]) \in RecordType /\ Pending \in RecordType /\ records[k] \in RecordType
    BY <1>1, RecordFields, ConstantsTyped
  <2>2. \A r \in {Committed(records[k]), Pending} :
          [comp EXCEPT !.at = "replacing", !.todo = @ \ {k}, !.key = k, !.seen = records[k], !.settled = r] \in CompType
    BY <1>1, <2>1 DEF CompType
  <2>3. [comp EXCEPT !.todo = @ \ {k}] \in CompType
    BY <1>1 DEF CompType
  <2>4. comp' \in CompType
    BY <1>8, <2>2, <2>3, ConstantsTyped DEF SettleRead
  <2>5. QED
    BY <1>8, <2>4 DEF SettleRead, TypeOK, ObjectsTyped, TenantTyped, CallsTyped, SweepTyped
<1>9. ASSUME NEW k \in Keys, SettlePut(k) PROVE TypeOK'
  <2>1. [comp EXCEPT !.at = "settling", !.key = Nobody, !.seen = NoRecord, !.settled = NoRecord] \in CompType
    BY <1>1, ConstantsTyped DEF CompType
  <2>2. comp' \in CompType
    BY <1>9, <2>1, ConstantsTyped DEF SettlePut
  <2>3. records' \in [Keys -> RecordType]
    BY <1>1, <1>9, CompFields DEF SettlePut
  <2>4. QED
    BY <1>9, <2>2, <2>3 DEF SettlePut, TypeOK, ObjectsTyped, TenantTyped, CallsTyped, SweepTyped
<1>10. QED
    BY <1>2, <1>3, <1>4, <1>5, <1>6, <1>7, <1>8, <1>9 DEF CompactionStep

LEMMA TypeSweep ==
    ASSUME TypeOK, SweepStep
    PROVE  TypeOK'
<1>1. /\ manifest \in ManifestType /\ left \in WorkloadType /\ gc \in GCType /\ SweepTyped
      /\ files \subseteq ObjectType
    BY DEF TypeOK, ObjectsTyped, SweepTyped, TenantTyped
<1>2. CASE StartGC \/ RunGC
  <2>1. /\ [gc EXCEPT !.at = "sweeping", !.m = manifest] \in GCType
        /\ \A l \in SUBSET ObjectType : [IdleGC EXCEPT !.at = "paused", !.listed = l] \in GCType
    BY <1>1, ConstantsTyped DEF GCType
  <2>2. gc' \in GCType
    <3>1. CASE StartGC
      <4>1. (IF tenant.phase = "active" THEN files ELSE {}) \in SUBSET ObjectType
        BY <1>1
      <4>2. QED
        BY <2>1, <3>1, <4>1 DEF StartGC
    <3>2. CASE RunGC
      BY <2>1, <3>2, ConstantsTyped DEF RunGC
    <3>3. QED
      BY <1>2, <3>1, <3>2
  <2>3. QED
    BY <1>2, <2>2 DEF StartGC, RunGC, TypeOK, ObjectsTyped, TenantTyped, CallsTyped, SweepTyped
<1>3. CASE EndGC
  <2>1. SweepTyped'
    BY <1>1, <1>3, ConstantsTyped, EmptyTable DEF EndGC, SweepTyped
  <2>2. QED
    BY <1>3, <2>1 DEF EndGC, TypeOK, ObjectsTyped, TenantTyped, CallsTyped
<1>4. ASSUME NEW o \in files, Visit(o) PROVE TypeOK'
  <2> DEFINE table == IF CanDelete(o) THEN Restrict(retired, DOMAIN retired \ {o})
                      ELSE IF o \in DOMAIN retired \/ gc.moved
                              \/ Cardinality(DOMAIN retired) >= MaxRetired THEN retired
                      ELSE [p \in DOMAIN retired \union {o} |-> IF p = o THEN Views ELSE retired[p]]
             rest == [gc EXCEPT !.listed = @ \ {o}]
             paused == [rest EXCEPT !.at = "paused", !.m = EmptyManifest, !.moved = FALSE]
  <2>1. /\ files' = IF CanDelete(o) THEN files \ {o} ELSE files
        /\ \/ gc' = rest /\ retired' = table /\ UNCHANGED <<lock, left>>
           \/ gc' = paused /\ retired' = (IF Views = {} THEN <<>> ELSE table) /\ lock' = Nobody /\ Spent("pauses")
        /\ UNCHANGED <<manifest, records, tenant, writer, reader, comp, history>>
    BY <1>4 DEF Visit
  <2>2. DOMAIN table \subseteq ObjectType /\ table \in [DOMAIN table -> SUBSET (Keys \union Readers)]
    <3>1. Views \in SUBSET (Keys \union Readers)
      BY DEF Views
    <3>2. \A p \in DOMAIN retired : retired[p] \in SUBSET (Keys \union Readers) /\ p \in ObjectType
      BY <1>1 DEF SweepTyped
    <3>3. CASE CanDelete(o)
      <4>1. table = [p \in DOMAIN retired \ {o} |-> retired[p]]
        BY <3>3 DEF Restrict
      <4>2. QED
        BY <3>2, <4>1
    <3>4. CASE table = retired
      <4> HIDE DEF table
      <4> QED
        BY <1>1, <3>4 DEF SweepTyped
    <3>5. CASE table = [p \in DOMAIN retired \union {o} |-> IF p = o THEN Views ELSE retired[p]]
      <4> HIDE DEF table
      <4>1. o \in ObjectType
        BY <1>1
      <4>2. DOMAIN table = DOMAIN retired \union {o}
        BY <3>5
      <4>3. \A p \in DOMAIN table : table[p] \in SUBSET (Keys \union Readers)
        BY <3>1, <3>2, <3>5
      <4>4. table = [p \in DOMAIN table |-> table[p]]
        BY <3>5
      <4>5. QED
        BY <3>2, <4>1, <4>2, <4>3, <4>4
    <3>6. QED
      BY <3>3, <3>4, <3>5
  <2>3. rest \in GCType
    BY <1>1 DEF GCType
  <2> HIDE DEF table, rest
  <2>4. paused \in GCType
    BY <2>3, ConstantsTyped DEF GCType
  <2> HIDE DEF paused
  <2>5. SweepTyped'
    BY <2>1, <2>2, <2>3, <2>4, EmptyTable DEF SweepTyped
  <2>6. left' \in WorkloadType
    BY <1>1, <2>1, SpentTyped
  <2>7. QED
    BY <1>1, <2>1, <2>5, <2>6 DEF TypeOK, ObjectsTyped, TenantTyped, CallsTyped
<1>5. QED
    BY <1>2, <1>3, <1>4 DEF SweepStep

LEMMA TypePurge ==
    ASSUME TypeOK, BeginPurge \/ PurgeObjects \/ CreateTenant \/ Crash
    PROVE  TypeOK'
<1>1. left \in WorkloadType
    BY DEF TypeOK, TenantTyped
<1>2. CASE BeginPurge
  <2>1. left' \in WorkloadType
    BY <1>1, <1>2, SpentTyped DEF BeginPurge
  <2>2. QED
    BY <1>2, <2>1 DEF BeginPurge, TypeOK, ObjectsTyped, TenantTyped, CallsTyped, SweepTyped
<1>3. CASE PurgeObjects
  <2>1. ObjectsTyped'
    BY <1>3, ConstantsTyped DEF PurgeObjects, ObjectsTyped
  <2>2. QED
    BY <1>3, <2>1 DEF PurgeObjects, TypeOK, TenantTyped, CallsTyped, SweepTyped
<1>4. CASE CreateTenant
    BY <1>4 DEF CreateTenant, NewLease, TypeOK, ObjectsTyped, TenantTyped, CallsTyped, SweepTyped
<1>5. CASE Crash
  <2>1. left' \in WorkloadType
    BY <1>1, <1>5, SpentTyped DEF Crash
  <2>2. SweepTyped'
    BY <1>5, ConstantsTyped, EmptyTable DEF Crash, SweepTyped
  <2>3. CallsTyped'
    BY <1>5, ConstantsTyped DEF Crash, CallsTyped
  <2>4. QED
    BY <1>5, <2>1, <2>2, <2>3 DEF Crash, TypeOK, ObjectsTyped, TenantTyped
<1>6. QED
    BY <1>2, <1>3, <1>4, <1>5

LEMMA TypeNext ==
    ASSUME TypeOK, StorageInv, [Next]_vars
    PROVE  TypeOK'
<1>1. CASE Next
    BY <1>1, TypeReader, TypeWriter, TypeCompaction, TypeSweep, TypePurge DEF Next, StorageInv
<1>2. CASE UNCHANGED vars
    BY <1>2 DEF vars, TypeOK, ObjectsTyped, TenantTyped, CallsTyped, SweepTyped
<1>3. QED
    BY <1>1, <1>2

-----------------------------------------------------------------------------
(* The tenant lock.                                                        *)

LEMMA Roles ==
    ASSUME NEW k \in Keys
    PROVE  k # Nobody /\ k # Compactor /\ k # Sweeper /\ k # Purger
BY RolesAreNoKeys

LEMMA RolesDiffer ==
    /\ Nobody # Compactor /\ Nobody # Sweeper /\ Nobody # Purger
    /\ Compactor # Sweeper /\ Compactor # Purger /\ Sweeper # Purger
BY DEF Nobody, Compactor, Sweeper, Purger

LEMMA LockInit == Init => LockInv
BY Roles, RolesDiffer DEF Init, LockInv, IdleWriter, IdleComp, IdleGC

\* How a step of writer k moves it and the lock.
LEMMA WriterMoves ==
    ASSUME TypeOK, NEW k \in Keys, BeginCommit(k) \/ WriterStep(k)
    PROVE  /\ \A j \in Keys : j # k => writer'[j] = writer[j]
           /\ UNCHANGED <<comp, gc, tenant>>
           /\ \/ /\ writer[k].at = "waiting" /\ writer'[k].at = "reserved" /\ lock = Nobody /\ lock' = k
                 /\ tenant.phase = "active"
              \/ /\ writer[k].at \in {"reserved", "put"} /\ writer'[k].at \in {"put", "prepared"} /\ lock' = lock
              \/ /\ writer'[k].at \in {"idle", "waiting", "published", "completing"}
                 /\ lock' = IF writer[k].at \in {"idle", "published", "completing"} THEN lock
                            ELSE IF writer[k].at \in {"reserved", "prepared"} /\ writer'[k].at = "published" THEN Nobody
                            ELSE IF lock = k THEN Nobody ELSE lock
<1>1. writer \in [Keys -> WriterType] /\ writer[k] \in WriterType
    BY DEF TypeOK, CallsTyped
<1>2. DOMAIN writer[k] = {"at", "try", "held", "next", "made"} /\ IdleWriter.at = "idle"
    BY <1>1, WriterFields DEF IdleWriter
<1>3. ASSUME Leave(k) PROVE /\ \A j \in Keys : j # k => writer'[j] = writer[j]
                            /\ writer'[k].at = "idle" /\ lock' = IF lock = k THEN Nobody ELSE lock
    BY <1>1, <1>2, <1>3 DEF Leave
<1>4. CASE BeginCommit(k)
    BY <1>1, <1>2, <1>4 DEF BeginCommit
<1>5. CASE Reserve(k)
  <2>1. /\ UNCHANGED <<comp, gc, tenant>> /\ writer[k].at = "waiting" /\ lock = Nobody /\ tenant.phase = "active"
        /\ \/ /\ lock' = k
              /\ \E r : writer' = [writer EXCEPT ![k].at = "reserved", ![k].held = r]
           \/ Leave(k)
    BY <1>5 DEF Reserve, Free
  <2>2. CASE Leave(k)
    BY <1>3, <2>1, <2>2
  <2>3. CASE lock' = k /\ \E r : writer' = [writer EXCEPT ![k].at = "reserved", ![k].held = r]
    BY <1>1, <1>2, <2>1, <2>3
  <2>4. QED
    BY <2>1, <2>2, <2>3
<1>6. CASE Refused(k)
    BY <1>3, <1>6 DEF Refused
<1>7. CASE Skip(k)
    BY <1>1, <1>2, <1>7 DEF Skip
<1>8. CASE PutCommit(k)
    BY <1>1, <1>2, <1>8 DEF PutCommit
<1>9. CASE CommitFails(k)
    BY <1>3, <1>9 DEF CommitFails
<1>10. CASE Prepare(k)
    BY <1>1, <1>2, <1>10 DEF Prepare
<1>11. CASE Publish(k)
    BY <1>1, <1>2, <1>11 DEF Publish
<1>12. CASE PublishUnanswered(k)
    BY <1>3, <1>12 DEF PublishUnanswered
<1>13. CASE FinishIndexes(k)
    BY <1>1, <1>2, <1>13 DEF FinishIndexes
<1>14. CASE CompleteCommit(k)
    BY <1>1, <1>2, <1>14 DEF CompleteCommit
<1>15. QED
    BY <1>4, <1>5, <1>6, <1>7, <1>8, <1>9, <1>10, <1>11, <1>12, <1>13, <1>14 DEF WriterStep

LEMMA LockNext ==
    ASSUME TypeOK, LockInv, CompInv, Next
    PROVE  LockInv'
<1>1. ASSUME NEW r \in Readers, PinReadView(r) \/ Release(r) PROVE LockInv'
    BY <1>1 DEF PinReadView, Release, LockInv
<1>2. ASSUME NEW k \in Keys, BeginCommit(k) \/ WriterStep(k) PROVE LockInv'
  <2> USE Roles, RolesDiffer
  <2>1. writer[k].at \in {"idle", "waiting", "reserved", "put", "prepared", "published", "completing"}
    BY WriterFields DEF TypeOK, CallsTyped
  <2>2. (\A j \in Keys : writer[j].at \in {"reserved", "put", "prepared"} <=> lock = j)'
    BY <1>2, <2>1, WriterMoves DEF LockInv
  <2>3. QED
    BY <1>2, <2>1, <2>2, WriterMoves DEF LockInv
<1>3. CASE StartCompaction \/ CompactionStep
  <2> USE Roles, RolesDiffer
  <2>1. DOMAIN comp = {"at", "m", "ids", "fence", "wrote", "todo", "key", "seen", "settled"} /\ IdleComp.at = "idle"
    BY CompFields DEF IdleComp
  <2>2. CASE LockForPublication
    BY <2>1, <2>2 DEF LockForPublication, StopCompaction, Free, LockInv
  <2>3. CASE PublishCompaction
    BY <2>1, <2>3 DEF PublishCompaction, StopCompaction, LockInv
  <2>4. CASE StartCompaction
    <3>1. DOMAIN IdleComp = {"at", "m", "ids", "fence", "wrote", "todo", "key", "seen", "settled"}
      BY DEF IdleComp
    <3>2. comp'.at = "loading" /\ comp.at = "idle" /\ UNCHANGED <<lock, writer, gc, tenant>>
      BY <2>4, <3>1 DEF StartCompaction
    <3>3. QED
      BY <3>2 DEF LockInv
  <2>5. CASE LoadGraph
    BY <2>1, <2>5 DEF LoadGraph, LockInv
  <2>6. ASSUME NEW kind \in {"pages", "record"}, PutSnapshot(kind) PROVE LockInv'
    <3>1. gc'.at = gc.at
      BY <2>6, GCFields DEF PutSnapshot
    <3>2. QED
      BY <2>1, <2>6, <3>1 DEF PutSnapshot, StopCompaction, LockInv
  <2>7. CASE SnapshotWritten
    BY <2>1, <2>7 DEF SnapshotWritten, LockInv
  <2>8. ASSUME NEW k \in Keys, SettleRead(k) PROVE LockInv'
    BY <2>1, <2>8 DEF SettleRead, LockInv
  <2>9. ASSUME NEW k \in Keys, SettlePut(k) PROVE LockInv'
    BY <2>1, <2>9 DEF SettlePut, LockInv
  <2>10. QED
    BY <1>3, <2>2, <2>3, <2>4, <2>5, <2>6, <2>7, <2>8, <2>9 DEF CompactionStep
<1>4. CASE SweepStep
  <2> USE Roles, RolesDiffer
  <2>1. DOMAIN gc = {"at", "m", "listed", "moved"} /\ IdleGC.at = "idle"
    BY GCFields DEF IdleGC
  <2>2. CASE StartGC \/ RunGC
    BY <2>1, <2>2 DEF StartGC, RunGC, IdleGC, Free, LockInv
  <2>3. CASE EndGC
    BY <2>1, <2>3 DEF EndGC, LockInv
  <2>4. ASSUME NEW o \in files, Visit(o) PROVE LockInv'
    <3>1. /\ gc.at = "sweeping" /\ UNCHANGED <<writer, comp, tenant>>
          /\ \/ gc' = [gc EXCEPT !.listed = @ \ {o}] /\ UNCHANGED lock
             \/ /\ gc' = [[gc EXCEPT !.listed = @ \ {o}] EXCEPT !.at = "paused", !.m = EmptyManifest, !.moved = FALSE]
                /\ lock' = Nobody
      BY <2>4 DEF Visit
    <3>2. \/ gc'.at = "sweeping" /\ UNCHANGED lock
          \/ gc'.at = "paused" /\ lock' = Nobody
      BY <2>1, <3>1
    <3>3. QED
      BY <3>1, <3>2 DEF LockInv
  <2>5. QED
    BY <1>4, <2>2, <2>3, <2>4 DEF SweepStep
<1>5. CASE BeginPurge \/ PurgeObjects \/ CreateTenant \/ Crash
  <2> USE Roles, RolesDiffer
  <2>1. DOMAIN tenant = {"phase", "generation"} /\ IdleComp.at = "idle" /\ IdleGC.at = "idle" /\ IdleWriter.at = "idle"
    BY DEF TypeOK, TenantTyped, IdleComp, IdleGC, IdleWriter
  <2>2. CASE BeginPurge
    BY <2>1, <2>2 DEF BeginPurge, Free, LockInv
  <2>3. CASE PurgeObjects
    BY <2>1, <2>3 DEF PurgeObjects, LockInv
  <2>4. CASE CreateTenant
    BY <2>1, <2>4 DEF CreateTenant, NewLease, Free, LockInv
  <2>5. CASE Crash
    BY <2>1, <2>5 DEF Crash, LockInv
  <2>6. QED
    BY <1>5, <2>2, <2>3, <2>4, <2>5
<1>6. QED
    BY <1>1, <1>2, <1>3, <1>4, <1>5 DEF Next

-----------------------------------------------------------------------------
(* Records and writers.                                                    *)

RecordsInv == \A k \in Keys : RecordInv(k) /\ WriterInv(k)

LEMMA RecordFrame ==
    ASSUME NEW j \in Keys, RecordInv(j), records'[j] = records[j], history' = history,
           manifest'.snap = manifest.snap
    PROVE  RecordInv(j)'
BY DEF RecordInv, Mine

LEMMA WriterFrame ==
    ASSUME NEW j \in Keys, WriterInv(j), records'[j] = records[j], history' = history, writer'[j] = writer[j],
           manifest'.snap = manifest.snap
    PROVE  WriterInv(j)'
BY DEF WriterInv, Mine

\* A commit more in the history.
LEMMA MineAppend ==
    ASSUME history \in Seq(CommitIds), NEW k \in Keys, NEW t \in Nat, history' = Append(history, <<k, t>>)
    PROVE  /\ \A j \in Keys : j # k => Mine(j)' = Mine(j)
           /\ Mine(k)' = Mine(k) \union {Len(history) + 1}
           /\ history'[Len(history) + 1] = <<k, t>> /\ Len(history') = Len(history) + 1
           /\ \A i \in DOMAIN history : history'[i] = history[i]
<1>1. DOMAIN history = 1..Len(history) /\ Len(history) \in Nat /\ DOMAIN history' = 1..Len(history) + 1
    OBVIOUS
<1>2. history'[Len(history) + 1] = <<k, t>> /\ \A i \in 1..Len(history) : history'[i] = history[i]
    OBVIOUS
<1>3. <<k, t>>[1] = k
    OBVIOUS
<1>4. \A j \in Keys, i \in 1..Len(history) + 1 :
        i \in Mine(j)' <=> (i \in Mine(j) \/ (i = Len(history) + 1 /\ j = k))
    BY <1>1, <1>2, <1>3 DEF Mine
<1>5. \A j \in Keys : Mine(j) \subseteq 1..Len(history) /\ Mine(j)' \subseteq 1..Len(history) + 1
    BY <1>1 DEF Mine
<1>6. \A j \in Keys : j # k => Mine(j)' = Mine(j)
  <2> TAKE j \in Keys
  <2> HAVE j # k
  <2>1. \A i : i \in Mine(j)' <=> i \in Mine(j)
    BY <1>1, <1>4, <1>5
  <2>2. QED
    BY <2>1
<1>7. Mine(k)' = Mine(k) \union {Len(history) + 1}
    BY <1>1, <1>4, <1>5
<1>8. QED
    BY <1>1, <1>2, <1>6, <1>7

LEMMA MineWhere == \A k \in Keys, i \in DOMAIN history : i \in Mine(k) <=> history[i][1] = k
BY DEF Mine

\* What a call that got the lock does with the record it finds.
LEMMA ReserveCases ==
    ASSUME TypeOK, Follows(manifest, history), RecordsInv, NEW k \in Keys, Reserve(k)
    PROVE  \/ \E r \in RecordType :
                /\ records' = [records EXCEPT ![k] = r] /\ Mine(k) = {}
                /\ writer' = [writer EXCEPT ![k].at = "reserved", ![k].held = r]
                /\ r = records[k] \/ (r = Pending /\ records[k].state = "none")
           \/ Leave(k) /\ UNCHANGED records
           \/ /\ Leave(k) /\ records' = [records EXCEPT ![k] = Committed(records[k])]
              /\ records[k].state = "prepared"
              /\ records[k].skipped \/ Mine(k) # {}
<1>1. /\ manifest \in ManifestType /\ history \in Seq(CommitIds) /\ records[k] \in RecordType
    BY DEF TypeOK, ObjectsTyped
<1> DEFINE take(r) == /\ lock' = k
                      /\ writer' = [writer EXCEPT ![k].at = "reserved", ![k].held = r]
                      /\ records' = [records EXCEPT ![k] = r]
                      /\ UNCHANGED retired
           rec == records[k]
<1>2. \/ rec.state = "none" /\ take(Pending)
      \/ rec.state = "pending" /\ take(rec)
      \/ rec.state = "committed" /\ Leave(k) /\ UNCHANGED records
      \/ rec.state = "prepared" /\ Verdict(rec) = "not" /\ take(rec)
      \/ rec.state = "prepared" /\ Verdict(rec) = "published" /\ Leave(k)
         /\ records' = [records EXCEPT ![k] = Committed(rec)]
      \/ rec.state = "prepared" /\ Verdict(rec) = "ambiguous" /\ Leave(k) /\ UNCHANGED records
    BY DEF Reserve
<1>3. RecordInv(k)
    BY DEF RecordsInv
<1>4. CASE rec.state = "none" /\ take(Pending)
    BY <1>3, <1>4, ConstantsTyped DEF RecordInv
<1>5. CASE rec.state = "pending" /\ take(rec)
    BY <1>1, <1>3, <1>5 DEF RecordInv
<1>6. CASE rec.state = "prepared" /\ Verdict(rec) = "not" /\ take(rec)
  <2>1. rec.skipped \/ (rec.version > 0 /\ rec.id[1] = k)
    BY <1>1, <1>3, <1>6, RecordFields DEF RecordInv
  <2>2. ~rec.skipped /\ ~ (rec.version \in DOMAIN history /\ history[rec.version] = rec.id)
    BY <1>1, <1>6, <2>1, VerdictFacts
  <2>3. Mine(k) = {}
    BY <1>3, <1>6, <2>2 DEF RecordInv, Mine
  <2>4. QED
    BY <1>1, <1>6, <2>3
<1>7. CASE rec.state = "prepared" /\ Verdict(rec) = "published" /\ Leave(k)
           /\ records' = [records EXCEPT ![k] = Committed(rec)]
  <2>1. rec.skipped \/ (rec.version > 0 /\ rec.id[1] = k)
    BY <1>1, <1>3, <1>7, RecordFields DEF RecordInv
  <2>2. rec.skipped \/ (rec.version \in DOMAIN history /\ history[rec.version] = rec.id)
    BY <1>1, <1>7, <2>1, VerdictFacts
  <2>3. rec.skipped \/ Mine(k) # {}
    BY <2>1, <2>2 DEF Mine
  <2>4. QED
    BY <1>7, <2>3
<1>8. QED
    BY <1>2, <1>4, <1>5, <1>6, <1>7

\* A prepared record that turned out to be published becomes a committed one.
LEMMA CommittedInv ==
    ASSUME records \in [Keys -> RecordType], NEW k \in Keys, RecordInv(k), records[k].state = "prepared",
           records[k].skipped \/ Mine(k) # {}, UNCHANGED <<manifest, history>>,
           records'[k] = Committed(records[k])
    PROVE  RecordInv(k)'
<1>1. /\ records[k] \in RecordType /\ records'[k].state = "committed" /\ records'[k].version = records[k].version
      /\ records'[k].id = records[k].id /\ records'[k].skipped = records[k].skipped
    BY RecordFields
<1>2. QED
    BY <1>1 DEF RecordInv, Mine

\* An idle or waiting writer promises nothing.
LEMMA IdleInv ==
    ASSUME NEW j \in Keys, writer'[j].at \in {"idle", "waiting"}
    PROVE  WriterInv(j)'
BY DEF WriterInv

LEMMA LeaveIdles ==
    ASSUME TypeOK, NEW k \in Keys, Leave(k)
    PROVE  writer'[k].at = "idle" /\ \A j \in Keys : j # k => writer'[j] = writer[j]
BY DEF Leave, IdleWriter, TypeOK, CallsTyped

\* The publication of a commit.
LEMMA PublishInv ==
    ASSUME TypeOK, Follows(manifest, history), LockInv, RecordsInv, NEW k \in Keys,
           writer[k].at = "prepared", manifest' = writer[k].next, history' = Append(history, writer[k].next.head),
           UNCHANGED records, writer'[k].at \in {"idle", "published"},
           writer'[k].at = "published" => writer'[k].held = writer[k].held,
           \A j \in Keys : j # k => writer'[j] = writer[j]
    PROVE  Follows(manifest, history)' /\ RecordsInv'
<1> DEFINE t == writer[k].try
           n == Len(history) + 1
<1>1. history \in Seq(CommitIds) /\ t \in Nat /\ writer[k] \in WriterType
    BY WriterFields DEF TypeOK, ObjectsTyped, CallsTyped
<1>2. /\ Follows(writer[k].next, Append(history, <<k, t>>)) /\ Mine(k) = {} /\ writer[k].next.snap = manifest.snap
      /\ records[k] = [state |-> "prepared", version |-> n, id |-> <<k, t>>, skipped |-> FALSE]
      /\ writer[k].held = records[k]
    BY DEF RecordsInv, WriterInv
<1>3. writer[k].next.head = <<k, t>>
  <2>1. Len(Append(history, <<k, t>>)) = n /\ Append(history, <<k, t>>)[n] = <<k, t>> /\ n > 0
    BY <1>1
  <2>2. QED
    BY <1>2, <2>1 DEF Follows
<1>4. history' = Append(history, <<k, t>>)
    BY <1>3
<1>5. Follows(manifest, history)'
    BY <1>2, <1>4
<1>6. /\ \A j \in Keys : j # k => Mine(j)' = Mine(j)
      /\ Mine(k)' = {n} /\ history'[n] = <<k, t>> /\ Len(history') = n
      /\ \A i \in DOMAIN history : history'[i] = history[i]
    BY <1>1, <1>2, <1>4, MineAppend
<1>7. manifest'.snap = manifest.snap
    BY <1>2
<1>8. RecordInv(k)'
  <2>1. /\ records'[k].state = "prepared" /\ records'[k].version = n /\ records'[k].id = <<k, t>> /\ ~records'[k].skipped
        /\ <<k, t>>[1] = k /\ n > 0
    BY <1>1, <1>2
  <2>2. manifest'.snap < n
    <3>1. manifest.snap < n
      BY <2>1 DEF RecordsInv, RecordInv
    <3>2. QED
      BY <1>7, <3>1
  <2> HIDE DEF n, t
  <2>3. QED
    BY <1>6, <2>1, <2>2 DEF RecordInv
<1>9. WriterInv(k)'
  <2>1. Mine(k)' # {}
    BY <1>6
  <2>2. writer[k].held.state = "prepared"
    BY <1>2
  <2>3. QED
    BY <2>1, <2>2 DEF WriterInv
<1>10. ASSUME NEW j \in Keys, j # k PROVE RecordInv(j)' /\ WriterInv(j)'
  <2>1. RecordInv(j)'
    <3>1. RecordInv(j) /\ Mine(j)' = Mine(j) /\ Mine(j) \subseteq DOMAIN history
      BY <1>6, <1>10 DEF RecordsInv, Mine
    <3>2. Mine(j) # {} /\ Mine(j) \subseteq {records[j].version} => history'[records[j].version] = history[records[j].version]
      BY <1>6, <3>1
    <3>3. QED
      BY <1>7, <3>1, <3>2 DEF RecordInv
  <2>2. writer[j].at \notin {"reserved", "put", "prepared"}
    <3>1. lock = k
      BY DEF LockInv
    <3>2. QED
      BY <1>10, <3>1 DEF LockInv
  <2>3. WriterInv(j)'
    BY <1>6, <1>10, <2>2 DEF RecordsInv, WriterInv
  <2>4. QED
    BY <2>1, <2>3
<1>11. QED
    BY <1>5, <1>8, <1>9, <1>10 DEF RecordsInv

LEMMA RecordsWriter ==
    ASSUME TypeOK, Follows(manifest, history), LockInv, RecordsInv, NEW k \in Keys, BeginCommit(k) \/ WriterStep(k)
    PROVE  Follows(manifest, history)' /\ RecordsInv'
<1>1. /\ records \in [Keys -> RecordType] /\ history \in Seq(CommitIds) /\ manifest \in ManifestType
      /\ writer \in [Keys -> WriterType] /\ writer[k] \in WriterType /\ records[k] \in RecordType
    BY DEF TypeOK, ObjectsTyped, CallsTyped
<1>2. DOMAIN writer[k] = {"at", "try", "held", "next", "made"}
    BY <1>1, WriterFields
<1>3. RecordInv(k) /\ WriterInv(k)
    BY DEF RecordsInv
<1>4. \A j \in Keys : j # k => writer'[j] = writer[j]
    BY WriterMoves
\* Only the record and the writer of k change.
<1>5. ASSUME UNCHANGED <<manifest, history>>, \A j \in Keys : j # k => records'[j] = records[j],
             RecordInv(k)', WriterInv(k)'
      PROVE  Follows(manifest, history)' /\ RecordsInv'
  <2>1. ASSUME NEW j \in Keys, j # k PROVE RecordInv(j)' /\ WriterInv(j)'
    BY <1>4, <1>5, <2>1, RecordFrame, WriterFrame DEF RecordsInv
  <2>2. QED
    BY <1>5, <2>1 DEF RecordsInv
<1>6. ASSUME UNCHANGED <<manifest, history, records>>, WriterInv(k)' PROVE Follows(manifest, history)' /\ RecordsInv'
  <2>1. RecordInv(k)'
    BY <1>3, <1>6, RecordFrame
  <2>2. QED
    BY <1>5, <1>6, <2>1
<1>7. CASE BeginCommit(k)
  <2>1. writer'[k].at = "waiting"
    BY <1>1, <1>2, <1>7 DEF BeginCommit
  <2>2. QED
    BY <1>6, <1>7, <2>1, IdleInv DEF BeginCommit
<1>8. CASE Reserve(k)
  <2>1. UNCHANGED <<manifest, history>>
    BY <1>8 DEF Reserve
  <2>2. ASSUME NEW r \in RecordType,
               records' = [records EXCEPT ![k] = r], Mine(k) = {},
               writer' = [writer EXCEPT ![k].at = "reserved", ![k].held = r],
               r = records[k] \/ (r = Pending /\ records[k].state = "none")
        PROVE  Follows(manifest, history)' /\ RecordsInv'
    <3>1. writer'[k].at = "reserved" /\ records'[k] = r /\ \A j \in Keys : j # k => records'[j] = records[j]
      BY <1>1, <1>2, <2>2
    <3>2. Mine(k)' = {}
      BY <2>1, <2>2 DEF Mine
    <3>3. WriterInv(k)'
      BY <3>1, <3>2 DEF WriterInv
    <3>4. RecordInv(k)'
      <4>1. CASE r = records[k]
        BY <1>3, <2>1, <3>1, <4>1, RecordFrame
      <4>2. CASE r = Pending
        <5>1. Pending.state = "pending"
          BY DEF Pending, NoRecord
        <5>2. QED
          BY <3>1, <3>2, <4>2, <5>1 DEF RecordInv
      <4>3. QED
        BY <2>2, <4>1, <4>2
    <3>5. QED
      BY <1>5, <2>1, <3>1, <3>3, <3>4
  <2>3. CASE Leave(k) /\ UNCHANGED records
    BY <1>6, <2>1, <2>3, LeaveIdles, IdleInv
  <2>4. CASE /\ Leave(k) /\ records' = [records EXCEPT ![k] = Committed(records[k])]
             /\ records[k].state = "prepared"
             /\ records[k].skipped \/ Mine(k) # {}
    <3>1. records'[k] = Committed(records[k]) /\ \A j \in Keys : j # k => records'[j] = records[j]
      BY <1>1, <2>4
    <3>2. RecordInv(k)'
      BY <1>1, <1>3, <2>1, <2>4, <3>1, CommittedInv
    <3>3. QED
      BY <1>5, <2>1, <2>4, <3>1, <3>2, LeaveIdles, IdleInv
  <2>5. QED
    BY <1>8, <2>2, <2>3, <2>4, ReserveCases
<1>9. CASE Refused(k)
    BY <1>6, <1>9, LeaveIdles, IdleInv DEF Refused
<1>10. CASE Skip(k)
  <2> DEFINE rec == [state |-> "prepared", version |-> manifest.version, id |-> manifest.head, skipped |-> TRUE]
  <2>1. /\ writer[k].at = "reserved" /\ UNCHANGED <<manifest, history>> /\ records' = [records EXCEPT ![k] = rec]
        /\ writer' = [writer EXCEPT ![k].at = "published", ![k].held = rec]
    BY <1>10 DEF Skip
  <2>2. rec.state = "prepared" /\ rec.skipped
    OBVIOUS
  <2> HIDE DEF rec
  <2>3. records'[k] = rec /\ \A j \in Keys : j # k => records'[j] = records[j]
    BY <1>1, <2>1
  <2>4. writer'[k].at = "published" /\ writer'[k].held = rec
    BY <1>1, <1>2, <2>1
  <2>5. Mine(k)' = {}
    BY <1>3, <2>1 DEF WriterInv, Mine
  <2>6. RecordInv(k)'
    BY <2>2, <2>3, <2>5 DEF RecordInv
  <2>7. WriterInv(k)'
    BY <2>2, <2>4 DEF WriterInv
  <2>8. QED
    BY <1>5, <2>1, <2>3, <2>6, <2>7
<1>11. CASE PutCommit(k)
  <2>1. UNCHANGED <<manifest, history, records>> /\ writer[k].at = "reserved"
    BY <1>11 DEF PutCommit
  <2>2. Mine(k)' = {}
    BY <1>3, <2>1 DEF WriterInv, Mine
  <2>3. /\ writer'[k].at = "put" /\ writer'[k].try = writer[k].try /\ writer'[k].next.snap = manifest.snap
        /\ Follows(writer'[k].next, Append(history, <<k, writer[k].try>>))
    BY <1>11, NextFollows
  <2>4. WriterInv(k)'
    BY <2>1, <2>2, <2>3 DEF WriterInv
  <2>5. QED
    BY <1>6, <2>1, <2>4
<1>12. CASE CommitFails(k)
    BY <1>6, <1>12, LeaveIdles, IdleInv DEF CommitFails
<1>13. CASE Prepare(k)
  <2> DEFINE rec == [state |-> "prepared", version |-> writer[k].next.version, id |-> writer[k].next.head,
                     skipped |-> FALSE]
             t == writer[k].try
  <2>1. /\ writer[k].at = "put" /\ UNCHANGED <<manifest, history>> /\ records' = [records EXCEPT ![k] = rec]
        /\ writer' = [writer EXCEPT ![k].at = "prepared", ![k].held = rec]
    BY <1>13 DEF Prepare
  <2>2. /\ Mine(k) = {} /\ Follows(writer[k].next, Append(history, <<k, t>>)) /\ writer[k].next.snap = manifest.snap
    BY <1>3, <2>1 DEF WriterInv
  <2>3. writer[k].next.version = Len(history) + 1 /\ writer[k].next.head = <<k, t>>
    <3>1. /\ Len(Append(history, <<k, t>>)) = Len(history) + 1 /\ Len(history) + 1 > 0
          /\ Append(history, <<k, t>>)[Len(history) + 1] = <<k, t>>
      BY <1>1
    <3>2. QED
      BY <2>2, <3>1 DEF Follows
  <2>4. rec = [state |-> "prepared", version |-> Len(history) + 1, id |-> <<k, t>>, skipped |-> FALSE]
    BY <2>3
  <2>5. /\ rec.state = "prepared" /\ rec.version = Len(history) + 1 /\ rec.id = <<k, t>> /\ ~rec.skipped
        /\ <<k, t>>[1] = k
    BY <2>4
  <2> HIDE DEF rec
  <2>6. records'[k] = rec /\ \A j \in Keys : j # k => records'[j] = records[j]
    BY <1>1, <2>1
  <2>7. /\ writer'[k].at = "prepared" /\ writer'[k].held = rec /\ writer'[k].try = t
        /\ writer'[k].next = writer[k].next
    BY <1>1, <1>2, <2>1
  <2>8. Mine(k)' = {}
    BY <2>1, <2>2 DEF Mine
  <2>9. manifest.snap < Len(history) + 1 /\ Len(history) + 1 > 0
    BY <1>1, ManifestFields DEF Follows
  <2>10. RecordInv(k)'
    BY <2>1, <2>5, <2>6, <2>8, <2>9 DEF RecordInv
  <2>11. WriterInv(k)'
    BY <2>1, <2>2, <2>4, <2>6, <2>7, <2>8 DEF WriterInv
  <2>12. QED
    BY <1>5, <2>1, <2>6, <2>10, <2>11
<1>14. CASE Publish(k)
  <2>1. writer'[k].at = "published" /\ writer'[k].held = writer[k].held
    BY <1>1, <1>2, <1>14 DEF Publish
  <2>2. QED
    BY <1>4, <1>14, <2>1, PublishInv DEF Publish
<1>15. CASE PublishUnanswered(k)
    BY <1>4, <1>15, LeaveIdles, PublishInv DEF PublishUnanswered
<1>16. CASE FinishIndexes(k)
  <2>1. /\ writer[k].at = "published" /\ writer'[k].at = "completing" /\ writer'[k].held = writer[k].held
        /\ UNCHANGED <<manifest, history, records>>
    BY <1>1, <1>2, <1>16 DEF FinishIndexes
  <2>2. Mine(k)' = Mine(k)
    BY <2>1 DEF Mine
  <2>3. WriterInv(k)'
    BY <1>3, <2>1, <2>2 DEF WriterInv
  <2>4. QED
    BY <1>6, <2>1, <2>3
<1>17. CASE CompleteCommit(k)
  <2>1. /\ writer[k].at = "completing" /\ writer'[k].at = "idle" /\ UNCHANGED <<manifest, history>>
        /\ records' = IF records[k] = writer[k].held
                      THEN [records EXCEPT ![k] = Committed(writer[k].held)] ELSE records
    BY <1>1, <1>17 DEF CompleteCommit, IdleWriter
  <2>2. CASE records[k] = writer[k].held
    <3>1. records'[k] = Committed(records[k]) /\ \A j \in Keys : j # k => records'[j] = records[j]
      BY <1>1, <2>1, <2>2
    <3>2. records[k].state = "prepared" /\ (records[k].skipped \/ Mine(k) # {})
      BY <1>3, <2>1, <2>2 DEF WriterInv
    <3>3. RecordInv(k)'
      BY <1>1, <1>3, <2>1, <3>1, <3>2, CommittedInv
    <3>4. QED
      BY <1>5, <2>1, <3>1, <3>3, IdleInv
  <2>3. CASE records[k] # writer[k].held
    BY <1>6, <2>1, <2>3, IdleInv
  <2>4. QED
    BY <2>2, <2>3
<1>18. QED
    BY <1>7, <1>8, <1>9, <1>10, <1>11, <1>12, <1>13, <1>14, <1>15, <1>16, <1>17 DEF WriterStep

\* Whatever else changes.
LEMMA RecordsSame ==
    ASSUME Follows(manifest, history), RecordsInv, UNCHANGED <<manifest, history, records, writer>>
    PROVE  Follows(manifest, history)' /\ RecordsInv'
BY RecordFrame, WriterFrame DEF RecordsInv

\* The compaction settles a record.
LEMMA RecordsSettle ==
    ASSUME TypeOK, StorageInv, NEW k \in Keys, SettlePut(k)
    PROVE  Follows(manifest, history)' /\ RecordsInv'
<1>1. /\ comp.at = "replacing" /\ comp.key = k /\ UNCHANGED <<manifest, history, writer>>
      /\ \/ /\ FenceCurrent /\ records[k] = comp.seen /\ records' = [records EXCEPT ![k] = comp.settled]
         \/ UNCHANGED records
    BY DEF SettlePut
<1>2. Follows(manifest, history) /\ RecordsInv /\ CompInv
    BY DEF StorageInv, RecordsInv
<1>3. CASE UNCHANGED records
    BY <1>1, <1>2, <1>3, RecordsSame
<1>4. CASE FenceCurrent /\ records[k] = comp.seen /\ records' = [records EXCEPT ![k] = comp.settled]
  <2>1. /\ records \in [Keys -> RecordType] /\ records[k] \in RecordType /\ manifest \in ManifestType
        /\ history \in Seq(CommitIds) /\ comp.m \in ManifestType
    BY CompFields DEF TypeOK, ObjectsTyped
  <2>2. records[k].state = "prepared"
    BY <1>1, <1>2, <1>4 DEF CompInv
  <2>3. records[k] # NoRecord
    BY <2>2 DEF NoRecord
  <2>4. CompCurrent
    BY <1>1, <1>2, <1>4, <2>3 DEF CompInv, FenceCurrent, Emptied
  <2> DEFINE rec == records[k]
  <2>5. /\ rec.version <= comp.m.version /\ comp.m.version <= Len(history) /\ (rec.skipped \/ rec.version > 0)
        /\ comp.settled = IF Published(rec) THEN Committed(rec) ELSE Pending
    BY <1>1, <1>2, <1>4, <2>4 DEF CompCurrent, Follows
  <2>6. rec.version \in Nat /\ comp.m.version \in Nat /\ rec.skipped \in BOOLEAN
    BY <2>1, RecordFields, ManifestFields
  <2>7. RecordInv(k) /\ WriterInv(k)
    BY <1>2 DEF RecordsInv
  <2>8. rec.skipped \/ rec.version \in DOMAIN history
    BY <2>1, <2>5, <2>6
  <2>9. records'[k] = comp.settled /\ \A j \in Keys : j # k => records'[j] = records[j]
    BY <1>4, <2>1
  <2>10. writer[k].at # "prepared"
    <3>1. SUFFICES ASSUME writer[k].at = "prepared" PROVE FALSE
      OBVIOUS
    <3>2. rec.version = Len(history) + 1
      BY <2>7, <3>1 DEF WriterInv
    <3>3. QED
      BY <2>1, <2>5, <2>6, <3>2
  <2>11. RecordInv(k)' /\ records'[k].state # "prepared"
    <3>1. CASE Published(rec)
      <4>1. rec.skipped \/ Mine(k) # {}
        <5>1. CASE ~rec.skipped
          <6>1. history[rec.version] = rec.id /\ rec.id[1] = k
            BY <2>2, <2>7, <3>1, <5>1 DEF Published, RecordInv
          <6>2. QED
            BY <2>8, <5>1, <6>1 DEF Mine
        <5>2. QED
          BY <5>1
      <4>2. records'[k] = Committed(rec)
        BY <2>5, <2>9, <3>1
      <4>3. RecordInv(k)'
        BY <1>1, <2>1, <2>2, <2>7, <4>1, <4>2, CommittedInv
      <4>4. Committed(rec).state = "committed"
        BY <2>1, RecordFields
      <4>5. QED
        BY <4>2, <4>3, <4>4
    <3>2. CASE ~Published(rec)
      <4>1. Mine(k) = {}
        BY <2>2, <2>7, <3>2 DEF Published, RecordInv
      <4>2. records'[k] = Pending /\ Pending.state = "pending"
        BY <2>5, <2>9, <3>2 DEF Pending, NoRecord
      <4>3. Mine(k)' = {}
        BY <1>1, <4>1 DEF Mine
      <4>4. QED
        BY <4>2, <4>3 DEF RecordInv
    <3>3. QED
      BY <3>1, <3>2
  <2>12. WriterInv(k)'
    <3>1. Mine(k)' = Mine(k)
      BY <1>1 DEF Mine
    <3>2. QED
      BY <1>1, <2>7, <2>10, <2>11, <3>1 DEF WriterInv
  <2>13. ASSUME NEW j \in Keys, j # k PROVE RecordInv(j)' /\ WriterInv(j)'
    BY <1>1, <1>2, <2>9, <2>13, RecordFrame, WriterFrame DEF RecordsInv
  <2>14. QED
    BY <1>1, <1>2, <2>11, <2>12, <2>13 DEF RecordsInv
<1>5. QED
    BY <1>1, <1>3, <1>4

\* The compaction publishes its snapshot: every record that still is prepared
\* names a later version.
LEMMA RecordsPublishCompaction ==
    ASSUME TypeOK, StorageInv, TypeOK', PublishCompaction
    PROVE  Follows(manifest, history)' /\ RecordsInv'
<1>1. comp.at = "locked" /\ UNCHANGED <<history, records, writer>>
    BY DEF PublishCompaction
<1>2. Follows(manifest, history) /\ RecordsInv /\ CompInv /\ LockInv
    BY DEF StorageInv, RecordsInv
<1>3. lock = Compactor /\ tenant.phase = "active" /\ comp.fence = tenant.generation
    BY <1>1, <1>2 DEF LockInv, CompInv
<1>4. CompCurrent /\ Dealt = Keys
    BY <1>1, <1>2, <1>3 DEF CompInv, Dealt
<1>5. CASE manifest' = manifest
    BY <1>1, <1>2, <1>5, RecordsSame
<1>6. CASE manifest.snap < comp.m.version
           /\ manifest' = [manifest EXCEPT !.snap = comp.m.version, !.tail = TailAfter(manifest, comp.m.version)]
  <2> DEFINE S == comp.m.version
  <2>1. /\ manifest \in ManifestType /\ manifest' \in ManifestType /\ history \in Seq(CommitIds) /\ S \in Nat
        /\ S <= manifest.version
    BY <1>4, CompFields, ManifestFields DEF TypeOK, ObjectsTyped, CompCurrent
  <2>2. Follows(manifest', history)
    BY <1>2, <1>6, <2>1, CompactedFollows
  <2>3. manifest'.snap = S
    BY <1>6, <2>1, ManifestFields
  <2>4. ASSUME NEW j \in Keys PROVE RecordInv(j)' /\ WriterInv(j)'
    <3>1. writer[j].at \notin {"reserved", "put", "prepared"}
      BY <1>2, <1>3, Roles DEF LockInv
    <3>2. records[j].state = "prepared" /\ ~records[j].skipped => S < records[j].version
      BY <1>4 DEF CompCurrent
    <3>3. RecordInv(j) /\ WriterInv(j) /\ Mine(j)' = Mine(j)
      BY <1>1, <1>2 DEF RecordsInv, Mine
    <3>4. RecordInv(j)'
      BY <1>1, <2>3, <3>2, <3>3 DEF RecordInv
    <3>5. WriterInv(j)'
      BY <1>1, <3>1, <3>3 DEF WriterInv
    <3>6. QED
      BY <3>4, <3>5
  <2>5. QED
    BY <1>1, <2>2, <2>4 DEF RecordsInv
<1>7. QED
    BY <1>5, <1>6 DEF PublishCompaction

LEMMA RecordsPurge ==
    ASSUME TypeOK, StorageInv, PurgeObjects
    PROVE  Follows(manifest, history)' /\ RecordsInv'
<1>1. /\ lock = Purger /\ records' = [k \in Keys |-> NoRecord] /\ manifest' = EmptyManifest /\ history' = <<>>
      /\ UNCHANGED writer
    BY DEF PurgeObjects
<1>2. RecordsInv /\ LockInv
    BY DEF StorageInv, RecordsInv
<1>3. Follows(manifest, history)'
    BY <1>1 DEF Follows, EmptyManifest
<1>4. ASSUME NEW j \in Keys PROVE RecordInv(j)' /\ WriterInv(j)'
  <2>1. writer[j].at \notin {"reserved", "put", "prepared"}
    BY <1>1, <1>2, Roles DEF LockInv
  <2>2. Mine(j)' = {} /\ records'[j] = NoRecord /\ NoRecord.state = "none"
    BY <1>1 DEF Mine, NoRecord
  <2>3. WriterInv(j)
    BY <1>2 DEF RecordsInv
  <2>4. WriterInv(j)'
    BY <1>1, <2>1, <2>2, <2>3 DEF WriterInv
  <2>5. RecordInv(j)'
    BY <2>2 DEF RecordInv
  <2>6. QED
    BY <2>4, <2>5
<1>5. QED
    BY <1>3, <1>4 DEF RecordsInv

LEMMA RecordsNext ==
    ASSUME TypeOK, StorageInv, TypeOK', Next
    PROVE  Follows(manifest, history)' /\ RecordsInv'
<1>1. Follows(manifest, history) /\ RecordsInv /\ LockInv
    BY DEF StorageInv, RecordsInv
<1>2. ASSUME NEW r \in Readers, PinReadView(r) \/ Release(r) PROVE Follows(manifest, history)' /\ RecordsInv'
    BY <1>1, <1>2, RecordsSame DEF PinReadView, Release
<1>3. ASSUME NEW k \in Keys, BeginCommit(k) \/ WriterStep(k) PROVE Follows(manifest, history)' /\ RecordsInv'
    BY <1>1, <1>3, RecordsWriter
<1>4. CASE StartCompaction \/ CompactionStep
  <2>1. CASE StartCompaction \/ LoadGraph \/ SnapshotWritten \/ LockForPublication
    BY <1>1, <2>1, RecordsSame DEF StartCompaction, LoadGraph, SnapshotWritten, LockForPublication
  <2>2. ASSUME NEW kind \in {"pages", "record"}, PutSnapshot(kind) PROVE Follows(manifest, history)' /\ RecordsInv'
    BY <1>1, <2>2, RecordsSame DEF PutSnapshot
  <2>3. ASSUME NEW k \in Keys, SettleRead(k) PROVE Follows(manifest, history)' /\ RecordsInv'
    BY <1>1, <2>3, RecordsSame DEF SettleRead
  <2>4. QED
    BY <1>4, <2>1, <2>2, <2>3, RecordsSettle, RecordsPublishCompaction DEF CompactionStep
<1>5. CASE SweepStep
  <2>1. UNCHANGED <<manifest, history, records, writer>>
    BY <1>5 DEF SweepStep, StartGC, RunGC, EndGC, Visit
  <2>2. QED
    BY <1>1, <2>1, RecordsSame
<1>6. CASE BeginPurge \/ CreateTenant
    BY <1>1, <1>6, RecordsSame DEF BeginPurge, CreateTenant
<1>7. CASE Crash
  <2>1. UNCHANGED <<manifest, history, records>> /\ \A j \in Keys : writer'[j].at = "idle"
    BY <1>7 DEF Crash, IdleWriter
  <2>2. \A j \in Keys : WriterInv(j)'
    BY <2>1, IdleInv
  <2>3. \A j \in Keys : RecordInv(j)'
    BY <1>1, <2>1, RecordFrame DEF RecordsInv
  <2>4. QED
    BY <1>1, <2>1, <2>2, <2>3 DEF RecordsInv
<1>8. QED
    BY <1>2, <1>3, <1>4, <1>5, <1>6, <1>7, RecordsPurge DEF Next

-----------------------------------------------------------------------------
(* A purged tenant stays empty, also while it is purged a second time.     *)

LEMMA EmptiedWriter ==
    ASSUME TypeOK, StorageInv, NEW k \in Keys, BeginCommit(k) \/ WriterStep(k), tenant.phase # "active", Emptied
    PROVE  UNCHANGED <<manifest, history, records>>
<1>1. writer[k].at \notin {"reserved", "put", "prepared"}
    BY DEF StorageInv, LockInv
<1>2. writer[k].at = "completing" => records[k] # writer[k].held
  <2>1. records[k].state = "none"
    BY DEF Emptied, NoRecord
  <2>2. writer[k].at = "completing" => writer[k].held.state = "prepared"
    BY DEF StorageInv, WriterInv
  <2>3. QED
    BY <2>1, <2>2
<1>3. CASE CompleteCommit(k)
    BY <1>2, <1>3 DEF CompleteCommit
<1>4. CASE BeginCommit(k) \/ Refused(k) \/ FinishIndexes(k)
    BY <1>4 DEF BeginCommit, Refused, FinishIndexes
<1>5. ~Reserve(k)
    BY DEF Reserve
<1>6. ~ (Skip(k) \/ PutCommit(k) \/ CommitFails(k) \/ Prepare(k) \/ Publish(k) \/ PublishUnanswered(k))
    BY <1>1 DEF Skip, PutCommit, CommitFails, Prepare, Publish, PublishUnanswered
<1>7. QED
    BY <1>3, <1>4, <1>5, <1>6 DEF WriterStep

LEMMA EmptiedNext ==
    ASSUME TypeOK, StorageInv, Next, tenant.phase # "active", Emptied
    PROVE  Emptied'
<1>1. ASSUME UNCHANGED <<manifest, history, records>> PROVE Emptied'
    BY <1>1 DEF Emptied
<1>2. ASSUME NEW r \in Readers, PinReadView(r) \/ Release(r) PROVE Emptied'
    BY <1>1, <1>2 DEF PinReadView, Release
<1>3. ASSUME NEW k \in Keys, BeginCommit(k) \/ WriterStep(k) PROVE Emptied'
    BY <1>1, <1>3, EmptiedWriter
<1>4. CASE StartCompaction \/ CompactionStep
  <2>1. CASE StartCompaction \/ LoadGraph \/ SnapshotWritten \/ LockForPublication
    BY <1>1, <2>1 DEF StartCompaction, LoadGraph, SnapshotWritten, LockForPublication
  <2>2. ASSUME NEW kind \in {"pages", "record"}, PutSnapshot(kind) PROVE Emptied'
    BY <1>1, <2>2 DEF PutSnapshot
  <2>3. ASSUME NEW k \in Keys, SettleRead(k) PROVE Emptied'
    BY <1>1, <2>3 DEF SettleRead
  <2>4. ASSUME NEW k \in Keys, SettlePut(k) PROVE Emptied'
    <3>1. records[k].state = "none"
      BY DEF Emptied, NoRecord
    <3>2. comp.seen.state = "prepared"
      BY <2>4 DEF SettlePut, StorageInv, CompInv
    <3>3. QED
      BY <1>1, <2>4, <3>1, <3>2 DEF SettlePut
  <2>5. ~PublishCompaction
    BY DEF PublishCompaction, StorageInv, LockInv
  <2>6. QED
    BY <1>4, <2>1, <2>2, <2>3, <2>4, <2>5 DEF CompactionStep
<1>5. CASE SweepStep
    BY <1>1, <1>5 DEF SweepStep, StartGC, RunGC, EndGC, Visit
<1>6. CASE BeginPurge \/ CreateTenant \/ Crash
    BY <1>1, <1>6 DEF BeginPurge, CreateTenant, Crash
<1>7. CASE PurgeObjects
    BY <1>7 DEF PurgeObjects, Emptied
<1>8. QED
    BY <1>2, <1>3, <1>4, <1>5, <1>6, <1>7 DEF Next

\* Only the purge, the recreation and nothing else move the tenant.
LEMMA TenantMoves ==
    ASSUME TypeOK, Next, ~ (BeginPurge \/ PurgeObjects \/ CreateTenant)
    PROVE  UNCHANGED tenant
<1>1. ASSUME NEW k \in Keys, BeginCommit(k) \/ WriterStep(k) PROVE UNCHANGED tenant
    BY <1>1, WriterMoves
<1>2. CASE StartCompaction \/ CompactionStep
    BY <1>2 DEF StartCompaction, CompactionStep, LoadGraph, PutSnapshot, SnapshotWritten, SettleRead, SettlePut,
         LockForPublication, PublishCompaction
<1>3. QED
    BY <1>1, <1>2 DEF Next, PinReadView, Release, SweepStep, StartGC, RunGC, EndGC, Visit, Crash

LEMMA PurgeNext ==
    ASSUME TypeOK, StorageInv, Next
    PROVE  PurgeInv'
<1>1. DOMAIN tenant = {"phase", "generation"}
    BY DEF TypeOK, TenantTyped
<1>2. CASE BeginPurge
  <2>1. tenant'.phase = "purging"
    BY <1>1, <1>2 DEF BeginPurge
  <2>2. QED
    BY <2>1 DEF PurgeInv
<1>3. CASE PurgeObjects
    BY <1>3 DEF PurgeObjects, PurgeInv, Emptied
<1>4. CASE CreateTenant
    BY <1>4 DEF CreateTenant, NewLease, PurgeInv
<1>5. CASE ~ (BeginPurge \/ PurgeObjects \/ CreateTenant)
    BY <1>5, TenantMoves, EmptiedNext DEF PurgeInv, StorageInv
<1>6. QED
    BY <1>2, <1>3, <1>4, <1>5

-----------------------------------------------------------------------------
(* The compaction.                                                         *)

\* A commit that goes on while a compaction runs never prepares a record for
\* a version that the history has passed.
LEMMA RecordMoves ==
    ASSUME TypeOK, StorageInv, NEW k \in Keys, BeginCommit(k) \/ WriterStep(k)
    PROVE  /\ \A j \in Keys : records'[j].state = "prepared" /\ ~records'[j].skipped =>
                records'[j] = records[j] \/ records'[j].version = Len(history) + 1
           /\ UNCHANGED history \/ \E id : history' = Append(history, id)
<1>1. /\ records \in [Keys -> RecordType] /\ history \in Seq(CommitIds) /\ manifest \in ManifestType
      /\ writer \in [Keys -> WriterType] /\ writer[k] \in WriterType /\ records[k] \in RecordType
    BY DEF TypeOK, ObjectsTyped, CallsTyped
<1>2. WriterInv(k) /\ RecordsInv /\ Follows(manifest, history)
    BY DEF StorageInv, RecordsInv
<1>3. Committed(records[k]).state = "committed" /\ Pending.state = "pending"
    BY <1>1, RecordFields DEF Pending, NoRecord
<1>4. CASE Reserve(k)
  <2>1. UNCHANGED history
    BY <1>4 DEF Reserve
  <2>2. \/ UNCHANGED records \/ records' = [records EXCEPT ![k] = records[k]]
        \/ records' = [records EXCEPT ![k] = Pending] \/ records' = [records EXCEPT ![k] = Committed(records[k])]
    BY <1>2, <1>4, ReserveCases
  <2>3. QED
    BY <1>1, <1>3, <2>1, <2>2
<1>5. CASE Skip(k)
    BY <1>1, <1>5 DEF Skip
<1>6. CASE Prepare(k)
  <2>1. writer[k].at = "put" /\ UNCHANGED history
        /\ records' = [records EXCEPT ![k] = [state |-> "prepared", version |-> writer[k].next.version,
                                              id |-> writer[k].next.head, skipped |-> FALSE]]
    BY <1>6 DEF Prepare
  <2>2. writer[k].next.version = Len(history) + 1
    <3>1. Follows(writer[k].next, Append(history, <<k, writer[k].try>>))
      BY <1>2, <2>1 DEF WriterInv
    <3>2. Len(Append(history, <<k, writer[k].try>>)) = Len(history) + 1
      BY <1>1
    <3>3. QED
      BY <3>1, <3>2 DEF Follows
  <2>3. QED
    BY <1>1, <2>1, <2>2
<1>7. CASE CompleteCommit(k)
    BY <1>1, <1>3, <1>7 DEF CompleteCommit
<1>8. CASE BeginCommit(k) \/ Refused(k) \/ PutCommit(k) \/ CommitFails(k) \/ FinishIndexes(k)
    BY <1>8 DEF BeginCommit, Refused, PutCommit, CommitFails, FinishIndexes
<1>9. CASE Publish(k) \/ PublishUnanswered(k)
    BY <1>9 DEF Publish, PublishUnanswered
<1>10. QED
    BY <1>4, <1>5, <1>6, <1>7, <1>8, <1>9 DEF WriterStep

LEMMA CompWriter ==
    ASSUME TypeOK, StorageInv, TypeOK', Follows(manifest, history)', NEW k \in Keys, BeginCommit(k) \/ WriterStep(k), Next
    PROVE  CompInv'
<1>1. UNCHANGED <<comp, tenant>>
    BY WriterMoves
<1>2. CompInv /\ Follows(manifest, history)
    BY DEF StorageInv
<1>3. ASSUME CompCurrent, comp.at # "idle" PROVE CompCurrent'
  <2> DEFINE S == comp.m.version
  <2>1. S \in Nat /\ history \in Seq(CommitIds) /\ history' \in Seq(CommitIds) /\ comp.seen \in RecordType
    BY CompFields, ManifestFields DEF TypeOK, ObjectsTyped
  <2>2. /\ Len(history) <= Len(history') /\ \A i \in 1..Len(history) : history'[i] = history[i]
    BY <2>1, RecordMoves
  <2>3. S <= Len(history)
    BY <1>2, <1>3 DEF CompCurrent, Follows
  <2>4. S <= Len(history') /\ manifest'.version = Len(history')
    BY <2>1, <2>2, <2>3 DEF Follows
  <2>5. comp.at = "replacing" => (Published(comp.seen)' <=> Published(comp.seen))
    <3>1. HAVE comp.at = "replacing"
    <3>2. comp.seen.version <= S /\ (comp.seen.skipped \/ comp.seen.version > 0) /\ comp.seen.version \in Nat
      BY <1>3, <2>1, <3>1, RecordFields DEF CompCurrent
    <3>3. comp.seen.skipped \/ comp.seen.version \in 1..Len(history)
      BY <2>1, <2>3, <3>2
    <3>4. QED
      BY <1>1, <2>2, <3>3 DEF Published
  <2>6. \A j \in Dealt : records'[j].state = "prepared" /\ ~records'[j].skipped => S < records'[j].version
    <3> TAKE j \in Dealt
    <3>1. HAVE records'[j].state = "prepared" /\ ~records'[j].skipped
    <3>2. j \in Keys
      BY DEF Dealt
    <3>3. records'[j] = records[j] \/ records'[j].version = Len(history) + 1
      BY <3>1, <3>2, RecordMoves
    <3>4. QED
      BY <1>3, <2>1, <2>3, <3>1, <3>3 DEF CompCurrent
  <2>7. Dealt' = Dealt
    BY <1>1 DEF Dealt
  <2>8. comp'.m.version <= manifest'.version
    BY <1>1, <2>4
  <2>9. comp'.at = "replacing" =>
           /\ comp'.seen.version <= comp'.m.version /\ (comp'.seen.skipped \/ comp'.seen.version > 0)
           /\ comp'.settled = IF Published(comp.seen)' THEN Committed(comp.seen)' ELSE Pending
    BY <1>1, <1>3, <2>5 DEF CompCurrent, Committed
  <2>10. \A j \in Dealt' : records'[j].state = "prepared" /\ ~records'[j].skipped => comp'.m.version < records'[j].version
    BY <1>1, <2>6, <2>7
  <2>11. QED
    BY <2>8, <2>9, <2>10 DEF CompCurrent
<1>4. Tailed(comp.m) => Tailed(comp'.m)
    BY <1>1
<1>5. QED
    BY <1>1, <1>2, <1>3, <1>4, EmptiedNext DEF CompInv

\* The compaction stops.
LEMMA CompStops ==
    ASSUME TypeOK', comp' = IdleComp
    PROVE  CompInv'
<1>1. comp'.at = "idle" /\ comp'.fence = 0 /\ tenant'.generation \in Nat
    BY DEF IdleComp, TypeOK, TenantTyped
<1>2. QED
    BY <1>1 DEF CompInv

\* The compaction goes on and has dealt with no record.
LEMMA CompGoesOn ==
    ASSUME TypeOK, StorageInv, UNCHANGED <<manifest, history, records, tenant>>,
           comp'.at \in {"loading", "writing"} \/ (comp'.at = "settling" /\ comp'.todo = Keys),
           \/ comp'.m = manifest /\ comp'.fence <= tenant.generation
           \/ comp'.m = comp.m /\ comp'.fence = comp.fence /\ comp.at # "idle"
    PROVE  CompInv'
<1>1. manifest \in ManifestType /\ history \in Seq(CommitIds)
    BY DEF TypeOK, ObjectsTyped
<1>2. CompInv /\ Follows(manifest, history)
    BY DEF StorageInv
<1>3. Dealt' = {}
    BY DEF Dealt
<1>4. CASE comp'.m = manifest /\ comp'.fence <= tenant.generation
  <2>1. Tailed(comp'.m)
    BY <1>1, <1>2, <1>4, FollowsTailed
  <2>2. CompCurrent'
    BY <1>1, <1>3, <1>4, ManifestFields DEF CompCurrent
  <2>3. QED
    BY <1>4, <2>1, <2>2 DEF CompInv
<1>5. CASE comp'.m = comp.m /\ comp'.fence = comp.fence /\ comp.at # "idle"
  <2>1. Tailed(comp'.m)
    BY <1>2, <1>5 DEF CompInv
  <2>2. CompCurrent => CompCurrent'
    BY <1>3, <1>5 DEF CompCurrent
  <2>3. Emptied => Emptied'
    BY DEF Emptied
  <2>4. QED
    BY <1>2, <1>5, <2>1, <2>2, <2>3 DEF CompInv
<1>6. QED
    BY <1>4, <1>5

\* The compaction looks at the record of key k.
LEMMA CompSettleRead ==
    ASSUME TypeOK, StorageInv, TypeOK', NEW k \in Keys, SettleRead(k)
    PROVE  CompInv'
<1>1. /\ comp.at = "settling" /\ k \in comp.todo /\ UNCHANGED <<manifest, history, records, tenant>>
    BY DEF SettleRead
<1>2. DOMAIN comp = {"at", "m", "ids", "fence", "wrote", "todo", "key", "seen", "settled"}
    BY CompFields
<1>3. /\ manifest \in ManifestType /\ history \in Seq(CommitIds) /\ records[k] \in RecordType
      /\ comp.m \in ManifestType /\ comp.m.version \in Nat
    BY CompFields, ManifestFields DEF TypeOK, ObjectsTyped
<1>4. CompInv /\ Follows(manifest, history) /\ RecordInv(k)
    BY DEF StorageInv
<1>5. Emptied => Emptied'
    BY <1>1 DEF Emptied
<1>6. CASE comp' = IdleComp
    BY <1>6, CompStops
<1>7. CASE ~Unsettled(records[k]) /\ comp' = [comp EXCEPT !.todo = @ \ {k}]
  <2>1. comp'.at = "settling" /\ comp'.m = comp.m /\ comp'.fence = comp.fence /\ comp'.todo = comp.todo \ {k}
    BY <1>1, <1>2, <1>7
  <2>2. records[k].state = "prepared" => comp.m.version < records[k].version
    BY <1>3, <1>7, RecordFields DEF Unsettled
  <2>3. Dealt' \subseteq Dealt \union {k}
    BY <1>1, <2>1 DEF Dealt
  <2>4. CompCurrent => CompCurrent'
    BY <1>1, <2>1, <2>2, <2>3 DEF CompCurrent
  <2>5. Tailed(comp.m) => Tailed(comp'.m)
    BY <2>1
  <2>6. QED
    BY <1>1, <1>4, <1>5, <2>1, <2>4, <2>5 DEF CompInv
<1>8. CASE /\ Unsettled(records[k]) /\ Verdict(records[k]) # "ambiguous"
           /\ comp' = [comp EXCEPT !.at = "replacing", !.todo = @ \ {k}, !.key = k, !.seen = records[k],
                         !.settled = IF Verdict(records[k]) = "published" THEN Committed(records[k]) ELSE Pending]
  <2> DEFINE rec == records[k]
  <2>1. /\ comp'.at = "replacing" /\ comp'.m = comp.m /\ comp'.fence = comp.fence /\ comp'.todo = comp.todo \ {k}
        /\ comp'.key = k /\ comp'.seen = rec
        /\ comp'.settled = IF Verdict(rec) = "published" THEN Committed(rec) ELSE Pending
    BY <1>2, <1>8
  <2>2. rec.state = "prepared" /\ rec.version <= comp.m.version
    BY <1>8 DEF Unsettled
  <2>3. rec.skipped \/ rec.version > 0
    BY <1>3, <1>4, <2>2, RecordFields DEF RecordInv
  <2>4. Dealt' \subseteq Dealt
    BY <1>1, <2>1 DEF Dealt
  <2>5. ASSUME CompCurrent PROVE CompCurrent'
    <3>1. rec.version \in Nat /\ rec.version <= Len(history) /\ rec.skipped \in BOOLEAN
      <4>1. comp.m.version <= Len(history)
        BY <1>4, <2>5 DEF CompCurrent, Follows
      <4>2. QED
        BY <1>3, <2>2, <4>1, RecordFields
    <3>2. rec.skipped \/ rec.version \in DOMAIN history
      BY <1>3, <2>3, <3>1
    <3>3. Verdict(rec) = "published" <=> Published(rec)
      BY <1>3, <1>4, <1>8, <2>3, <3>1, <3>2, VerdictFacts DEF Published
    <3>4. Published(comp.seen)' <=> Published(rec)
      BY <1>1, <2>1 DEF Published
    <3>5. Committed(comp.seen)' = Committed(rec)
      BY <2>1 DEF Committed
    <3>6. comp'.settled = IF Published(comp.seen)' THEN Committed(comp.seen)' ELSE Pending
      BY <2>1, <3>3, <3>4, <3>5
    <3>7. QED
      BY <1>1, <2>1, <2>2, <2>3, <2>4, <2>5, <3>6 DEF CompCurrent
  <2>6. Tailed(comp.m) => Tailed(comp'.m)
    BY <2>1
  <2>7. QED
    BY <1>1, <1>4, <1>5, <2>1, <2>2, <2>5, <2>6 DEF CompInv
<1>9. QED
    BY <1>6, <1>7, <1>8 DEF SettleRead

\* The compaction has dealt with the record of key k.
LEMMA CompSettlePut ==
    ASSUME TypeOK, StorageInv, TypeOK', NEW k \in Keys, SettlePut(k), Next
    PROVE  CompInv'
<1> DEFINE again == [comp EXCEPT !.at = "settling", !.key = Nobody, !.seen = NoRecord, !.settled = NoRecord]
<1>1. comp.at = "replacing" /\ comp.key = k /\ UNCHANGED <<manifest, history, tenant>>
    BY DEF SettlePut
<1>2. DOMAIN comp = {"at", "m", "ids", "fence", "wrote", "todo", "key", "seen", "settled"}
    BY CompFields
<1>3. CompInv /\ records \in [Keys -> RecordType] /\ comp.seen \in RecordType
    BY CompFields DEF StorageInv, TypeOK, ObjectsTyped
<1>4. CASE comp' = IdleComp
    BY <1>4, CompStops
<1>5. ASSUME comp' = again, records'[k] = comp.settled, \A j \in Keys : j # k => records'[j] = records[j]
      PROVE  CompInv'
  <2>1. comp'.at = "settling" /\ comp'.m = comp.m /\ comp'.fence = comp.fence /\ comp'.todo = comp.todo
    BY <1>2, <1>5
  <2>2. Dealt' \subseteq Dealt \union {k} /\ Dealt' \subseteq Keys
    BY <1>1, <2>1 DEF Dealt
  <2>3. ASSUME CompCurrent PROVE CompCurrent'
    <3>1. comp.settled = Committed(comp.seen) \/ comp.settled = Pending
      BY <1>1, <2>3 DEF CompCurrent
    <3>2. comp.settled.state # "prepared"
      BY <1>3, <3>1, RecordFields DEF Pending, NoRecord
    <3>3. \A j \in Dealt' : records'[j].state = "prepared" /\ ~records'[j].skipped => comp.m.version < records'[j].version
      BY <1>5, <2>2, <2>3, <3>2 DEF CompCurrent
    <3>4. QED
      BY <1>1, <2>1, <2>3, <3>3 DEF CompCurrent
  <2>4. Tailed(comp.m) => Tailed(comp'.m)
    BY <2>1
  <2>5. QED
    BY <1>1, <1>3, <2>1, <2>3, <2>4, EmptiedNext DEF CompInv
<1>6. \/ comp' = IdleComp
      \/ comp' = again /\ records' = [records EXCEPT ![k] = comp.settled]
      \/ comp' = again /\ UNCHANGED records /\ records[k] = comp.settled
    BY DEF SettlePut
<1>7. CASE comp' = again /\ records' = [records EXCEPT ![k] = comp.settled]
    BY <1>3, <1>5, <1>7
<1>8. CASE comp' = again /\ UNCHANGED records /\ records[k] = comp.settled
    BY <1>5, <1>8
<1>9. QED
    BY <1>4, <1>6, <1>7, <1>8

LEMMA CompLock ==
    ASSUME TypeOK, StorageInv, TypeOK', LockForPublication
    PROVE  CompInv'
<1>1. /\ comp.at = "settling" /\ comp.todo = {} /\ UNCHANGED <<manifest, history, records, tenant>>
    BY DEF LockForPublication
<1>2. DOMAIN comp = {"at", "m", "ids", "fence", "wrote", "todo", "key", "seen", "settled"} /\ CompInv
    BY CompFields DEF StorageInv
<1>3. CASE comp' = IdleComp
    BY <1>3, CompStops
<1>4. CASE FenceCurrent /\ comp' = [comp EXCEPT !.at = "locked"]
  <2>1. /\ comp'.at = "locked" /\ comp'.m = comp.m /\ comp'.fence = comp.fence /\ comp.fence = tenant.generation
    BY <1>2, <1>4 DEF FenceCurrent
  <2>2. Dealt' = Dealt
    BY <1>1, <2>1 DEF Dealt
  <2>3. CompCurrent => CompCurrent'
    BY <1>1, <2>1, <2>2 DEF CompCurrent
  <2>4. Emptied => Emptied'
    BY <1>1 DEF Emptied
  <2>5. Tailed(comp.m) => Tailed(comp'.m)
    BY <2>1
  <2>6. QED
    BY <1>1, <1>2, <2>1, <2>3, <2>4, <2>5 DEF CompInv
<1>5. QED
    BY <1>3, <1>4 DEF LockForPublication, StopCompaction

LEMMA CompCompaction ==
    ASSUME TypeOK, StorageInv, TypeOK', StartCompaction \/ CompactionStep, Next
    PROVE  CompInv'
<1>1. DOMAIN comp = {"at", "m", "ids", "fence", "wrote", "todo", "key", "seen", "settled"}
    BY CompFields
<1>2. /\ comp.fence \in Nat /\ tenant.generation \in Nat
    BY CompFields DEF TypeOK, TenantTyped
<1>3. CASE comp' = IdleComp
    BY <1>3, CompStops
<1>4. CASE StartCompaction
  <2>1. DOMAIN IdleComp = {"at", "m", "ids", "fence", "wrote", "todo", "key", "seen", "settled"}
    BY DEF IdleComp
  <2>2. comp'.at = "loading" /\ comp'.m = manifest /\ comp'.fence = tenant.generation
        /\ UNCHANGED <<manifest, history, records, tenant>>
    BY <1>4, <2>1 DEF StartCompaction
  <2>3. QED
    BY <1>2, <2>2, CompGoesOn
<1>5. CASE LoadGraph /\ comp' # IdleComp
  <2>1. comp.at = "loading" /\ UNCHANGED <<manifest, history, records, tenant>>
    BY <1>5 DEF LoadGraph
  <2>2. comp' = [comp EXCEPT !.m = manifest] \/ comp' = [comp EXCEPT !.at = "writing", !.ids = GraphOf(comp.m)]
    BY <1>5 DEF LoadGraph
  <2>3. CASE comp' = [comp EXCEPT !.m = manifest]
    <3>1. comp'.at = "loading" /\ comp'.m = manifest /\ comp'.fence = comp.fence
      BY <1>1, <2>1, <2>3
    <3>2. comp.fence <= tenant.generation
      BY DEF StorageInv, CompInv
    <3>3. QED
      BY <2>1, <3>1, <3>2, CompGoesOn
  <2>4. CASE comp' = [comp EXCEPT !.at = "writing", !.ids = GraphOf(comp.m)]
    <3>1. comp'.at = "writing" /\ comp'.m = comp.m /\ comp'.fence = comp.fence
      BY <1>1, <2>4
    <3>2. QED
      BY <2>1, <3>1, CompGoesOn
  <2>5. QED
    BY <2>2, <2>3, <2>4
<1>6. ASSUME NEW kind \in {"pages", "record"}, PutSnapshot(kind), comp' # IdleComp PROVE CompInv'
  <2>1. comp.at = "writing" /\ UNCHANGED <<manifest, history, records, tenant>>
    BY <1>6 DEF PutSnapshot
  <2>2. comp' = [comp EXCEPT !.wrote = @ \union {kind}]
    BY <1>6 DEF PutSnapshot, StopCompaction
  <2>3. comp'.at = "writing" /\ comp'.m = comp.m /\ comp'.fence = comp.fence
    BY <1>1, <2>1, <2>2
  <2>4. QED
    BY <2>1, <2>3, CompGoesOn
<1>7. CASE SnapshotWritten /\ comp' # IdleComp
  <2>1. comp.at = "writing" /\ UNCHANGED <<manifest, history, records, tenant>>
        /\ comp' = [comp EXCEPT !.at = "settling", !.todo = Keys]
    BY <1>7 DEF SnapshotWritten
  <2>2. comp'.at = "settling" /\ comp'.todo = Keys /\ comp'.m = comp.m /\ comp'.fence = comp.fence
    BY <1>1, <2>1
  <2>3. QED
    BY <2>1, <2>2, CompGoesOn
<1>8. ASSUME NEW k \in Keys, SettleRead(k) \/ SettlePut(k) PROVE CompInv'
    BY <1>8, CompSettleRead, CompSettlePut
<1>9. CASE LockForPublication
    BY <1>9, CompLock
<1>10. PublishCompaction => comp' = IdleComp
    BY DEF PublishCompaction, StopCompaction
<1>11. QED
    BY <1>3, <1>4, <1>5, <1>6, <1>7, <1>8, <1>9, <1>10 DEF CompactionStep

LEMMA CompNext ==
    ASSUME TypeOK, StorageInv, TypeOK', Follows(manifest, history)', Next
    PROVE  CompInv'
<1>1. CompInv /\ LockInv
    BY DEF StorageInv
<1>2. DOMAIN tenant = {"phase", "generation"} /\ tenant.generation \in Nat /\ comp.fence \in Nat
    BY CompFields DEF TypeOK, TenantTyped
<1>3. ASSUME UNCHANGED <<manifest, history, records, comp>>, tenant'.generation = tenant.generation,
             tenant'.phase = tenant.phase \/ tenant'.phase # "active"
      PROVE  CompInv'
  <2>1. Emptied => Emptied'
    BY <1>3 DEF Emptied
  <2>2. CompCurrent => CompCurrent'
    BY <1>3 DEF CompCurrent, Dealt, Published, Committed
  <2>3. Tailed(comp.m) => Tailed(comp'.m)
    BY <1>3
  <2>4. QED
    BY <1>1, <1>3, <2>1, <2>2, <2>3 DEF CompInv
<1>4. ASSUME NEW r \in Readers, PinReadView(r) \/ Release(r) PROVE CompInv'
    BY <1>3, <1>4 DEF PinReadView, Release
<1>5. ASSUME NEW k \in Keys, BeginCommit(k) \/ WriterStep(k) PROVE CompInv'
    BY <1>5, CompWriter
<1>6. CASE SweepStep
    BY <1>3, <1>6 DEF SweepStep, StartGC, RunGC, EndGC, Visit
<1>7. CASE BeginPurge
  <2>1. tenant'.phase = "purging" /\ tenant'.generation = tenant.generation /\ UNCHANGED <<manifest, history, records, comp>>
    BY <1>2, <1>7 DEF BeginPurge
  <2>2. QED
    BY <1>3, <2>1
<1>8. CASE PurgeObjects
  <2>1. tenant'.phase = "purged" /\ tenant'.generation = tenant.generation /\ UNCHANGED comp
    BY <1>2, <1>8 DEF PurgeObjects
  <2>2. Emptied'
    BY <1>8 DEF PurgeObjects, Emptied
  <2>3. Tailed(comp.m) => Tailed(comp'.m)
    BY <2>1
  <2>4. QED
    BY <1>1, <2>1, <2>2, <2>3 DEF CompInv
<1>9. CASE CreateTenant
  <2>1. tenant'.generation = tenant.generation + 1 /\ UNCHANGED comp /\ lock = Nobody
    BY <1>9 DEF CreateTenant, NewLease, Free
  <2>2. comp.at # "locked"
    BY <1>1, <2>1, RolesDiffer DEF LockInv
  <2>3. comp.fence <= tenant.generation
    BY <1>1 DEF CompInv
  <2>4. comp'.fence <= tenant'.generation /\ comp'.fence # tenant'.generation
    BY <1>2, <2>1, <2>3
  <2>5. Tailed(comp.m) => Tailed(comp'.m)
    BY <2>1
  <2>6. QED
    BY <1>1, <2>1, <2>2, <2>4, <2>5 DEF CompInv
<1>10. CASE Crash
    BY <1>10, CompStops DEF Crash
<1>11. QED
    BY <1>4, <1>5, <1>6, <1>7, <1>8, <1>9, <1>10, CompCompaction DEF Next

-----------------------------------------------------------------------------
(* Theorems.                                                               *)

LEMMA StorageInit == Init => StorageInv
<1> SUFFICES ASSUME Init PROVE StorageInv
    OBVIOUS
<1>1. /\ manifest = EmptyManifest /\ history = <<>> /\ tenant = [phase |-> "active", generation |-> 1]
      /\ records = [k \in Keys |-> NoRecord] /\ writer = [k \in Keys |-> IdleWriter] /\ comp = IdleComp
    BY DEF Init
<1>2. Follows(manifest, history)
    BY <1>1 DEF Follows, EmptyManifest
<1>3. PurgeInv
    BY <1>1 DEF PurgeInv
<1>4. ASSUME NEW k \in Keys PROVE RecordInv(k) /\ WriterInv(k)
  <2>1. Mine(k) = {}
    BY <1>1 DEF Mine
  <2>2. records[k].state = "none" /\ writer[k].at = "idle"
    BY <1>1 DEF NoRecord, IdleWriter
  <2>3. QED
    BY <2>1, <2>2 DEF RecordInv, WriterInv
<1>5. CompInv
    BY <1>1 DEF CompInv, IdleComp
<1>6. QED
    BY <1>2, <1>3, <1>4, <1>5, LockInit DEF StorageInv

LEMMA StorageNext ==
    ASSUME TypeOK, StorageInv, [Next]_vars
    PROVE  TypeOK' /\ StorageInv'
<1>1. CASE UNCHANGED vars
  <2>1. TypeOK'
    BY <1>1 DEF vars, TypeOK, ObjectsTyped, TenantTyped, CallsTyped, SweepTyped
  <2>2. /\ UNCHANGED <<manifest, history, records, writer>> /\ UNCHANGED <<lock, comp, gc, tenant>>
    BY <1>1 DEF vars
  <2>3. Follows(manifest, history)' /\ RecordsInv'
    BY <2>2, RecordsSame DEF StorageInv, RecordsInv
  <2>4. LockInv' /\ PurgeInv'
    BY <2>2 DEF StorageInv, LockInv, PurgeInv, Emptied
  <2>5. CompInv'
    BY <2>2 DEF StorageInv, CompInv, Emptied, CompCurrent, Dealt, Published, Committed, Tailed, TailCommit
  <2>6. QED
    BY <2>1, <2>3, <2>4, <2>5 DEF StorageInv, RecordsInv
<1>2. CASE Next
  <2>1. TypeOK'
    BY <1>2, TypeNext
  <2>2. Follows(manifest, history)' /\ RecordsInv'
    BY <1>2, <2>1, RecordsNext
  <2>3. CompInv'
    BY <1>2, <2>1, <2>2, CompNext
  <2>4. LockInv' /\ PurgeInv'
    BY <1>2, LockNext, PurgeNext DEF StorageInv
  <2>5. QED
    BY <2>1, <2>2, <2>3, <2>4 DEF StorageInv, RecordsInv
<1>3. QED
    BY <1>1, <1>2

LEMMA StorageSafe == Spec => [](TypeOK /\ StorageInv)
<1>1. Init => TypeOK /\ StorageInv
    BY TypeInit, StorageInit
<1>2. TypeOK /\ StorageInv /\ [Next]_vars => (TypeOK /\ StorageInv)'
    BY StorageNext
<1>3. QED
    BY <1>1, <1>2, PTL DEF Spec

\* Every variable keeps its type: manifests, objects and records, the calls
\* under way, the compaction and the sweep, for any workload.
THEOREM TypeCorrect == Spec => []TypeOK
BY StorageSafe, PTL

LEMMA InvRecords ==
    ASSUME TypeOK, StorageInv
    PROVE  RecordsAreTrue
<1> SUFFICES ASSUME NEW k \in Keys
             PROVE  /\ Cardinality(Mine(k)) <= 1
                    /\ records[k].state = "committed" =>
                         IF records[k].skipped THEN Mine(k) = {}
                         ELSE \E i \in Mine(k) : i = records[k].version /\ history[i] = records[k].id
    BY DEF RecordsAreTrue, Mine
<1>1. RecordInv(k) /\ records[k] \in RecordType
    BY DEF StorageInv, TypeOK, ObjectsTyped
<1>2. Mine(k) \subseteq {records[k].version}
    BY <1>1, RecordFields DEF RecordInv
<1>3. Mine(k) = {} \/ Mine(k) = {records[k].version}
    BY <1>2
<1>4. Cardinality(Mine(k)) <= 1
  <2>1. CASE Mine(k) = {}
    BY <2>1, NoneCounted
  <2>2. CASE Mine(k) = {records[k].version}
    <3>1. Cardinality({records[k].version}) = 1
      BY FS_Singleton
    <3>2. QED
      BY <2>2, <3>1
  <2>3. QED
    BY <1>3, <2>1, <2>2
<1>5. records[k].state = "committed" =>
        IF records[k].skipped THEN Mine(k) = {}
        ELSE \E i \in Mine(k) : i = records[k].version /\ history[i] = records[k].id
    BY <1>1, <1>3 DEF RecordInv
<1>6. QED
    BY <1>4, <1>5

\* RecordsAreTrue for any keys, retries, crashes, compactions and purges: a
\* direct commit is applied at most once per idempotency key, and a record
\* that says committed names the version and the commit that were published.
THEOREM RecordsTruth == Spec => []RecordsAreTrue
<1>1. TypeOK /\ StorageInv => RecordsAreTrue
    BY InvRecords
<1>2. QED
    BY <1>1, StorageSafe, PTL

\* NeverAmbiguous: a compaction settles every prepared record at or below its
\* version before its snapshot takes the commit out of the tail, so a retry
\* always finds the evidence of what became of its request.
THEOREM EvidenceStays == Spec => []NeverAmbiguous
<1>1. TypeOK /\ StorageInv => NeverAmbiguous
  <2> SUFFICES ASSUME TypeOK, StorageInv, NEW k \in Keys, records[k].state = "prepared", ~records[k].skipped
               PROVE  records[k].version > manifest.snap
    BY DEF NeverAmbiguous
  <2>1. manifest.snap < records[k].version
    BY DEF StorageInv, RecordInv
  <2>2. manifest.snap \in Nat /\ records[k].version \in Nat
    BY ManifestFields, RecordFields DEF TypeOK, ObjectsTyped
  <2>3. QED
    BY <2>1, <2>2
<1>2. QED
    BY <1>1, StorageSafe, PTL

-----------------------------------------------------------------------------
(* Views: what a manifest that was published earlier still says.           *)

LEMMA FollowsCovers ==
    ASSUME NEW m, NEW h, Follows(m, h), Len(h) \in Nat
    PROVE  Covers(m, h)
BY DEF Follows, Covers

LEMMA AppendExtends ==
    ASSUME NEW h \in Seq(CommitIds), NEW id \in CommitIds
    PROVE  /\ Extends(h, Append(h, id)) /\ Append(h, id) \in Seq(CommitIds)
           /\ Len(Append(h, id)) = Len(h) + 1
           /\ \A i \in DOMAIN Append(h, id) : (i \in DOMAIN h /\ Append(h, id)[i] = h[i]) \/ Append(h, id)[i] = id
BY DEF Extends

LEMMA CoversGrows ==
    ASSUME NEW m \in ManifestType, NEW h \in Seq(CommitIds), NEW g \in Seq(CommitIds), Covers(m, h), Extends(h, g)
    PROVE  Covers(m, g)
<1>1. m.version \in Nat /\ m.version <= Len(g) /\ Len(h) \in Nat /\ Len(g) \in Nat /\ Len(h) <= Len(g)
    BY ManifestFields DEF Covers, Extends
<1>2. ASSUME NEW o \in m.tail PROVE Holds(o, g)
  <2>1. Holds(o, h) /\ o.lo \in Nat /\ o.hi \in Nat
    BY ManifestFields, ObjectFields DEF Covers
  <2>2. \A v \in o.lo..o.hi : g[v] = h[v]
    BY <1>1, <2>1 DEF Holds, Extends
  <2>3. QED
    BY <1>1, <2>1, <2>2 DEF Holds
<1>3. QED
    BY <1>1, <1>2 DEF Covers

LEMMA SpellsGrows ==
    ASSUME NEW ids, NEW n \in Nat, NEW h \in Seq(CommitIds), NEW g \in Seq(CommitIds), Spells(ids, n, h), Extends(h, g)
    PROVE  Spells(ids, n, g)
BY DEF Spells, Extends

LEMMA SpelledPrefix ==
    ASSUME NEW ids \in Seq(CommitIds), NEW n \in Nat, NEW h \in Seq(CommitIds), Spells(ids, n, h)
    PROVE  ids = SubSeq(h, 1, n)
<1>1. SubSeq(h, 1, n) \in Seq(CommitIds) /\ Len(SubSeq(h, 1, n)) = n /\ \A i \in 1..n : SubSeq(h, 1, n)[i] = h[i]
    BY DEF Spells
<1>2. QED
    BY <1>1 DEF Spells

LEMMA Joined ==
    ASSUME NEW s \in Seq(CommitIds), NEW t \in Seq(CommitIds)
    PROVE  s \o t \in Seq(CommitIds) /\ Len(s \o t) = Len(s) + Len(t)
OBVIOUS

LEMMA JoinedAt ==
    ASSUME NEW S, NEW s \in Seq(S), NEW t \in Seq(S), NEW i \in 1..Len(t)
    PROVE  (s \o t)[Len(s) + i] = t[i]
OBVIOUS

\* What is read through a complete manifest is the history up to its version.
LEMMA GraphSpells ==
    ASSUME files \subseteq ObjectType, NEW m \in ManifestType, NEW h \in Seq(CommitIds), Covers(m, h), Complete(m),
           \A o \in SnapshotIn(files, "pages", m.snap) : m.snap > 0 => Spells(o.ids, m.snap, h)
    PROVE  GraphOf(m) \in Seq(CommitIds) /\ Spells(GraphOf(m), m.version, h)
<1> DEFINE base == IF m.snap = 0 THEN <<>> ELSE (CHOOSE o \in SnapshotIn(files, "pages", m.snap) : TRUE).ids
           n == m.version - m.snap
           tail == [i \in 1..n |-> TailCommit(m, m.snap + i)]
<1>1. m.version \in Nat /\ m.snap \in Nat /\ n \in Nat /\ m.version <= Len(h) /\ m.snap <= m.version /\ Len(h) \in Nat
    BY ManifestFields DEF Covers
<1>2. base \in Seq(CommitIds) /\ Spells(base, m.snap, h)
  <2>1. CASE m.snap = 0
    BY <1>1, <2>1 DEF Spells
  <2>2. CASE m.snap # 0
    <3> DEFINE o == CHOOSE o \in SnapshotIn(files, "pages", m.snap) : TRUE
    <3>1. SnapshotIn(files, "pages", m.snap) # {}
      BY <1>1, <2>2 DEF Complete
    <3>2. o \in SnapshotIn(files, "pages", m.snap)
      BY <3>1
    <3>3. o \in files
      BY <3>2 DEF SnapshotIn
    <3> HIDE DEF o
    <3>4. o.ids \in Seq(CommitIds) /\ Spells(o.ids, m.snap, h)
      BY <1>1, <2>2, <3>2, <3>3, ObjectFields
    <3>5. base = o.ids
      BY <2>2 DEF o
    <3> HIDE DEF base
    <3>6. QED
      BY <3>4, <3>5
  <2>3. QED
    BY <2>1, <2>2
<1>3. ASSUME NEW v \in m.snap + 1..m.version PROVE TailCommit(m, v) = h[v] /\ h[v] \in CommitIds
  <2>0. v \in Nat /\ v \in 1..Len(h)
    BY <1>1
  <2> DEFINE o == CHOOSE o \in m.tail : o.lo <= v /\ v <= o.hi
  <2>1. o \in m.tail /\ o.lo <= v /\ v <= o.hi
    BY DEF Covers, InTail
  <2>2. Holds(o, h) /\ o.lo \in Nat /\ o.hi \in Nat
    BY <2>1, ManifestFields, ObjectFields DEF Covers
  <2>3. o.ids[v - o.lo + 1] = h[v]
    BY <2>0, <2>1, <2>2 DEF Holds
  <2>4. QED
    BY <2>0, <2>3 DEF TailCommit
<1>4. tail \in Seq(CommitIds) /\ Len(tail) = n /\ \A i \in 1..n : tail[i] = h[m.snap + i]
  <2>1. \A i \in 1..n : m.snap + i \in m.snap + 1..m.version
    BY <1>1
  <2>2. \A i \in 1..n : TailCommit(m, m.snap + i) = h[m.snap + i] /\ h[m.snap + i] \in CommitIds
    BY <1>3, <2>1
  <2> HIDE DEF n
  <2>3. tail \in [1..n -> CommitIds]
    BY <2>2
  <2>4. \A i \in 1..n : tail[i] = h[m.snap + i]
    BY <2>2
  <2> HIDE DEF tail
  <2>5. QED
    BY <1>1, <2>3, <2>4
<1>5. GraphOf(m) = base \o tail
    BY DEF GraphOf
<1>6. m.version = m.snap + n
    BY <1>1
<1> HIDE DEF base, tail, n
<1>7. (base \o tail) \in Seq(CommitIds) /\ Len(base \o tail) = m.version
  <2>1. (base \o tail) \in Seq(CommitIds) /\ Len(base \o tail) = Len(base) + Len(tail)
    BY <1>2, <1>4, Joined
  <2>2. QED
    BY <1>2, <1>4, <1>6, <2>1 DEF Spells
<1>8. \A i \in 1..m.version : (base \o tail)[i] = h[i]
  <2> TAKE i \in 1..m.version
  <2>1. CASE i <= m.snap
    BY <1>1, <1>2, <1>4, <1>6, <2>1 DEF Spells
  <2>2. CASE ~(i <= m.snap)
    <3>0. n \in Nat /\ i - m.snap \in 1..n
      BY <1>1, <1>4, <1>6, <2>2
    <3>1. (base \o tail)[i] = tail[i - m.snap] /\ i - m.snap \in 1..n
      <4>1. base \in Seq(CommitIds) /\ tail \in Seq(CommitIds) /\ Len(base) = m.snap /\ Len(tail) = n
        BY <1>2, <1>4 DEF Spells
      <4>2. (base \o tail)[Len(base) + (i - m.snap)] = tail[i - m.snap]
        BY <3>0, <4>1, JoinedAt
      <4>3. Len(base) + (i - m.snap) = i
        BY <1>1, <4>1
      <4>4. QED
        BY <3>0, <4>2, <4>3
    <3>2. QED
      BY <1>1, <1>4, <3>1
  <2>3. QED
    BY <2>1, <2>2
<1>9. QED
    BY <1>1, <1>5, <1>7, <1>8 DEF Spells

-----------------------------------------------------------------------------
(* What steps do to the workload and to the identifiers of commits.        *)

LEMMA SpentMoves ==
    ASSUME left \in WorkloadType,
           NEW what \in {"tries", "skips", "compactions", "purges", "crashes", "faults", "pauses"}, Spent(what)
    PROVE  /\ left.tries \in Nat /\ left.compactions \in Nat /\ left.purges \in Nat
           /\ left'.tries = IF what = "tries" THEN left.tries - 1 ELSE left.tries
           /\ left'.compactions = IF what = "compactions" THEN left.compactions - 1 ELSE left.compactions
           /\ left'.purges = IF what = "purges" THEN left.purges - 1 ELSE left.purges
           /\ left[what] > 0
BY DEF Spent, WorkloadType

LEMMA LeftMoves ==
    ASSUME TypeOK, Next
    PROVE  /\ left'.tries = left.tries \/ ((\E k \in Keys : BeginCommit(k)) /\ left.tries > 0 /\ left'.tries = left.tries - 1)
           /\ \/ left'.compactions = left.compactions
              \/ StartCompaction /\ left.compactions > 0 /\ left'.compactions = left.compactions - 1
           /\ left'.purges = left.purges \/ (BeginPurge /\ left.purges > 0 /\ left'.purges = left.purges - 1)
           /\ left.tries \in Nat /\ left.compactions \in Nat /\ left.purges \in Nat
<1>1. left \in WorkloadType /\ left.tries \in Nat /\ left.compactions \in Nat /\ left.purges \in Nat
    BY DEF TypeOK, TenantTyped, WorkloadType
<1>2. ASSUME NEW k \in Keys, BeginCommit(k) \/ WriterStep(k)
      PROVE  \/ UNCHANGED left \/ (BeginCommit(k) /\ Spent("tries")) \/ Spent("skips") \/ Spent("faults")
    BY <1>2 DEF BeginCommit, WriterStep, Reserve, Refused, Skip, PutCommit, Prepare, Publish, CommitFails,
         PublishUnanswered, FinishIndexes, CompleteCommit
<1>3. CASE CompactionStep
  <2>1. UNCHANGED left
    BY <1>3 DEF CompactionStep, LoadGraph, PutSnapshot, SnapshotWritten, SettleRead, SettlePut,
         LockForPublication, PublishCompaction
  <2>2. QED
    BY <1>1, <2>1
<1>4. CASE SweepStep
  <2>1. UNCHANGED left \/ Spent("pauses")
    BY <1>4 DEF SweepStep, StartGC, RunGC, EndGC, Visit
  <2>2. QED
    BY <1>1, <2>1, SpentMoves
<1>5. CASE StartCompaction
    BY <1>1, <1>5, SpentMoves DEF StartCompaction
<1>6. CASE BeginPurge \/ PurgeObjects \/ CreateTenant \/ Crash
  <2>1. UNCHANGED left \/ (BeginPurge /\ Spent("purges")) \/ Spent("crashes")
    BY <1>6 DEF BeginPurge, PurgeObjects, CreateTenant, Crash
  <2>2. QED
    BY <1>1, <2>1, SpentMoves
<1>7. ASSUME NEW r \in Readers, PinReadView(r) \/ Release(r) PROVE UNCHANGED left
    BY <1>7 DEF PinReadView, Release
<1>8. ASSUME NEW k \in Keys, BeginCommit(k) \/ WriterStep(k)
      PROVE  /\ left'.tries = left.tries \/ (BeginCommit(k) /\ left.tries > 0 /\ left'.tries = left.tries - 1)
             /\ left'.compactions = left.compactions /\ left'.purges = left.purges
  <2>1. \/ UNCHANGED left \/ (BeginCommit(k) /\ Spent("tries")) \/ Spent("skips") \/ Spent("faults")
    BY <1>2, <1>8
  <2>2. QED
    BY <1>1, <2>1, SpentMoves
<1>9. QED
    BY <1>1, <1>3, <1>4, <1>5, <1>6, <1>7, <1>8 DEF Next

\* A call that may still make a commit keeps its identifier, and a new one
\* has an identifier that nobody had.
LEMMA OpenMoves ==
    ASSUME TypeOK, Next, NEW j \in Keys, Open(writer'[j])
    PROVE  \/ Open(writer[j]) /\ writer'[j].try = writer[j].try
           \/ writer'[j].try = left.tries /\ left.tries \in Nat /\ left'.tries < left.tries
<1>1. writer \in [Keys -> WriterType] /\ writer[j] \in WriterType /\ left.tries \in Nat
    BY DEF TypeOK, CallsTyped, TenantTyped, WorkloadType
<1>2. DOMAIN writer[j] = {"at", "try", "held", "next", "made"} /\ ~Open(IdleWriter)
    BY <1>1, WriterFields DEF IdleWriter, Open
<1>3. CASE writer'[j] = writer[j]
    BY <1>3
<1>4. ASSUME NEW k \in Keys, BeginCommit(k) \/ WriterStep(k), k # j PROVE writer'[j] = writer[j]
    BY <1>4, WriterMoves
<1>5. CASE BeginCommit(j)
  <2>1. writer'[j].try = left.tries /\ Spent("tries")
    BY <1>1, <1>2, <1>5 DEF BeginCommit
  <2>2. left'.tries = left.tries - 1
    BY <2>1, SpentMoves DEF TypeOK, TenantTyped
  <2>3. QED
    BY <1>1, <2>1, <2>2
<1>6. CASE WriterStep(j)
  <2>1. ~Leave(j)
    <3>1. Leave(j) => writer'[j].at = "idle"
      BY LeaveIdles
    <3>2. QED
      BY <3>1 DEF Open
  <2>2. CASE Reserve(j)
    <3>1. writer[j].at = "waiting" /\ \E r : writer' = [writer EXCEPT ![j].at = "reserved", ![j].held = r]
      BY <2>1, <2>2 DEF Reserve
    <3>2. QED
      BY <1>1, <1>2, <3>1 DEF Open
  <2>3. CASE PutCommit(j)
    BY <1>1, <1>2, <2>3 DEF PutCommit, Open
  <2>4. CASE Prepare(j)
    BY <1>1, <1>2, <2>4 DEF Prepare, Open
  <2>5. CASE Skip(j) \/ Publish(j) \/ FinishIndexes(j) \/ CompleteCommit(j)
    BY <1>1, <1>2, <2>5 DEF Skip, Publish, FinishIndexes, CompleteCommit, Open
  <2>6. ~ (Refused(j) \/ CommitFails(j) \/ PublishUnanswered(j))
    BY <2>1 DEF Refused, CommitFails, PublishUnanswered
  <2>7. QED
    BY <1>6, <2>2, <2>3, <2>4, <2>5, <2>6 DEF WriterStep
<1>7. ASSUME NEW r \in Readers, PinReadView(r) \/ Release(r) PROVE UNCHANGED writer
    BY <1>7 DEF PinReadView, Release
<1>8. CASE StartCompaction \/ CompactionStep
  <2>1. UNCHANGED writer
    BY <1>8 DEF StartCompaction, CompactionStep, LoadGraph, PutSnapshot, SnapshotWritten, SettleRead, SettlePut,
         LockForPublication, PublishCompaction
  <2>2. QED
    BY <1>3, <2>1
<1>9. CASE SweepStep
    BY <1>3, <1>9 DEF SweepStep, StartGC, RunGC, EndGC, Visit
<1>10. CASE BeginPurge \/ PurgeObjects \/ CreateTenant
    BY <1>3, <1>10 DEF BeginPurge, PurgeObjects, CreateTenant
<1>11. ~Crash
    BY <1>2 DEF Crash
<1>12. QED
    BY <1>3, <1>4, <1>5, <1>6, <1>7, <1>8, <1>9, <1>10, <1>11 DEF Next

LEMMA UsedStays ==
    ASSUME TypeOK, Next, NEW id \in CommitIds, Used(id)
    PROVE  Used(id)'
<1>1. left'.tries <= left.tries /\ left.tries \in Nat /\ left'.tries \in Nat /\ id[2] \in Nat
    BY LeftMoves DEF CommitIds
<1>2. ASSUME NEW j \in Keys, Open(writer'[j]) PROVE id # <<j, writer'[j].try>>
  <2>1. CASE Open(writer[j]) /\ writer'[j].try = writer[j].try
    BY <2>1 DEF Used
  <2>2. CASE writer'[j].try = left.tries
    <3>1. <<j, writer'[j].try>>[2] = left.tries
      BY <2>2
    <3>2. QED
      BY <1>1, <3>1 DEF Used
  <2>3. QED
    BY <1>2, <2>1, <2>2, OpenMoves
<1>3. QED
    BY <1>1, <1>2 DEF Used

Publishes(k) == Publish(k) \/ PublishUnanswered(k)

LEMMA PublishFacts ==
    ASSUME TypeOK, StorageInv, NEW k \in Keys, Publishes(k)
    PROVE  /\ writer[k].at = "prepared" /\ manifest' = writer[k].next /\ <<k, writer[k].try>> \in CommitIds
           /\ history' = Append(history, <<k, writer[k].try>>) /\ lock = k /\ tenant.phase = "active"
           /\ writer'[k].at \in {"idle", "published"} /\ \A j \in Keys : j # k => writer'[j] = writer[j]
           /\ manifest'.snap = manifest.snap /\ manifest'.version = Len(history) + 1 /\ manifest.version = Len(history)
           /\ UNCHANGED <<files, reader, comp, gc, tenant>>
<1>1. /\ writer[k].at = "prepared" /\ manifest' = writer[k].next /\ history' = Append(history, writer[k].next.head)
      /\ UNCHANGED <<files, reader, comp, gc, tenant>>
    BY DEF Publishes, Publish, PublishUnanswered
<1>2. history \in Seq(CommitIds) /\ writer[k] \in WriterType /\ writer[k].try \in Nat /\ writer \in [Keys -> WriterType]
    BY WriterFields DEF TypeOK, ObjectsTyped, CallsTyped
<1>3. Follows(writer[k].next, Append(history, <<k, writer[k].try>>)) /\ writer[k].next.snap = manifest.snap
    BY <1>1 DEF StorageInv, WriterInv
<1>4. <<k, writer[k].try>> \in CommitIds
    BY <1>2 DEF CommitIds
<1>5. /\ Len(Append(history, <<k, writer[k].try>>)) = Len(history) + 1 /\ Len(history) \in Nat
      /\ Append(history, <<k, writer[k].try>>)[Len(history) + 1] = <<k, writer[k].try>>
    BY <1>2, <1>4
<1>6. writer[k].next.version = Len(history) + 1 /\ writer[k].next.head = <<k, writer[k].try>>
    BY <1>3, <1>5 DEF Follows
<1>7. writer'[k].at \in {"idle", "published"} /\ \A j \in Keys : j # k => writer'[j] = writer[j]
  <2>1. CASE Publish(k)
    BY <1>2, <2>1, WriterFields DEF Publish
  <2>2. CASE PublishUnanswered(k)
    BY <2>2, LeaveIdles DEF PublishUnanswered
  <2>3. QED
    BY <2>1, <2>2 DEF Publishes
<1>8. lock = k /\ tenant.phase = "active" /\ manifest.version = Len(history)
    BY <1>1 DEF StorageInv, LockInv, Follows
<1>9. QED
    BY <1>1, <1>3, <1>4, <1>6, <1>7, <1>8

\* Only a publication changes the manifest, and only a commit the history,
\* until a purge.
LEMMA HistoryMoves ==
    ASSUME Next
    PROVE  \/ UNCHANGED <<manifest, history>>
           \/ PublishCompaction /\ UNCHANGED history
           \/ PurgeObjects
           \/ \E k \in Keys : Publishes(k)
<1>1. ASSUME NEW k \in Keys, BeginCommit(k) \/ WriterStep(k) PROVE Publishes(k) \/ UNCHANGED <<manifest, history>>
    BY <1>1 DEF BeginCommit, WriterStep, Reserve, Refused, Skip, PutCommit, Prepare, CommitFails,
         FinishIndexes, CompleteCommit, Publishes
<1>2. CASE StartCompaction \/ CompactionStep
  <2>1. PublishCompaction => UNCHANGED history
    BY DEF PublishCompaction
  <2>2. QED
    BY <1>2, <2>1 DEF StartCompaction, CompactionStep, LoadGraph, PutSnapshot, SnapshotWritten, SettleRead, SettlePut,
         LockForPublication
<1>3. CASE SweepStep
    BY <1>3 DEF SweepStep, StartGC, RunGC, EndGC, Visit
<1>4. CASE BeginPurge \/ PurgeObjects \/ CreateTenant \/ Crash
    BY <1>4 DEF BeginPurge, CreateTenant, Crash
<1>5. QED
    BY <1>1, <1>2, <1>3, <1>4 DEF Next, PinReadView, Release

LEMMA IdsInit == Init => IdsInv
BY DEF Init, IdsInv, Open, IdleWriter

LEMMA IdsNext ==
    ASSUME TypeOK, StorageInv, IdsInv, Next
    PROVE  IdsInv'
<1>1. history \in Seq(CommitIds) /\ left.tries \in Nat /\ writer \in [Keys -> WriterType]
    BY DEF TypeOK, ObjectsTyped, CallsTyped, TenantTyped, WorkloadType
<1>2. left'.tries <= left.tries /\ left'.tries \in Nat
    BY <1>1, LeftMoves
<1>3. ASSUME NEW j \in Keys, Open(writer'[j]) PROVE writer'[j].try > left'.tries
  <2>1. \/ Open(writer[j]) /\ writer'[j].try = writer[j].try
        \/ writer'[j].try = left.tries /\ left.tries \in Nat /\ left'.tries < left.tries
    BY <1>3, OpenMoves
  <2>2. writer[j].try \in Nat
    BY <1>1, WriterFields
  <2>3. QED
    BY <1>1, <1>2, <2>1, <2>2 DEF IdsInv
<1>4. ASSUME NEW i \in DOMAIN history PROVE Used(history[i])' \/ PurgeObjects
  <2>1. Used(history[i]) /\ history[i] \in CommitIds
    BY <1>1 DEF IdsInv
  <2> DEFINE id == history[i]
  <2>2. PurgeObjects \/ history'[i] = history[i]
    <3>1. CASE \E k \in Keys : Publishes(k)
      <4>1. PICK k \in Keys : Publishes(k)
        BY <3>1
      <4>2. history' = Append(history, <<k, writer[k].try>>)
        BY <4>1, PublishFacts
      <4>3. QED
        BY <1>1, <4>2
    <3>2. QED
      BY <3>1, HistoryMoves
  <2>3. \A x \in CommitIds : Used(x) => Used(x)'
    BY UsedStays
  <2>4. QED
    BY <2>1, <2>2, <2>3 DEF Used
<1>5. ASSUME NEW k \in Keys, Publishes(k) PROVE \A i \in DOMAIN history' : Used(history[i])'
  <2>1. /\ writer[k].at = "prepared" /\ <<k, writer[k].try>> \in CommitIds /\ writer'[k].at \in {"idle", "published"}
        /\ history' = Append(history, <<k, writer[k].try>>)
    BY <1>5, PublishFacts
  <2>2. writer[k].try > left.tries /\ writer[k].try \in Nat
    BY <1>1, <2>1, WriterFields DEF IdsInv, Open
  <2>3. writer[k].try > left'.tries
    BY <1>1, <1>2, <2>2
  <2>4. \A j \in Keys : Open(writer'[j]) => <<k, writer[k].try>> # <<j, writer'[j].try>>
    BY <2>1 DEF Open
  <2>5. ~PurgeObjects
    <3>1. lock = k
      BY <1>5, PublishFacts
    <3>2. QED
      BY <3>1, Roles DEF PurgeObjects
  <2>6. ASSUME NEW i \in DOMAIN history' PROVE Used(history[i])'
    <3>1. CASE i \in DOMAIN history
      BY <1>4, <2>5, <3>1
    <3>2. CASE i \notin DOMAIN history
      <4>1. history'[i] = <<k, writer[k].try>>
        BY <1>1, <2>1, <2>6, <3>2, AppendExtends
      <4>2. <<k, writer[k].try>>[2] = writer[k].try
        OBVIOUS
      <4>3. QED
        BY <2>3, <2>4, <4>1, <4>2 DEF Used
    <3>3. QED
      BY <3>1, <3>2
  <2>7. QED
    BY <2>6
<1>6. CASE PurgeObjects
  <2>1. DOMAIN history' = {}
    BY <1>6 DEF PurgeObjects
  <2>2. QED
    BY <1>3, <2>1 DEF IdsInv
<1>7. CASE ~PurgeObjects
  <2>1. \A i \in DOMAIN history' : Used(history[i])'
    BY <1>4, <1>5, <1>7, HistoryMoves
  <2>2. QED
    BY <1>3, <2>1 DEF IdsInv
<1>8. QED
    BY <1>6, <1>7

-----------------------------------------------------------------------------
(* The gate of the views.                                                  *)

LEMMA ShrunkFacts ==
    ASSUME NEW v
    PROVE  /\ DOMAIN Shrunk(v) \subseteq DOMAIN retired
           /\ \A o \in DOMAIN Shrunk(v) : \A x : x # v /\ x \in retired[o] => x \in Shrunk(v)[o]
           /\ Views \subseteq {v} /\ gc.at # "sweeping" => DOMAIN Shrunk(v) = {}
<1>1. CASE Views \ {v} = {} /\ gc.at # "sweeping"
  <2>1. DOMAIN Shrunk(v) = {}
    BY <1>1 DEF Shrunk
  <2>2. QED
    BY <2>1
<1>2. CASE ~ (Views \ {v} = {} /\ gc.at # "sweeping")
  <2>1. Shrunk(v) = [o \in DOMAIN retired |-> retired[o] \ {v}]
    BY <1>2 DEF Shrunk
  <2>2. DOMAIN Shrunk(v) = DOMAIN retired /\ \A o \in DOMAIN retired : Shrunk(v)[o] = retired[o] \ {v}
    BY <2>1
  <2>3. QED
    BY <1>2, <2>2
<1>3. QED
    BY <1>1, <1>2

\* A step of a call: its view is the only one that goes, and what is
\* remembered of it goes with it.
LEMMA WriterViews ==
    ASSUME TypeOK, NEW k \in Keys, BeginCommit(k) \/ WriterStep(k)
    PROVE  /\ UNCHANGED <<reader, gc, comp, tenant>>
           /\ \/ UNCHANGED retired /\ Views \subseteq Views'
              \/ retired' = Shrunk(k) /\ Views \ {k} \subseteq Views'
<1>1. writer \in [Keys -> WriterType] /\ writer[k] \in WriterType
    BY DEF TypeOK, CallsTyped
<1>2. DOMAIN writer[k] = {"at", "try", "held", "next", "made"}
    BY <1>1, WriterFields
<1>3. UNCHANGED <<reader, gc, comp, tenant>>
    BY WriterMoves DEF BeginCommit, WriterStep, Reserve, Refused, Skip, PutCommit, Prepare, CommitFails, Publish,
         PublishUnanswered, FinishIndexes, CompleteCommit
<1>4. Views \ {k} \subseteq Views'
  <2>1. \A j \in Keys : j # k => writer'[j] = writer[j]
    BY WriterMoves
  <2>2. QED
    BY <1>3, <2>1 DEF Views
<1>5. ASSUME writer'[k].at \notin {"idle", "completing"} \/ writer[k].at \in {"idle", "completing"} PROVE Views \subseteq Views'
  <2>1. \A j \in Keys : j # k => writer'[j] = writer[j]
    BY WriterMoves
  <2>2. QED
    BY <1>3, <1>5, <2>1 DEF Views
<1>6. Leave(k) => retired' = Shrunk(k)
    BY DEF Leave
<1>7. CASE BeginCommit(k)
    BY <1>1, <1>2, <1>3, <1>5, <1>7 DEF BeginCommit
<1>8. CASE Reserve(k)
  <2>1. Leave(k) \/ (UNCHANGED retired /\ \E r : writer' = [writer EXCEPT ![k].at = "reserved", ![k].held = r])
    BY <1>8 DEF Reserve
  <2>2. QED
    BY <1>1, <1>2, <1>3, <1>4, <1>5, <1>6, <2>1
<1>9. CASE Refused(k) \/ CommitFails(k) \/ PublishUnanswered(k)
    BY <1>3, <1>4, <1>6, <1>9 DEF Refused, CommitFails, PublishUnanswered
<1>10. CASE FinishIndexes(k)
    BY <1>3, <1>4, <1>10 DEF FinishIndexes
<1>11. CASE Skip(k) \/ PutCommit(k) \/ Prepare(k) \/ Publish(k)
    BY <1>1, <1>2, <1>3, <1>5, <1>11 DEF Skip, PutCommit, Prepare, Publish
<1>12. CASE CompleteCommit(k)
    BY <1>3, <1>5, <1>12 DEF CompleteCommit
<1>13. QED
    BY <1>7, <1>8, <1>9, <1>10, <1>11, <1>12 DEF WriterStep

LEMMA GateInit == Init => GateInv
<1> SUFFICES ASSUME Init PROVE GateInv
    OBVIOUS
<1>1. DOMAIN retired = {} /\ gc.at = "idle" /\ \A r \in Readers : reader[r].at = "idle"
    BY DEF Init, IdleGC, IdleReader
<1>2. QED
    BY <1>1 DEF GateInv

LEMMA GateNext ==
    ASSUME TypeOK, StorageInv, GateInv, Next
    PROVE  GateInv'
<1>1. LockInv /\ DOMAIN tenant = {"phase", "generation"} /\ DOMAIN gc = {"at", "m", "listed", "moved"}
    BY GCFields DEF StorageInv, TypeOK, TenantTyped
<1>2. gc.at = "sweeping" <=> lock = Sweeper
    BY <1>1 DEF LockInv
<1>3. ASSUME NEW r \in Readers, PinReadView(r) PROVE GateInv'
  <2>1. tenant.phase = "active" /\ UNCHANGED <<tenant, gc, retired, manifest, writer>>
        /\ reader' = [reader EXCEPT ![r] = [at |-> "reading", m |-> manifest]] /\ reader \in [Readers -> ReaderType]
    BY <1>3 DEF PinReadView, TypeOK, CallsTyped
  <2>2. reader'[r].at = "reading"
    BY <2>1
  <2>3. Views' # {}
    BY <2>2 DEF Views
  <2>4. QED
    BY <2>1, <2>3 DEF GateInv
<1>4. ASSUME NEW r \in Readers, Release(r) PROVE GateInv'
  <2>1. UNCHANGED <<tenant, gc, manifest, writer>> /\ retired' = Shrunk(r)
        /\ reader' = [reader EXCEPT ![r] = IdleReader] /\ reader \in [Readers -> ReaderType]
    BY <1>4 DEF Release, TypeOK, CallsTyped
  <2>2. \A q \in Readers : (q # r => reader'[q] = reader[q]) /\ (q = r => reader'[q].at = "idle")
    BY <2>1 DEF IdleReader
  <2>3. Views \ {r} \subseteq Views'
    BY <2>1, <2>2 DEF Views
  <2>4. Views' = {} /\ gc'.at # "sweeping" => DOMAIN retired' = {}
    BY <2>1, <2>3, ShrunkFacts
  <2>5. DOMAIN retired' \subseteq DOMAIN retired
    BY <2>1, ShrunkFacts
  <2>6. QED
    BY <2>1, <2>2, <2>4, <2>5 DEF GateInv
<1>5. ASSUME NEW k \in Keys, BeginCommit(k) \/ WriterStep(k) PROVE GateInv'
  <2>1. /\ UNCHANGED <<reader, gc, comp, tenant>>
        /\ \/ UNCHANGED retired /\ Views \subseteq Views'
           \/ retired' = Shrunk(k) /\ Views \ {k} \subseteq Views'
    BY <1>5, WriterViews
  <2>2. DOMAIN retired' \subseteq DOMAIN retired /\ (Views' = {} /\ gc'.at # "sweeping" => DOMAIN retired' = {})
    BY <2>1, ShrunkFacts DEF GateInv
  <2>3. gc.at = "sweeping" => UNCHANGED manifest
    <3>1. HAVE gc.at = "sweeping"
    <3>2. lock = Sweeper /\ gc.at # "idle"
      BY <1>2, <3>1
    <3>3. ~Publishes(k)
      BY <3>2, PublishFacts, Roles
    <3>4. QED
      BY <1>5, <3>3 DEF BeginCommit, WriterStep, Reserve, Refused, Skip, PutCommit, Prepare, CommitFails,
           FinishIndexes, CompleteCommit, Publishes
  <2>4. QED
    BY <2>1, <2>2, <2>3 DEF GateInv
<1>6. ASSUME UNCHANGED <<manifest, writer, reader, tenant>>, gc'.at = gc.at, gc'.m = gc.m,
             DOMAIN retired' \subseteq DOMAIN retired
      PROVE  GateInv'
  <2>1. Views' = Views
    BY <1>6 DEF Views
  <2>2. QED
    BY <1>6, <2>1 DEF GateInv
<1>7. CASE StartCompaction \/ LoadGraph \/ SnapshotWritten \/ LockForPublication \/ \E k \in Keys : SettleRead(k) \/ SettlePut(k)
    BY <1>6, <1>7 DEF StartCompaction, LoadGraph, SnapshotWritten, LockForPublication, SettleRead, SettlePut
<1>8. ASSUME NEW kind \in {"pages", "record"}, PutSnapshot(kind) PROVE GateInv'
  <2>1. gc'.at = gc.at /\ gc'.m = gc.m
    BY <1>1, <1>8 DEF PutSnapshot
  <2>2. DOMAIN retired' \subseteq DOMAIN retired /\ UNCHANGED <<manifest, writer, reader, tenant>>
    BY <1>8 DEF PutSnapshot
  <2>3. QED
    BY <1>6, <2>1, <2>2
<1>9. CASE PublishCompaction
  <2>1. comp.at = "locked" /\ UNCHANGED <<writer, reader, tenant, gc, retired>>
    BY <1>9 DEF PublishCompaction
  <2>2. gc.at # "sweeping"
    BY <1>1, <2>1, RolesDiffer DEF LockInv
  <2>3. Views' = Views
    BY <2>1 DEF Views
  <2>4. QED
    BY <2>1, <2>2, <2>3 DEF GateInv
<1>10. CASE StartGC \/ RunGC
  <2>1. gc.at # "sweeping" /\ UNCHANGED <<manifest, writer, reader, tenant, retired>>
    BY <1>10 DEF StartGC, RunGC
  <2>2. gc'.at = "sweeping" => gc'.m = manifest
    <3>1. DOMAIN IdleGC = {"at", "m", "listed", "moved"} /\ IdleGC.at = "idle"
      BY DEF IdleGC
    <3>2. CASE StartGC
      BY <3>1, <3>2 DEF StartGC
    <3>3. CASE RunGC
      BY <1>1, <3>1, <3>3 DEF RunGC
    <3>4. QED
      BY <1>10, <3>2, <3>3
  <2>3. Views' = Views
    BY <2>1 DEF Views
  <2>4. QED
    BY <2>1, <2>2, <2>3 DEF GateInv
<1>11. CASE EndGC
  <2>1. UNCHANGED <<manifest, writer, reader, tenant>> /\ retired' = (IF Views = {} THEN <<>> ELSE retired) /\ gc'.at = "idle"
    BY <1>11 DEF EndGC, IdleGC
  <2>2. Views' = Views
    BY <2>1 DEF Views
  <2>3. DOMAIN retired' \subseteq DOMAIN retired /\ (Views = {} => DOMAIN retired' = {})
    BY <2>1
  <2>4. QED
    BY <2>1, <2>2, <2>3 DEF GateInv
<1>12. ASSUME NEW o \in files, Visit(o) PROVE GateInv'
  <2>1. /\ gc.at = "sweeping" /\ UNCHANGED <<manifest, writer, reader, tenant>>
        /\ \/ gc' = [gc EXCEPT !.listed = @ \ {o}]
           \/ /\ gc' = [[gc EXCEPT !.listed = @ \ {o}] EXCEPT !.at = "paused", !.m = EmptyManifest, !.moved = FALSE]
              /\ Views = {} => retired' = <<>>
    BY <1>12 DEF Visit
  <2>2. \/ gc'.at = "sweeping" /\ gc'.m = gc.m
        \/ gc'.at = "paused" /\ (Views = {} => retired' = <<>>)
    BY <1>1, <2>1
  <2>3. Views' = Views
    BY <2>1 DEF Views
  <2>4. tenant.phase = "active"
    BY <1>1, <1>2, <2>1 DEF LockInv
  <2>5. DOMAIN <<>> = {}
    OBVIOUS
  <2>6. Views = {} /\ gc'.at # "sweeping" => DOMAIN retired' = {}
    BY <2>2, <2>5
  <2>7. QED
    BY <2>1, <2>2, <2>3, <2>4, <2>6 DEF GateInv
<1>13. CASE BeginPurge
  <2>1. UNCHANGED <<manifest, writer, reader, gc, retired>> /\ Views = {} /\ lock = Nobody
    BY <1>13 DEF BeginPurge, Free
  <2>2. gc.at # "sweeping"
    BY <1>2, <2>1, RolesDiffer
  <2>3. Views' = Views
    BY <2>1 DEF Views
  <2>4. \A r \in Readers : reader[r].at = "idle"
    BY <2>1 DEF Views
  <2>5. QED
    BY <2>1, <2>2, <2>3, <2>4 DEF GateInv
<1>14. CASE PurgeObjects
  <2>1. UNCHANGED <<writer, reader, gc, retired>> /\ tenant.phase = "purging" /\ lock = Purger
    BY <1>14 DEF PurgeObjects
  <2>2. gc.at # "sweeping" /\ Views' = Views
    BY <1>2, <2>1, RolesDiffer DEF Views
  <2>3. QED
    BY <2>1, <2>2 DEF GateInv
<1>15. CASE CreateTenant
  <2>1. UNCHANGED <<manifest, writer, reader, gc, retired>> /\ tenant.phase = "purged"
    BY <1>15 DEF CreateTenant
  <2>2. Views' = Views
    BY <2>1 DEF Views
  <2>3. QED
    BY <2>1, <2>2 DEF GateInv
<1>16. CASE Crash
  <2>1. DOMAIN retired' = {} /\ gc'.at = "idle" /\ \A r \in Readers : reader'[r].at = "idle"
    BY <1>16 DEF Crash, IdleGC, IdleReader
  <2>2. QED
    BY <2>1 DEF GateInv
<1>17. QED
    BY <1>3, <1>4, <1>5, <1>7, <1>8, <1>9, <1>10, <1>11, <1>12, <1>13, <1>14, <1>15, <1>16 DEF Next, CompactionStep, SweepStep

-----------------------------------------------------------------------------
(* Compactions and the generation of the tenant.                           *)

LEMMA ActiveBefore ==
    ASSUME TypeOK, Next, tenant'.phase = "active"
    PROVE  CreateTenant \/ (tenant.phase = "active" /\ UNCHANGED tenant /\ ~PurgeObjects)
<1>1. DOMAIN tenant = {"phase", "generation"}
    BY DEF TypeOK, TenantTyped
<1>2. ~BeginPurge /\ ~PurgeObjects
    BY <1>1 DEF BeginPurge, PurgeObjects
<1>3. QED
    BY <1>2, TenantMoves

LEMMA CreateFacts ==
    ASSUME TypeOK, StorageInv, CreateTenant
    PROVE  /\ tenant'.phase = "active" /\ tenant'.generation = tenant.generation + 1 /\ tenant.phase = "purged"
           /\ manifest = EmptyManifest /\ history = <<>> /\ files = {} /\ lock = Nobody
           /\ UNCHANGED <<manifest, files, records, lock, writer, reader, comp, gc, retired, history, left>>
           /\ ~CompRuns'
<1>1. /\ tenant'.phase = "active" /\ tenant'.generation = tenant.generation + 1 /\ tenant.phase = "purged" /\ files = {}
      /\ UNCHANGED <<manifest, files, records, lock, writer, reader, comp, gc, retired, history, left>> /\ lock = Nobody
    BY DEF CreateTenant, NewLease, Free
<1>2. manifest = EmptyManifest /\ history = <<>>
    BY <1>1 DEF StorageInv, PurgeInv, Emptied
<1>3. comp.fence <= tenant.generation /\ comp.fence \in Nat /\ tenant.generation \in Nat
    BY CompFields DEF StorageInv, CompInv, TypeOK, TenantTyped
<1>4. comp'.fence # tenant'.generation
    BY <1>1, <1>3
<1>5. QED
    BY <1>1, <1>2, <1>4 DEF CompRuns

\* A compaction keeps its fence, and changes its manifest only for the
\* published one.
LEMMA CompMoves ==
    ASSUME TypeOK, Next, comp'.at # "idle"
    PROVE  \/ /\ StartCompaction /\ comp'.at = "loading" /\ comp'.m = manifest /\ comp'.fence = tenant.generation
              /\ comp'.wrote = {}
           \/ /\ comp.at # "idle" /\ comp'.fence = comp.fence /\ ~StartCompaction /\ ~PublishCompaction
              /\ comp'.m = comp.m \/ (LoadGraph /\ comp.at = "loading" /\ comp'.at = "loading" /\ comp'.m = manifest)
<1>1. DOMAIN comp = {"at", "m", "ids", "fence", "wrote", "todo", "key", "seen", "settled"} /\ IdleComp.at = "idle"
    BY CompFields DEF IdleComp
<1>2. CASE StartCompaction
    BY <1>2 DEF StartCompaction, IdleComp
<1>3. CASE UNCHANGED comp /\ ~StartCompaction /\ ~PublishCompaction
    BY <1>3
<1>4. ~PublishCompaction
    BY <1>1 DEF PublishCompaction, StopCompaction
<1>5. CASE CompactionStep /\ ~StartCompaction
  <2>1. CASE LoadGraph
    BY <1>1, <1>4, <1>5, <2>1 DEF LoadGraph
  <2>2. ASSUME NEW kind \in {"pages", "record"}, PutSnapshot(kind)
        PROVE  comp.at # "idle" /\ comp'.fence = comp.fence /\ comp'.m = comp.m
    BY <1>1, <2>2 DEF PutSnapshot, StopCompaction
  <2>3. CASE SnapshotWritten
    BY <1>1, <1>4, <1>5, <2>3 DEF SnapshotWritten
  <2>4. ASSUME NEW k \in Keys, SettleRead(k)
        PROVE  comp.at # "idle" /\ comp'.fence = comp.fence /\ comp'.m = comp.m
    BY <1>1, <2>4 DEF SettleRead
  <2>5. ASSUME NEW k \in Keys, SettlePut(k)
        PROVE  comp.at # "idle" /\ comp'.fence = comp.fence /\ comp'.m = comp.m
    BY <1>1, <2>5 DEF SettlePut
  <2>6. CASE LockForPublication
    BY <1>1, <1>4, <1>5, <2>6 DEF LockForPublication, StopCompaction
  <2>7. QED
    BY <1>4, <1>5, <2>1, <2>2, <2>3, <2>4, <2>5, <2>6 DEF CompactionStep
<1>6. ASSUME NEW r \in Readers, PinReadView(r) \/ Release(r) PROVE UNCHANGED comp
    BY <1>6 DEF PinReadView, Release
<1>7. ASSUME NEW k \in Keys, BeginCommit(k) \/ WriterStep(k) PROVE UNCHANGED comp
    BY <1>7, WriterMoves
<1>8. SweepStep \/ BeginPurge \/ PurgeObjects \/ CreateTenant => UNCHANGED comp
    BY DEF SweepStep, StartGC, RunGC, EndGC, Visit, BeginPurge, PurgeObjects, CreateTenant
<1>9. ~Crash
    BY <1>1 DEF Crash
<1>10. UNCHANGED comp => ~StartCompaction
    BY <1>1 DEF StartCompaction
<1>11. QED
    BY <1>2, <1>3, <1>4, <1>5, <1>6, <1>7, <1>8, <1>9, <1>10 DEF Next

LEMMA SnapMoves ==
    ASSUME TypeOK, StorageInv, Next, ~PurgeObjects
    PROVE  manifest'.snap = manifest.snap \/ (PublishCompaction /\ CompRuns)
<1>1. PublishCompaction => CompRuns
    BY DEF PublishCompaction, StorageInv, CompInv, CompRuns
<1>2. QED
    BY <1>1, HistoryMoves, PublishFacts

LEMMA StaleNext ==
    ASSUME TypeOK, StorageInv, StaleInv, Next
    PROVE  StaleInv'
<1> SUFFICES ASSUME tenant'.phase = "active", comp'.at # "idle", comp'.fence # tenant'.generation
             PROVE  manifest'.snap = 0
    BY DEF StaleInv
<1>1. CASE CreateTenant
    BY <1>1, CreateFacts DEF EmptyManifest
<1>2. CASE ~CreateTenant
  <2>1. tenant.phase = "active" /\ UNCHANGED tenant /\ ~PurgeObjects
    BY <1>2, ActiveBefore
  <2>2. comp.at # "idle" /\ comp'.fence = comp.fence /\ ~PublishCompaction
    BY <2>1, CompMoves
  <2>3. QED
    BY <2>1, <2>2, SnapMoves DEF StaleInv
<1>3. QED
    BY <1>1, <1>2

LEMMA NoneLeftStays ==
    ASSUME TypeOK, StorageInv, NoneLeft, Next
    PROVE  NoneLeft'
<1>1. left'.compactions = 0
    BY LeftMoves DEF NoneLeft
<1>2. ASSUME tenant'.phase = "active" PROVE manifest'.snap = 0 /\ ~CompRuns'
  <2>1. CASE CreateTenant
    BY <2>1, CreateFacts DEF EmptyManifest
  <2>2. CASE ~CreateTenant
    <3>1. tenant.phase = "active" /\ UNCHANGED tenant /\ ~PurgeObjects
      BY <1>2, <2>2, ActiveBefore
    <3>2. manifest'.snap = 0
      BY <3>1, SnapMoves DEF NoneLeft
    <3>3. ~StartCompaction
      <4>1. StartCompaction => left.compactions > 0
        BY SpentMoves DEF StartCompaction, TypeOK, TenantTyped
      <4>2. QED
        BY <4>1 DEF NoneLeft
    <3>4. ~CompRuns'
      BY <3>1, <3>3, CompMoves DEF NoneLeft, CompRuns
    <3>5. QED
      BY <3>2, <3>4
  <2>3. QED
    BY <2>1, <2>2
<1>3. QED
    BY <1>1, <1>2 DEF NoneLeft

LEMMA HistoryGrows ==
    ASSUME TypeOK, StorageInv, TypeOK', StorageInv', Next, ~PurgeObjects
    PROVE  /\ Extends(history, history') /\ history \in Seq(CommitIds) /\ history' \in Seq(CommitIds)
           /\ manifest.version = Len(history) /\ manifest'.version = Len(history') /\ Len(history) <= Len(history')
           /\ Len(history) \in Nat /\ Len(history') \in Nat
<1>1. history \in Seq(CommitIds) /\ history' \in Seq(CommitIds)
    BY DEF TypeOK, ObjectsTyped
<1>2. manifest.version = Len(history) /\ manifest'.version = Len(history')
    BY DEF StorageInv, Follows
<1>3. Extends(history, history')
  <2>1. CASE UNCHANGED history
    BY <1>1, <2>1 DEF Extends
  <2>2. ASSUME NEW k \in Keys, Publishes(k) PROVE Extends(history, history')
    BY <1>1, <2>2, PublishFacts, AppendExtends
  <2>3. QED
    BY <2>1, <2>2, HistoryMoves
<1>4. QED
    BY <1>1, <1>2, <1>3 DEF Extends

-----------------------------------------------------------------------------
(* The listing of a sweep.                                                 *)

LEMMA ListingMoves ==
    ASSUME TypeOK, Next, gc'.at # "idle"
    PROVE  \/ gc.at # "idle" /\ gc'.listed \subseteq gc.listed
           \/ /\ gc'.listed = IF tenant.phase = "active" THEN files ELSE {}
              /\ UNCHANGED <<manifest, history, comp, tenant, files>>
<1>1. DOMAIN gc = {"at", "m", "listed", "moved"} /\ IdleGC.at = "idle"
    BY GCFields DEF IdleGC
<1>2. ASSUME NEW r \in Readers, PinReadView(r) \/ Release(r) PROVE UNCHANGED gc
    BY <1>2 DEF PinReadView, Release
<1>3. ASSUME NEW k \in Keys, BeginCommit(k) \/ WriterStep(k) PROVE UNCHANGED gc
    BY <1>3, WriterMoves
<1>4. StartCompaction \/ CompactionStep => gc'.at = gc.at /\ gc'.listed = gc.listed
  <2>1. ASSUME NEW kind \in {"pages", "record"}, PutSnapshot(kind) PROVE gc'.at = gc.at /\ gc'.listed = gc.listed
    BY <1>1, <2>1 DEF PutSnapshot
  <2>2. QED
    BY <2>1 DEF StartCompaction, CompactionStep, LoadGraph, SnapshotWritten, SettleRead, SettlePut,
         LockForPublication, PublishCompaction
<1>5. CASE StartGC \/ RunGC
    BY <1>1, <1>5 DEF StartGC, RunGC, IdleGC
<1>6. ~EndGC /\ ~Crash
    BY <1>1 DEF EndGC, Crash
<1>7. ASSUME NEW o \in files, Visit(o) PROVE gc.at # "idle" /\ gc'.listed \subseteq gc.listed
  <2>1. /\ gc.at = "sweeping"
        /\ \/ gc' = [gc EXCEPT !.listed = @ \ {o}]
           \/ gc' = [[gc EXCEPT !.listed = @ \ {o}] EXCEPT !.at = "paused", !.m = EmptyManifest, !.moved = FALSE]
    BY <1>7 DEF Visit
  <2>2. QED
    BY <1>1, <2>1
<1>8. BeginPurge \/ PurgeObjects \/ CreateTenant => UNCHANGED gc
    BY DEF BeginPurge, PurgeObjects, CreateTenant
<1>9. QED
    BY <1>2, <1>3, <1>4, <1>5, <1>6, <1>7, <1>8 DEF Next, SweepStep

LEMMA ListedIds ==
    ASSUME TypeOK, NEW o \in gc.listed, o.ids # <<>>
    PROVE  o.ids[1] \in CommitIds /\ o.hi \in Nat
<1>1. o.ids \in Seq(CommitIds) /\ o.hi \in Nat
    BY GCFields, ObjectFields
<1>2. QED
    BY <1>1

LEMMA ListedBeforeStays ==
    ASSUME TypeOK, StorageInv, ListedBefore, Next, gc'.listed \subseteq gc.listed
    PROVE  ListedBefore'
<1> SUFFICES ASSUME NEW o \in gc'.listed, IsSnapshot(o)
             PROVE  o.ids # <<>> /\ Used(o.ids[1])' /\ \A i \in DOMAIN history' : history'[i] # o.ids[1]
    BY DEF ListedBefore, IsSnapshot
<1>1. o \in gc.listed /\ o.ids # <<>> /\ Used(o.ids[1]) /\ \A i \in DOMAIN history : history[i] # o.ids[1]
    BY DEF ListedBefore
<1>2. o.ids[1] \in CommitIds
    BY <1>1, ListedIds
<1>3. Used(o.ids[1])'
    BY <1>1, <1>2, UsedStays
<1>4. ASSUME NEW k \in Keys, Publishes(k) PROVE \A i \in DOMAIN history' : history'[i] # o.ids[1]
  <2>1. writer[k].at = "prepared" /\ <<k, writer[k].try>> \in CommitIds /\ history' = Append(history, <<k, writer[k].try>>)
    BY <1>4, PublishFacts
  <2>2. o.ids[1] # <<k, writer[k].try>>
    BY <1>1, <2>1 DEF Used, Open
  <2>3. history \in Seq(CommitIds)
    BY DEF TypeOK, ObjectsTyped
  <2>4. QED
    BY <1>1, <2>1, <2>2, <2>3, AppendExtends
<1>5. PurgeObjects => DOMAIN history' = {}
    BY DEF PurgeObjects
<1>6. QED
    BY <1>1, <1>3, <1>4, <1>5, HistoryMoves

LEMMA ListedNowStays ==
    ASSUME TypeOK, StorageInv, TypeOK', StorageInv', IdsInv, ListedNow, Next, gc'.listed \subseteq gc.listed
    PROVE  ListedNow' \/ ListedBefore'
<1>1. CASE PurgeObjects
  <2> SUFFICES ASSUME NEW o \in gc'.listed, IsSnapshot(o) PROVE o.ids # <<>> /\ Used(o.ids[1])' /\ DOMAIN history' = {}
    BY DEF ListedBefore, IsSnapshot
  <2>1. o.ids # <<>> /\ history # <<>> /\ o.ids[1] = history[1] /\ o \in gc.listed
    BY DEF ListedNow
  <2>2. history \in Seq(CommitIds) /\ 1 \in DOMAIN history
    BY <2>1 DEF TypeOK, ObjectsTyped
  <2>3. Used(o.ids[1])
    BY <2>1, <2>2 DEF IdsInv
  <2>4. Used(o.ids[1])'
    BY <2>1, <2>3, ListedIds, UsedStays
  <2>5. QED
    BY <1>1, <2>1, <2>4 DEF PurgeObjects
<1>2. CASE CreateTenant
  <2>1. history = <<>>
    BY <1>2, CreateFacts
  <2>2. \A o \in gc'.listed : ~IsSnapshot(o)
    BY <2>1 DEF ListedNow
  <2>3. QED
    BY <2>2 DEF ListedNow, IsSnapshot
<1>3. CASE ~PurgeObjects /\ ~CreateTenant
  <2> SUFFICES ASSUME NEW o \in gc'.listed, IsSnapshot(o)
               PROVE  /\ o.ids # <<>> /\ history' # <<>> /\ o.ids[1] = history'[1]
                      /\ o.hi <= manifest'.version /\ (CompRuns' => o.hi <= comp'.m.version)
    BY DEF ListedNow, IsSnapshot
  <2>1. /\ o.ids # <<>> /\ history # <<>> /\ o.ids[1] = history[1] /\ o \in gc.listed
        /\ o.hi <= manifest.version /\ (CompRuns => o.hi <= comp.m.version)
    BY DEF ListedNow
  <2>2. o.hi \in Nat
    BY <2>1, ListedIds
  <2>3. history' # <<>> /\ history'[1] = history[1] /\ manifest.version <= manifest'.version
        /\ manifest.version \in Nat /\ manifest'.version \in Nat
    BY <1>3, <2>1, HistoryGrows DEF Extends
  <2>4. tenant'.generation = tenant.generation
    <3>1. BeginPurge => tenant'.generation = tenant.generation
      BY DEF BeginPurge, TypeOK, TenantTyped
    <3>2. QED
      BY <1>3, <3>1, TenantMoves
  <2>5. CompRuns' => o.hi <= comp'.m.version
    BY <2>1, <2>4, CompMoves DEF CompRuns
  <2>6. QED
    BY <2>1, <2>2, <2>3, <2>5
<1>4. QED
    BY <1>1, <1>2, <1>3

LEMMA ListedNext ==
    ASSUME TypeOK, StorageInv, TypeOK', StorageInv', IdsInv, ListedInv, tenant.phase = "active" => SnapshotsInv, Next
    PROVE  ListedInv'
<1> SUFFICES ASSUME gc'.at # "idle" PROVE ListedNow' \/ ListedBefore'
    BY DEF ListedInv
<1>1. CASE gc.at # "idle" /\ gc'.listed \subseteq gc.listed
    BY <1>1, ListedNowStays, ListedBeforeStays DEF ListedInv
<1>2. CASE /\ gc'.listed = IF tenant.phase = "active" THEN files ELSE {}
           /\ UNCHANGED <<manifest, history, comp, tenant, files>>
  <2> SUFFICES ASSUME tenant.phase = "active", NEW o \in files, IsSnapshot(o)
               PROVE  /\ o.ids # <<>> /\ history # <<>> /\ o.ids[1] = history[1]
                      /\ o.hi <= manifest.version /\ (CompRuns => o.hi <= comp.m.version)
    BY <1>2 DEF ListedNow, IsSnapshot, CompRuns
  <2>1. 0 < o.hi /\ Spells(o.ids, o.hi, history) /\ (CompRuns => o.hi <= comp.m.version)
    BY <1>2 DEF SnapshotsInv, SnapshotTrue
  <2>2. o.ids \in Seq(CommitIds) /\ o.hi \in Nat /\ history \in Seq(CommitIds) /\ manifest.version = Len(history)
    BY ObjectFields DEF TypeOK, ObjectsTyped, StorageInv, Follows
  <2>3. QED
    BY <2>1, <2>2 DEF Spells
<1>3. QED
    BY <1>1, <1>2, ListingMoves

-----------------------------------------------------------------------------
(* Tails: the commits that manifests, calls and views name.                *)

LEMMA TailKinds ==
    ASSUME NEW m, NEW h, Follows(m, h) \/ Covers(m, h), NEW o \in m.tail
    PROVE  ~IsSnapshot(o)
BY DEF Follows, Covers, Holds, IsSnapshot

\* What a visit of the sweep does.
LEMMA VisitFacts ==
    ASSUME TypeOK, StorageInv, GateInv, NEW o \in files, Visit(o)
    PROVE  /\ tenant.phase = "active" /\ lock = Sweeper /\ o \in gc.listed /\ gc.at = "sweeping"
           /\ UNCHANGED <<manifest, tenant, writer, reader, comp, history>>
           /\ Unreferenced(o, manifest) \/ Superseded(o, manifest, gc.listed) \/ Orphaned(o, manifest)
           /\ files' = files \/ (files' = files \ {o} /\ CanDelete(o))
           /\ DOMAIN retired' \subseteq DOMAIN retired \union {o}
           /\ \A p \in DOMAIN retired' : retired'[p] = IF p \in DOMAIN retired THEN retired[p] ELSE Views
<1> DEFINE table == IF CanDelete(o) THEN Restrict(retired, DOMAIN retired \ {o})
                    ELSE IF o \in DOMAIN retired \/ gc.moved
                            \/ Cardinality(DOMAIN retired) >= MaxRetired THEN retired
                    ELSE [p \in DOMAIN retired \union {o} |-> IF p = o THEN Views ELSE retired[p]]
<1>1. /\ gc.at = "sweeping" /\ o \in Unreachable(gc.m, gc.listed)
      /\ UNCHANGED <<manifest, tenant, writer, reader, comp, history>>
      /\ files' = IF CanDelete(o) THEN files \ {o} ELSE files
      /\ retired' = table \/ retired' = (IF Views = {} THEN <<>> ELSE table)
    BY DEF Visit
<1>2. lock = Sweeper /\ gc.m = manifest
    BY <1>1 DEF StorageInv, LockInv, GateInv
<1>3. tenant.phase = "active"
    BY <1>2 DEF StorageInv, LockInv
<1>4. o \in gc.listed /\ (Unreferenced(o, manifest) \/ Superseded(o, manifest, gc.listed) \/ Orphaned(o, manifest))
    BY <1>1, <1>2 DEF Unreachable
<1>5. /\ DOMAIN table \subseteq DOMAIN retired \union {o}
      /\ \A p \in DOMAIN table : table[p] = IF p \in DOMAIN retired THEN retired[p] ELSE Views
  <2>1. CASE CanDelete(o)
    <3>1. table = [p \in DOMAIN retired \ {o} |-> retired[p]]
      BY <2>1 DEF Restrict
    <3> HIDE DEF table
    <3>2. QED
      BY <3>1
  <2>2. CASE ~CanDelete(o) /\ (o \in DOMAIN retired \/ gc.moved \/ Cardinality(DOMAIN retired) >= MaxRetired)
    <3>1. table = retired
      BY <2>2
    <3> HIDE DEF table
    <3>2. QED
      BY <3>1
  <2>3. CASE ~CanDelete(o) /\ ~ (o \in DOMAIN retired \/ gc.moved \/ Cardinality(DOMAIN retired) >= MaxRetired)
    <3>1. table = [p \in DOMAIN retired \union {o} |-> IF p = o THEN Views ELSE retired[p]]
      BY <2>3
    <3> HIDE DEF table
    <3>2. QED
      BY <2>3, <3>1
  <2>4. QED
    BY <2>1, <2>2, <2>3
<1> HIDE DEF table
<1>6. DOMAIN retired' \subseteq DOMAIN table /\ \A p \in DOMAIN retired' : retired'[p] = table[p]
  <2>1. DOMAIN <<>> = {}
    OBVIOUS
  <2>2. QED
    BY <1>1, <2>1
<1>7. QED
    BY <1>1, <1>2, <1>3, <1>4, <1>5, <1>6

\* Nothing that is retired is named by the manifest.
LEMMA RetiredUnnamed ==
    ASSUME TypeOK, StorageInv, TailsInv, NoneLeft \/ SnapshotsInv, tenant.phase = "active", NEW o \in DOMAIN retired
    PROVE  ~Names(manifest, o)
<1>1. o \in manifest.tail => ~IsSnapshot(o)
    BY TailKinds DEF StorageInv
<1>2. o \notin manifest.tail
    BY <1>1 DEF TailsInv, RetiredTail
<1>3. IsSnapshot(o) /\ manifest.snap > 0 => o.hi # manifest.snap
    BY DEF NoneLeft, SnapshotsInv, RetiredSnapshot
<1>4. QED
    BY <1>2, <1>3 DEF Names

\* Nothing that a manifest, a call or a view names goes.
LEMMA TailsQuiet ==
    ASSUME TailsInv, UNCHANGED <<manifest, history>>, files \subseteq files',
           \A k \in Keys : writer'[k].at \in {"put", "prepared"} =>
             writer[k].at \in {"put", "prepared"} /\ writer'[k].next = writer[k].next /\ writer'[k].made = writer[k].made,
           \A r \in Readers : reader'[r].at = "reading" => reader'[r] = reader[r],
           DOMAIN retired' \subseteq DOMAIN retired,
           \A o \in DOMAIN retired', r \in Readers : reader'[r].at = "reading" /\ r \in retired[o] => r \in retired'[o]
    PROVE  TailsInv'
<1>1. manifest'.tail \subseteq files'
    BY DEF TailsInv
<1>2. ASSUME NEW k \in Keys PROVE WriterTail(k)'
    BY DEF TailsInv, WriterTail, IsSnapshot
<1>3. ASSUME NEW r \in Readers PROVE ReaderTail(r)'
  <2> SUFFICES ASSUME reader'[r].at = "reading"
               PROVE  Covers(reader'[r].m, history') /\ reader'[r].m.tail \subseteq files' /\ reader'[r].m.snap <= manifest'.snap
    BY DEF ReaderTail
  <2>1. reader'[r] = reader[r]
    OBVIOUS
  <2>2. Covers(reader[r].m, history) /\ reader[r].m.tail \subseteq files /\ reader[r].m.snap <= manifest.snap
    BY <2>1 DEF TailsInv, ReaderTail
  <2>3. QED
    BY <2>1, <2>2
<1>4. ASSUME NEW o \in DOMAIN retired' PROVE RetiredTail(o)'
  <2>1. RetiredTail(o)
    BY DEF TailsInv
  <2>2. ASSUME NEW r \in Readers, reader'[r].at = "reading", Names(reader'[r].m, o) PROVE r \in retired'[o]
    BY <2>1, <2>2 DEF RetiredTail
  <2>3. QED
    BY <2>1, <2>2 DEF RetiredTail, IsSnapshot, Names
<1>5. QED
    BY <1>1, <1>2, <1>3, <1>4 DEF TailsInv

LEMMA TailsVisit ==
    ASSUME TypeOK, StorageInv, GateInv, TailsInv, NEW o \in files, Visit(o)
    PROVE  TailsInv'
<1>1. /\ tenant.phase = "active" /\ lock = Sweeper
      /\ UNCHANGED <<manifest, tenant, writer, reader, comp, history>>
      /\ Unreferenced(o, manifest) \/ Superseded(o, manifest, gc.listed) \/ Orphaned(o, manifest)
      /\ files' = files \/ (files' = files \ {o} /\ CanDelete(o))
      /\ DOMAIN retired' \subseteq DOMAIN retired \union {o}
      /\ \A p \in DOMAIN retired' : retired'[p] = IF p \in DOMAIN retired THEN retired[p] ELSE Views
    BY VisitFacts
<1>2. ~IsSnapshot(o) => o \notin manifest.tail /\ o.hi <= manifest.version
    BY <1>1 DEF Unreferenced, Superseded, Orphaned, IsSnapshot
<1>3. o \notin manifest.tail
  <2>1. o \in manifest.tail => ~IsSnapshot(o)
    BY TailKinds DEF StorageInv
  <2>2. QED
    BY <1>2, <2>1
<1>4. \A k \in Keys : writer[k].at \notin {"put", "prepared"}
    BY <1>1, Roles DEF StorageInv, LockInv
<1>5. ASSUME CanDelete(o), NEW r \in Readers, reader[r].at = "reading" PROVE o \notin reader[r].m.tail
  <2>1. CASE o \in DOMAIN retired
    <3>1. retired[o] = {}
      BY <1>5, <2>1 DEF CanDelete
    <3>2. ~Names(reader[r].m, o)
      BY <1>5, <2>1, <3>1 DEF TailsInv, RetiredTail
    <3>3. QED
      BY <3>2 DEF Names
  <2>2. CASE o \notin DOMAIN retired
    <3>1. Views = {}
      BY <1>5, <2>2 DEF CanDelete
    <3>2. QED
      BY <1>5, <3>1 DEF Views
  <2>3. QED
    BY <2>1, <2>2
<1>6. manifest'.tail \subseteq files'
    BY <1>1, <1>3 DEF TailsInv
<1>7. ASSUME NEW k \in Keys PROVE WriterTail(k)'
    BY <1>1, <1>4 DEF WriterTail
<1>8. ASSUME NEW r \in Readers PROVE ReaderTail(r)'
  <2> SUFFICES ASSUME reader'[r].at = "reading"
               PROVE  Covers(reader'[r].m, history') /\ reader'[r].m.tail \subseteq files' /\ reader'[r].m.snap <= manifest'.snap
    BY DEF ReaderTail
  <2>1. reader'[r] = reader[r]
    BY <1>1
  <2>2. Covers(reader[r].m, history) /\ reader[r].m.tail \subseteq files /\ reader[r].m.snap <= manifest.snap
    BY <2>1 DEF TailsInv, ReaderTail
  <2>3. reader[r].m.tail \subseteq files'
    BY <1>1, <1>5, <2>1, <2>2
  <2>4. QED
    BY <1>1, <2>1, <2>2, <2>3
<1>9. ASSUME NEW p \in DOMAIN retired' PROVE RetiredTail(p)'
  <2>1. ~IsSnapshot(p) => p \notin manifest'.tail /\ p.hi <= manifest'.version
    BY <1>1, <1>2 DEF TailsInv, RetiredTail
  <2>2. ASSUME NEW r \in Readers, reader'[r].at = "reading", Names(reader'[r].m, p) PROVE r \in retired'[p]
    <3>1. CASE p \in DOMAIN retired
      BY <1>1, <2>2, <3>1 DEF TailsInv, RetiredTail
    <3>2. CASE p \notin DOMAIN retired
      <4>1. retired'[p] = Views
        BY <1>1, <3>2
      <4>2. r \in Views
        BY <1>1, <2>2 DEF Views
      <4>3. QED
        BY <4>1, <4>2
    <3>3. QED
      BY <3>1, <3>2
  <2>3. QED
    BY <2>1, <2>2 DEF RetiredTail, IsSnapshot, Names
<1>10. QED
    BY <1>6, <1>7, <1>8, <1>9 DEF TailsInv

LEMMA SegmentedTail ==
    ASSUME NEW m \in ManifestType
    PROVE  \A o \in Segmented(m).tail : o \in m.tail \/ o.hi = m.version
<1> DEFINE lo == Min({o.lo : o \in Loose(m)})
           commits == [i \in 1..(m.version - lo + 1) |-> TailCommit(m, lo + i - 1)]
           segment == Object("segment", lo, m.version, commits)
<1>1. segment.hi = m.version
    BY DEF Object
<1>2. CASE Cardinality(Loose(m)) < SegmentTarget
    BY <1>2 DEF Segmented
<1>3. CASE ~ (Cardinality(Loose(m)) < SegmentTarget)
  <2>1. Segmented(m) = [m EXCEPT !.tail = (m.tail \ Loose(m)) \union {segment}]
    BY <1>3 DEF Segmented
  <2> HIDE DEF segment
  <2>2. Segmented(m).tail = (m.tail \ Loose(m)) \union {segment}
    BY <2>1, ManifestFields
  <2>3. QED
    BY <1>1, <2>2
<1>4. QED
    BY <1>2, <1>3

\* The objects that a commit writes.
LEMMA PutFacts ==
    ASSUME TypeOK, Follows(manifest, history), NEW k \in Keys, PutCommit(k)
    PROVE  /\ UNCHANGED <<manifest, history, reader, retired, comp, tenant, gc>>
           /\ files \subseteq files' /\ writer'[k].next.tail \subseteq files'
           /\ \A o \in writer'[k].next.tail : o \in manifest.tail \/ o.hi = writer'[k].next.version
           /\ \A o \in writer'[k].made : ~IsSnapshot(o) /\ o.hi = writer'[k].next.version
           /\ \A o \in files' : o \in files \/ ~IsSnapshot(o)
<1> DEFINE id == <<k, writer[k].try>>
           v == manifest.version + 1
           o == Object("commit", v, v, <<id>>)
           m == [manifest EXCEPT !.version = v, !.head = id, !.tail = @ \union {o}]
           next == Segmented(m)
<1>1. /\ UNCHANGED <<manifest, history, reader, retired, comp, tenant, gc>>
      /\ files' = files \union {o} \union next.tail
      /\ writer' = [writer EXCEPT ![k].at = "put", ![k].made = {o}, ![k].next = next]
    BY DEF PutCommit
<1>2. writer \in [Keys -> WriterType] /\ writer[k] \in WriterType /\ manifest \in ManifestType /\ writer[k].try \in Nat
    BY WriterFields DEF TypeOK, CallsTyped, ObjectsTyped
<1>3. writer'[k].made = {o} /\ writer'[k].next = next
    BY <1>1, <1>2, WriterFields
<1>4. id \in CommitIds /\ v \in Nat
    BY <1>2, ManifestFields DEF CommitIds
<1>5. ~IsSnapshot(o) /\ o.hi = v /\ o \in ObjectType
  <2>1. <<id>> \in Seq(CommitIds)
    BY <1>4
  <2> HIDE DEF id, v
  <2>2. QED
    BY <1>4, <2>1 DEF Object, ObjectType, IsSnapshot
<1>6. m \in ManifestType /\ m.version = v /\ m.tail = manifest.tail \union {o}
  <2> HIDE DEF o, id, v
  <2> QED
    BY <1>2, <1>4, <1>5 DEF ManifestType
<1> HIDE DEF m, o
<1>7. \A p \in next.tail : p \in m.tail \/ p.hi = m.version
    BY <1>6, SegmentedTail
<1>8. Follows(writer'[k].next, Append(history, id)) /\ writer'[k].next.version = v
  <2>1. manifest.version = Len(history)
    BY DEF Follows
  <2>2. QED
    BY <2>1, NextFollows
<1>9. \A p \in next.tail : ~IsSnapshot(p)
    BY <1>3, <1>8, TailKinds
<1> HIDE DEF next
<1>10. \A p \in next.tail : p \in manifest.tail \/ p.hi = v
    BY <1>5, <1>6, <1>7
<1>11. QED
    BY <1>1, <1>3, <1>5, <1>8, <1>9, <1>10

LEMMA TailsPut ==
    ASSUME TypeOK, StorageInv, TailsInv, NEW k \in Keys, PutCommit(k)
    PROVE  TailsInv'
<1>1. /\ UNCHANGED <<manifest, history, reader, retired, comp, tenant, gc>>
      /\ files \subseteq files' /\ writer'[k].next.tail \subseteq files'
      /\ \A o \in writer'[k].next.tail : o \in manifest.tail \/ o.hi = writer'[k].next.version
      /\ \A o \in writer'[k].made : ~IsSnapshot(o) /\ o.hi = writer'[k].next.version
    BY PutFacts DEF StorageInv
<1>2. \A j \in Keys : j # k => writer'[j] = writer[j]
    BY WriterMoves DEF WriterStep
<1>3. ASSUME NEW j \in Keys PROVE WriterTail(j)'
  <2>1. CASE j = k
    BY <1>1, <2>1 DEF WriterTail, IsSnapshot
  <2>2. CASE j # k
    BY <1>1, <1>2, <2>2 DEF TailsInv, WriterTail, IsSnapshot
  <2>3. QED
    BY <2>1, <2>2
<1>4. ASSUME NEW r \in Readers PROVE ReaderTail(r)'
  <2> SUFFICES ASSUME reader'[r].at = "reading"
               PROVE  Covers(reader'[r].m, history') /\ reader'[r].m.tail \subseteq files' /\ reader'[r].m.snap <= manifest'.snap
    BY DEF ReaderTail
  <2>1. reader'[r] = reader[r]
    BY <1>1
  <2>2. Covers(reader[r].m, history) /\ reader[r].m.tail \subseteq files /\ reader[r].m.snap <= manifest.snap
    BY <2>1 DEF TailsInv, ReaderTail
  <2>3. QED
    BY <1>1, <2>1, <2>2
<1>5. ASSUME NEW o \in DOMAIN retired' PROVE RetiredTail(o)'
  <2>1. o \in DOMAIN retired /\ RetiredTail(o)
    BY <1>1 DEF TailsInv
  <2>2. QED
    BY <1>1, <2>1 DEF RetiredTail, IsSnapshot, Names
<1>6. QED
    BY <1>1, <1>3, <1>4, <1>5 DEF TailsInv

\* A call that fails removes its commit object, which no manifest names.
LEMMA TailsFails ==
    ASSUME TypeOK, StorageInv, TailsInv, NEW k \in Keys, CommitFails(k)
    PROVE  /\ TailsInv' /\ \A o : IsSnapshot(o) => (o \in files' <=> o \in files)
<1>1. /\ UNCHANGED <<manifest, history, reader, comp, gc, tenant>> /\ Leave(k) /\ retired' = Shrunk(k)
      /\ files' = files \/ (writer[k].at \in {"put", "prepared"} /\ files' = files \ writer[k].made)
    BY DEF CommitFails, Cleaned, Leave
<1>2. writer'[k].at = "idle" /\ \A j \in Keys : j # k => writer'[j] = writer[j]
    BY <1>1, LeaveIdles
<1>3. lock = k /\ \A j \in Keys : j # k => writer[j].at \notin {"put", "prepared"}
    BY DEF CommitFails, StorageInv, LockInv
<1>4. history \in Seq(CommitIds) /\ manifest.version = Len(history) /\ Len(history) \in Nat /\ manifest \in ManifestType
    BY DEF TypeOK, ObjectsTyped, StorageInv, Follows
<1>5. ASSUME writer[k].at \in {"put", "prepared"}, NEW o \in writer[k].made
      PROVE  ~IsSnapshot(o) /\ o.hi = Len(history) + 1
  <2>1. Follows(writer[k].next, Append(history, <<k, writer[k].try>>))
    BY <1>5 DEF StorageInv, WriterInv
  <2>2. Len(Append(history, <<k, writer[k].try>>)) = Len(history) + 1
    BY <1>4
  <2>3. QED
    BY <1>5, <2>1, <2>2 DEF TailsInv, WriterTail, Follows
<1>6. ASSUME NEW m, Covers(m, history), m.tail \subseteq files PROVE m.tail \subseteq files'
  <2>1. \A o \in m.tail : o.hi <= Len(history)
    BY <1>6 DEF Covers, Holds
  <2>2. QED
    BY <1>1, <1>4, <1>5, <1>6, <2>1
<1>7. manifest'.tail \subseteq files'
  <2>1. Covers(manifest, history)
    BY <1>4, FollowsCovers DEF StorageInv
  <2>2. QED
    BY <1>1, <1>6, <2>1 DEF TailsInv
<1>8. ASSUME NEW j \in Keys PROVE WriterTail(j)'
    BY <1>2, <1>3 DEF WriterTail
<1>9. ASSUME NEW r \in Readers PROVE ReaderTail(r)'
  <2> SUFFICES ASSUME reader'[r].at = "reading"
               PROVE  Covers(reader'[r].m, history') /\ reader'[r].m.tail \subseteq files' /\ reader'[r].m.snap <= manifest'.snap
    BY DEF ReaderTail
  <2>1. reader'[r] = reader[r]
    BY <1>1
  <2>2. Covers(reader[r].m, history) /\ reader[r].m.tail \subseteq files /\ reader[r].m.snap <= manifest.snap
    BY <2>1 DEF TailsInv, ReaderTail
  <2>3. QED
    BY <1>1, <1>6, <2>1, <2>2
<1>10. ASSUME NEW o \in DOMAIN retired' PROVE RetiredTail(o)'
  <2>1. o \in DOMAIN retired /\ RetiredTail(o)
    BY <1>1, ShrunkFacts DEF TailsInv
  <2>2. ASSUME NEW r \in Readers, reader'[r].at = "reading", Names(reader'[r].m, o) PROVE r \in retired'[o]
    <3>1. r \in retired[o] /\ r # k
      BY <1>1, <2>1, <2>2, ViewsAreDistinct DEF RetiredTail
    <3>2. QED
      BY <1>1, <3>1, ShrunkFacts
  <2>3. QED
    BY <1>1, <2>1, <2>2 DEF RetiredTail, IsSnapshot, Names
<1>11. \A o : IsSnapshot(o) => (o \in files' <=> o \in files)
    BY <1>1, <1>5
<1>12. QED
    BY <1>7, <1>8, <1>9, <1>10, <1>11 DEF TailsInv

\* The views go on to protect what they read when a call gives up its own.
LEMMA TableStays ==
    ASSUME TypeOK, NEW k \in Keys, retired' = retired \/ retired' = Shrunk(k), NEW o \in DOMAIN retired'
    PROVE  o \in DOMAIN retired /\ \A r \in Readers : r \in retired[o] => r \in retired'[o]
BY ShrunkFacts, ViewsAreDistinct

LEMMA TailsPublish ==
    ASSUME TypeOK, StorageInv, TypeOK', TailsInv, NEW k \in Keys, Publishes(k)
    PROVE  TailsInv'
<1>1. /\ writer[k].at = "prepared" /\ manifest' = writer[k].next /\ <<k, writer[k].try>> \in CommitIds
      /\ history' = Append(history, <<k, writer[k].try>>) /\ lock = k
      /\ writer'[k].at \in {"idle", "published"} /\ \A j \in Keys : j # k => writer'[j] = writer[j]
      /\ manifest'.snap = manifest.snap /\ manifest'.version = Len(history) + 1 /\ manifest.version = Len(history)
      /\ UNCHANGED <<files, reader, comp, gc, tenant>>
    BY PublishFacts
<1>2. /\ history \in Seq(CommitIds) /\ Len(history) \in Nat /\ history' \in Seq(CommitIds)
      /\ Extends(history, history')
    BY <1>1, AppendExtends DEF TypeOK, ObjectsTyped
<1>3. /\ manifest'.tail \subseteq files' /\ \A o \in manifest'.tail : o \in manifest.tail \/ o.hi = Len(history) + 1
    BY <1>1 DEF TailsInv, WriterTail
<1>4. \A j \in Keys : writer'[j].at \notin {"put", "prepared"}
    BY <1>1 DEF StorageInv, LockInv
<1>5. ASSUME NEW r \in Readers PROVE ReaderTail(r)'
  <2> SUFFICES ASSUME reader'[r].at = "reading"
               PROVE  Covers(reader'[r].m, history') /\ reader'[r].m.tail \subseteq files' /\ reader'[r].m.snap <= manifest'.snap
    BY DEF ReaderTail
  <2>1. reader'[r] = reader[r]
    BY <1>1
  <2>2. Covers(reader[r].m, history) /\ reader[r].m.tail \subseteq files /\ reader[r].m.snap <= manifest.snap
    BY <2>1 DEF TailsInv, ReaderTail
  <2>3. reader[r].m \in ManifestType
    BY DEF TypeOK, CallsTyped, ReaderType
  <2>4. Covers(reader[r].m, history')
    BY <1>2, <2>2, <2>3, CoversGrows
  <2>5. QED
    BY <1>1, <2>1, <2>2, <2>4
<1>6. ASSUME NEW o \in DOMAIN retired' PROVE RetiredTail(o)'
  <2>1. /\ o \in DOMAIN retired /\ RetiredTail(o) /\ o.hi \in Nat
        /\ \A r \in Readers : r \in retired[o] => r \in retired'[o]
    <3>1. retired' = retired \/ retired' = Shrunk(k)
      BY WriterViews DEF Publishes, WriterStep
    <3>2. o \in DOMAIN retired /\ \A r \in Readers : r \in retired[o] => r \in retired'[o]
      BY <3>1, TableStays
    <3>3. o \in ObjectType
      BY <3>2 DEF TypeOK, SweepTyped
    <3>4. QED
      BY <3>2, <3>3, ObjectFields DEF TailsInv
  <2>2. ~IsSnapshot(o) => o \notin manifest'.tail /\ o.hi <= manifest'.version
    BY <1>1, <1>2, <1>3, <2>1 DEF RetiredTail
  <2>3. ASSUME NEW r \in Readers, reader'[r].at = "reading", Names(reader'[r].m, o) PROVE r \in retired'[o]
    BY <1>1, <2>1, <2>3 DEF RetiredTail
  <2>4. QED
    BY <2>2, <2>3 DEF RetiredTail, IsSnapshot, Names
<1>7. QED
    BY <1>3, <1>4, <1>5, <1>6 DEF TailsInv, WriterTail

LEMMA TailsPublishCompaction ==
    ASSUME TypeOK, StorageInv, TypeOK', TailsInv, SnapshotsInv \/ NoneLeft, PublishCompaction
    PROVE  TailsInv'
<1>1. /\ comp.at = "locked" /\ UNCHANGED <<files, tenant, writer, reader, retired, history, gc>>
      /\ \/ manifest' = manifest
         \/ manifest.snap < comp.m.version
            /\ manifest' = [manifest EXCEPT !.snap = comp.m.version, !.tail = TailAfter(manifest, comp.m.version)]
    BY DEF PublishCompaction
<1>2. /\ manifest'.tail \subseteq manifest.tail /\ manifest'.version = manifest.version
      /\ manifest.snap <= manifest'.snap /\ manifest.snap \in Nat /\ manifest'.snap \in Nat
  <2>1. manifest \in ManifestType /\ DOMAIN manifest = {"version", "head", "snap", "tail"}
        /\ manifest.snap \in Nat /\ comp.m.version \in Nat
    BY ManifestFields, CompFields DEF TypeOK, ObjectsTyped
  <2>2. TailAfter(manifest, comp.m.version) \subseteq manifest.tail
    BY DEF TailAfter
  <2>3. CASE manifest' = manifest
    BY <2>1, <2>3
  <2>4. CASE manifest' # manifest
    <3> DEFINE tail == TailAfter(manifest, comp.m.version)
               version == comp.m.version
    <3> HIDE DEF tail, version
    <3>1. manifest.snap < version /\ manifest' = [manifest EXCEPT !.snap = version, !.tail = tail]
      BY <1>1, <2>4 DEF tail, version
    <3>2. tail \subseteq manifest.tail /\ version \in Nat
      BY <2>1, <2>2 DEF tail, version
    <3>3. manifest'.tail = tail /\ manifest'.version = manifest.version /\ manifest'.snap = version
      BY <2>1, <3>1
    <3>4. QED
      BY <2>1, <3>1, <3>2, <3>3
  <2>5. QED
    BY <2>3, <2>4
<1>3. \A k \in Keys : writer[k].at \notin {"put", "prepared"}
    BY <1>1, Roles DEF StorageInv, LockInv
<1>4. ASSUME NEW r \in Readers PROVE ReaderTail(r)'
  <2> SUFFICES ASSUME reader'[r].at = "reading"
               PROVE  Covers(reader'[r].m, history') /\ reader'[r].m.tail \subseteq files' /\ reader'[r].m.snap <= manifest'.snap
    BY DEF ReaderTail
  <2>1. reader'[r] = reader[r]
    BY <1>1
  <2>2. Covers(reader[r].m, history) /\ reader[r].m.tail \subseteq files /\ reader[r].m.snap <= manifest.snap
    BY <2>1 DEF TailsInv, ReaderTail
  <2>3. reader[r].m.snap \in Nat
    BY ManifestFields DEF TypeOK, CallsTyped, ReaderType
  <2>4. QED
    BY <1>1, <1>2, <2>1, <2>2, <2>3
<1>5. ASSUME NEW o \in DOMAIN retired' PROVE RetiredTail(o)'
  <2>1. o \in DOMAIN retired /\ RetiredTail(o)
    BY <1>1 DEF TailsInv
  <2>2. ASSUME NEW r \in Readers, reader'[r].at = "reading", Names(reader'[r].m, o) PROVE r \in retired'[o]
    BY <1>1, <2>1, <2>2 DEF RetiredTail
  <2>3. QED
    BY <1>2, <2>1, <2>2 DEF RetiredTail, IsSnapshot, Names
<1>6. QED
    BY <1>1, <1>2, <1>3, <1>4, <1>5 DEF TailsInv, WriterTail

LEMMA TailsPin ==
    ASSUME TypeOK, StorageInv, TailsInv, SnapshotsInv \/ NoneLeft, NEW r \in Readers, PinReadView(r)
    PROVE  TailsInv'
<1>1. /\ tenant.phase = "active" /\ UNCHANGED <<manifest, files, writer, retired, history>>
      /\ reader' = [reader EXCEPT ![r] = [at |-> "reading", m |-> manifest]] /\ reader \in [Readers -> ReaderType]
    BY DEF PinReadView, TypeOK, CallsTyped
<1>2. reader'[r].at = "reading" /\ reader'[r].m = manifest /\ \A q \in Readers : q # r => reader'[q] = reader[q]
    BY <1>1
<1>3. ASSUME NEW q \in Readers PROVE ReaderTail(q)'
  <2> SUFFICES ASSUME reader'[q].at = "reading"
               PROVE  Covers(reader'[q].m, history') /\ reader'[q].m.tail \subseteq files' /\ reader'[q].m.snap <= manifest'.snap
    BY DEF ReaderTail
  <2>1. CASE q # r
    <3>1. Covers(reader[q].m, history) /\ reader[q].m.tail \subseteq files /\ reader[q].m.snap <= manifest.snap
      BY <1>2, <2>1 DEF TailsInv, ReaderTail
    <3>2. QED
      BY <1>1, <1>2, <2>1, <3>1
  <2>2. CASE q = r
    <3>1. manifest.snap \in Nat /\ Len(history) \in Nat
      BY ManifestFields DEF TypeOK, ObjectsTyped
    <3>2. Covers(manifest, history)
      BY <3>1, FollowsCovers DEF StorageInv
    <3>3. QED
      BY <1>1, <1>2, <2>2, <3>1, <3>2 DEF TailsInv
  <2>3. QED
    BY <2>1, <2>2
<1>4. ASSUME NEW k \in Keys PROVE WriterTail(k)'
    BY <1>1 DEF TailsInv, WriterTail, IsSnapshot
<1>5. ASSUME NEW o \in DOMAIN retired' PROVE RetiredTail(o)'
  <2>1. o \in DOMAIN retired /\ RetiredTail(o) /\ ~Names(manifest, o)
    BY <1>1, RetiredUnnamed DEF TailsInv
  <2>2. ASSUME NEW q \in Readers, reader'[q].at = "reading", Names(reader'[q].m, o) PROVE q \in retired'[o]
    <3>1. q # r
      BY <1>2, <2>1, <2>2
    <3>2. QED
      BY <1>1, <1>2, <2>1, <2>2, <3>1 DEF RetiredTail
  <2>3. QED
    BY <1>1, <2>1, <2>2 DEF RetiredTail, IsSnapshot, Names
<1>6. QED
    BY <1>1, <1>3, <1>4, <1>5 DEF TailsInv

\* Writer steps that neither write nor publish an object.
LEMMA TailsWriter ==
    ASSUME TypeOK, StorageInv, TypeOK', TailsInv, NEW k \in Keys, BeginCommit(k) \/ WriterStep(k)
    PROVE  TailsInv'
<1>1. CASE PutCommit(k)
    BY <1>1, TailsPut
<1>2. CASE CommitFails(k)
    BY <1>2, TailsFails
<1>3. CASE Publishes(k)
    BY <1>3, TailsPublish
<1>4. CASE BeginCommit(k) \/ Reserve(k) \/ Refused(k) \/ Skip(k) \/ Prepare(k) \/ FinishIndexes(k) \/ CompleteCommit(k)
  <2>1. writer \in [Keys -> WriterType] /\ writer[k] \in WriterType /\ DOMAIN writer[k] = {"at", "try", "held", "next", "made"}
    BY WriterFields DEF TypeOK, CallsTyped
  <2>2. UNCHANGED <<manifest, history, files>>
    BY <1>4 DEF BeginCommit, Reserve, Refused, Skip, Prepare, FinishIndexes, CompleteCommit
  <2>3. UNCHANGED reader /\ (retired' = retired \/ retired' = Shrunk(k)) /\ \A j \in Keys : j # k => writer'[j] = writer[j]
    BY WriterViews, WriterMoves
  <2>4. writer'[k].at \in {"put", "prepared"} =>
          writer[k].at \in {"put", "prepared"} /\ writer'[k].next = writer[k].next /\ writer'[k].made = writer[k].made
    <3>1. Leave(k) => writer'[k].at = "idle"
      BY LeaveIdles
    <3>2. CASE Reserve(k)
      <4>1. Leave(k) \/ \E r : writer' = [writer EXCEPT ![k].at = "reserved", ![k].held = r]
        BY <3>2 DEF Reserve
      <4>2. QED
        BY <2>1, <3>1, <4>1
    <3>3. CASE Refused(k)
      BY <3>1, <3>3 DEF Refused
    <3>4. CASE Prepare(k)
      BY <2>1, <3>4 DEF Prepare
    <3>5. CASE BeginCommit(k) \/ Skip(k) \/ FinishIndexes(k) \/ CompleteCommit(k)
      BY <2>1, <3>5 DEF BeginCommit, Skip, FinishIndexes, CompleteCommit, IdleWriter
    <3>6. QED
      BY <1>4, <3>2, <3>3, <3>4, <3>5
  <2>5. \A o \in DOMAIN retired' : o \in DOMAIN retired /\ \A r \in Readers : r \in retired[o] => r \in retired'[o]
    BY <2>3, TableStays
  <2>6. QED
    BY <2>2, <2>3, <2>4, <2>5, TailsQuiet
<1>5. QED
    BY <1>1, <1>2, <1>3, <1>4 DEF WriterStep, Publishes

LEMMA TailsNext ==
    ASSUME TypeOK, StorageInv, TypeOK', GateInv, tenant.phase = "active" => TailsInv,
           NoneLeft \/ (tenant.phase = "active" => SnapshotsInv), Next, tenant'.phase = "active"
    PROVE  TailsInv'
<1>1. CASE CreateTenant
  <2>1. /\ manifest' = EmptyManifest /\ DOMAIN retired' = {} /\ \A r \in Readers : reader'[r].at = "idle"
    BY <1>1, CreateFacts DEF GateInv
  <2>2. \A k \in Keys : writer'[k].at \notin {"put", "prepared"}
    <3>1. lock = Nobody /\ UNCHANGED writer
      BY <1>1, CreateFacts
    <3>2. QED
      BY <3>1, Roles DEF StorageInv, LockInv
  <2>3. QED
    BY <2>1, <2>2 DEF TailsInv, WriterTail, ReaderTail, EmptyManifest
<1>2. CASE ~CreateTenant
  <2>1. tenant.phase = "active" /\ TailsInv /\ (NoneLeft \/ SnapshotsInv) /\ ~PurgeObjects /\ ~BeginPurge
    <3>1. tenant.phase = "active" /\ ~PurgeObjects
      BY <1>2, ActiveBefore
    <3>2. ~BeginPurge
      BY DEF BeginPurge, TypeOK, TenantTyped
    <3>3. QED
      BY <3>1, <3>2
  <2>2. ASSUME NEW r \in Readers, PinReadView(r) PROVE TailsInv'
    BY <2>1, <2>2, TailsPin
  <2>3. ASSUME NEW r \in Readers, Release(r) PROVE TailsInv'
    <3>1. UNCHANGED <<manifest, history, files, writer>> /\ retired' = Shrunk(r)
          /\ reader' = [reader EXCEPT ![r] = IdleReader] /\ reader \in [Readers -> ReaderType]
      BY <2>3 DEF Release, TypeOK, CallsTyped
    <3>2. \A q \in Readers : (q # r => reader'[q] = reader[q]) /\ (q = r => reader'[q].at = "idle")
      BY <3>1 DEF IdleReader
    <3>3. DOMAIN retired' \subseteq DOMAIN retired /\ \A o \in DOMAIN retired' : \A x : x # r /\ x \in retired[o] => x \in retired'[o]
      BY <3>1, ShrunkFacts
    <3>4. QED
      BY <2>1, <3>1, <3>2, <3>3, TailsQuiet
  <2>4. ASSUME NEW k \in Keys, BeginCommit(k) \/ WriterStep(k) PROVE TailsInv'
    BY <2>1, <2>4, TailsWriter
  <2>5. CASE StartCompaction \/ LoadGraph \/ SnapshotWritten \/ LockForPublication \/ StartGC \/ RunGC \/ \E k \in Keys : SettleRead(k) \/ SettlePut(k)
    <3>1. UNCHANGED <<manifest, history, files, writer, reader, retired>>
      BY <2>5 DEF StartCompaction, LoadGraph, SnapshotWritten, LockForPublication, StartGC, RunGC, SettleRead, SettlePut
    <3>2. QED
      BY <2>1, <3>1, TailsQuiet
  <2>6. ASSUME NEW kind \in {"pages", "record"}, PutSnapshot(kind) PROVE TailsInv'
    <3>1. UNCHANGED <<manifest, history, writer, reader>> /\ files \subseteq files'
          /\ DOMAIN retired' \subseteq DOMAIN retired /\ \A o \in DOMAIN retired' : retired'[o] = retired[o]
      BY <2>6 DEF PutSnapshot
    <3>2. QED
      BY <2>1, <3>1, TailsQuiet
  <2>7. CASE PublishCompaction
    BY <2>1, <2>7, TailsPublishCompaction
  <2>8. CASE EndGC
    <3>1. UNCHANGED <<manifest, history, files, writer, reader>> /\ retired' = (IF Views = {} THEN <<>> ELSE retired)
      BY <2>8 DEF EndGC
    <3>2. DOMAIN <<>> = {}
      OBVIOUS
    <3>3. DOMAIN retired' \subseteq DOMAIN retired /\ \A o \in DOMAIN retired' : retired'[o] = retired[o]
      BY <3>1, <3>2
    <3>4. QED
      BY <2>1, <3>1, <3>3, TailsQuiet
  <2>9. ASSUME NEW o \in files, Visit(o) PROVE TailsInv'
    BY <2>1, <2>9, TailsVisit
  <2>10. CASE Crash
    <3>1. UNCHANGED <<manifest, history, files>> /\ DOMAIN retired' = {}
          /\ (\A k \in Keys : writer'[k].at = "idle") /\ (\A r \in Readers : reader'[r].at = "idle")
      BY <2>10 DEF Crash, IdleWriter, IdleReader
    <3>2. QED
      BY <2>1, <3>1 DEF TailsInv, WriterTail, ReaderTail
  <2>11. QED
    BY <1>2, <2>1, <2>2, <2>3, <2>4, <2>5, <2>6, <2>7, <2>8, <2>9, <2>10 DEF Next, CompactionStep, SweepStep
<1>3. QED
    BY <1>1, <1>2

-----------------------------------------------------------------------------
(* Snapshots.                                                              *)

\* A step that removes no snapshot object, and after which the compaction has
\* what it had.
SnapshotsFramed ==
  /\ manifest'.snap = manifest.snap /\ UNCHANGED tenant
  /\ \A o : IsSnapshot(o) => (o \in files' <=> o \in files)
  /\ \A r \in Readers : reader'[r].at = "reading" => reader'[r] = reader[r] \/ reader'[r].m = manifest
  /\ \A o \in DOMAIN retired' : IsSnapshot(o) => o \in DOMAIN retired
  /\ CompRuns' =>
       /\ CompRuns /\ comp'.m = comp.m /\ comp'.ids = comp.ids /\ comp'.wrote = comp.wrote
       /\ comp'.at = "loading" <=> comp.at = "loading"
       /\ comp'.at \in {"settling", "replacing", "locked"} =>
            comp.at \in {"settling", "replacing", "locked"} \/ comp.wrote = {"pages", "record"}

LEMMA StoredStays ==
    ASSUME NEW A, NEW B, NEW v, \A o \in A : IsSnapshot(o) /\ o.hi = v => o \in B
    PROVE  /\ \A kind \in {"pages", "record"} : SnapshotIn(A, kind, v) # {} => SnapshotIn(B, kind, v) # {}
           /\ Stored(A, v) => Stored(B, v)
<1>1. ASSUME NEW kind \in {"pages", "record"}, SnapshotIn(A, kind, v) # {} PROVE SnapshotIn(B, kind, v) # {}
    BY <1>1 DEF SnapshotIn, IsSnapshot
<1>2. QED
    BY <1>1 DEF Stored

\* Facts about the compaction under way that follow from the types.
LEMMA CompNumbers ==
    ASSUME TypeOK, TypeOK'
    PROVE  /\ comp.m \in ManifestType /\ comp.m.version \in Nat /\ comp.ids \in Seq(CommitIds)
           /\ comp'.m \in ManifestType /\ comp'.m.version \in Nat
           /\ manifest.snap \in Nat /\ manifest.version \in Nat /\ manifest'.snap \in Nat /\ manifest'.version \in Nat
           /\ manifest \in ManifestType /\ manifest' \in ManifestType
<1>1. comp \in CompType /\ comp' \in CompType /\ manifest \in ManifestType /\ manifest' \in ManifestType
    BY DEF TypeOK, CallsTyped, ObjectsTyped
<1>2. comp.m \in ManifestType /\ comp'.m \in ManifestType /\ comp.ids \in Seq(CommitIds)
    BY <1>1 DEF CompType
<1>3. QED
    BY <1>1, <1>2, ManifestFields

\* A snapshot object of the current generation stays true.
LEMMA TrueStays ==
    ASSUME TypeOK, StorageInv, TypeOK', StorageInv', Next, ~PurgeObjects, NEW o \in files, SnapshotTrue(o),
           CompRuns' => (CompRuns /\ comp'.m = comp.m) \/ comp'.m = manifest
    PROVE  SnapshotTrue(o)'
<1>1. o.hi \in Nat /\ 0 < o.hi /\ Spells(o.ids, o.hi, history) /\ (CompRuns => o.hi <= comp.m.version)
    BY ObjectFields DEF SnapshotTrue, TypeOK, ObjectsTyped
<1>2. Spells(o.ids, o.hi, history')
    BY <1>1, HistoryGrows, SpellsGrows
<1>3. o.hi <= manifest.version
    BY <1>1, HistoryGrows DEF Spells
<1>4. CompRuns' => o.hi <= comp'.m.version
    BY <1>1, <1>3
<1>5. QED
    BY <1>1, <1>2, <1>4 DEF SnapshotTrue

LEMMA RetiredStays ==
    ASSUME TypeOK, StorageInv, TypeOK', StorageInv', Next, ~PurgeObjects, NEW o \in ObjectType, RetiredSnapshot(o),
           manifest'.snap = manifest.snap,
           CompRuns' => (CompRuns /\ comp'.m = comp.m) \/ comp'.m = manifest
    PROVE  RetiredSnapshot(o)'
<1>1. o.hi \in Nat /\ o.hi # manifest.snap /\ o.hi < manifest.version /\ (CompRuns => o.hi < comp.m.version)
    BY ObjectFields DEF RetiredSnapshot
<1>2. manifest.version \in Nat /\ manifest'.version \in Nat /\ manifest.version <= manifest'.version
    BY HistoryGrows
<1>3. CompRuns' => o.hi < comp'.m.version
    BY <1>1
<1>4. QED
    BY <1>1, <1>2, <1>3 DEF RetiredSnapshot

LEMMA CompSnapshotFramed ==
    ASSUME TypeOK, StorageInv, TypeOK', StorageInv', Next, ~PurgeObjects, CompSnapshot, SnapshotsFramed
    PROVE  CompSnapshot'
<1> SUFFICES ASSUME CompRuns'
             PROVE  /\ Covers(comp'.m, history') /\ 0 < comp'.m.version /\ manifest'.snap <= comp'.m.version
                    /\ IF comp'.at = "loading" THEN comp'.wrote = {} ELSE Spells(comp'.ids, comp'.m.version, history')
                    /\ comp'.at \in {"settling", "replacing", "locked"} => comp'.wrote = {"pages", "record"}
                    /\ manifest'.snap < comp'.m.version =>
                         \A kind \in comp'.wrote : SnapshotIn(files', kind, comp'.m.version) # {}
    BY DEF CompSnapshot, SnapshotIn
<1>1. /\ CompRuns /\ comp'.m = comp.m /\ comp'.ids = comp.ids /\ comp'.wrote = comp.wrote
      /\ comp'.at = "loading" <=> comp.at = "loading"
      /\ comp'.at \in {"settling", "replacing", "locked"} =>
           comp.at \in {"settling", "replacing", "locked"} \/ comp.wrote = {"pages", "record"}
      /\ manifest'.snap = manifest.snap /\ \A o : IsSnapshot(o) => (o \in files' <=> o \in files)
    BY DEF SnapshotsFramed
<1>2. /\ Covers(comp.m, history) /\ 0 < comp.m.version /\ manifest.snap <= comp.m.version
      /\ IF comp.at = "loading" THEN comp.wrote = {} ELSE Spells(comp.ids, comp.m.version, history)
      /\ comp.at \in {"settling", "replacing", "locked"} => comp.wrote = {"pages", "record"}
      /\ manifest.snap < comp.m.version => \A kind \in comp.wrote : SnapshotIn(files, kind, comp.m.version) # {}
    BY <1>1 DEF CompSnapshot
<1>3. Covers(comp.m, history')
    BY <1>2, CompNumbers, HistoryGrows, CoversGrows
<1>4. comp.at # "loading" => Spells(comp.ids, comp.m.version, history')
    BY <1>2, CompNumbers, HistoryGrows, SpellsGrows
<1>5. \A kind \in {"pages", "record"} : SnapshotIn(files, kind, comp.m.version) # {} => SnapshotIn(files', kind, comp.m.version) # {}
    BY <1>1 DEF SnapshotIn, IsSnapshot
<1>6. comp.wrote \subseteq {"pages", "record"}
    BY DEF TypeOK, CallsTyped, CompType
<1>7. manifest'.snap < comp'.m.version => \A kind \in comp'.wrote : SnapshotIn(files', kind, comp'.m.version) # {}
    BY <1>1, <1>2, <1>5, <1>6
<1>8. QED
    BY <1>1, <1>2, <1>3, <1>4, <1>7

LEMMA SnapshotsQuiet ==
    ASSUME TypeOK, StorageInv, TypeOK', StorageInv', Next, ~PurgeObjects, SnapshotsInv, SnapshotsFramed
    PROVE  SnapshotsInv'
<1>1. /\ manifest'.snap = manifest.snap /\ \A o : IsSnapshot(o) => (o \in files' <=> o \in files)
      /\ \A r \in Readers : reader'[r].at = "reading" => reader'[r] = reader[r] \/ reader'[r].m = manifest
      /\ \A o \in DOMAIN retired' : IsSnapshot(o) => o \in DOMAIN retired
      /\ CompRuns' => CompRuns /\ comp'.m = comp.m
    BY DEF SnapshotsFramed
<1>2. \A v : Stored(files, v) => Stored(files', v)
    BY <1>1, StoredStays
<1>3. manifest'.snap > 0 => Stored(files', manifest'.snap)
    BY <1>1, <1>2 DEF SnapshotsInv
<1>4. ASSUME NEW r \in Readers, reader'[r].at = "reading", reader'[r].m.snap > 0 PROVE Stored(files', reader'[r].m.snap)
    BY <1>1, <1>2, <1>4 DEF SnapshotsInv
<1>5. ASSUME NEW o \in files', IsSnapshot(o) PROVE SnapshotTrue(o)'
  <2>1. o \in files /\ SnapshotTrue(o)
    BY <1>1, <1>5 DEF SnapshotsInv
  <2>2. QED
    BY <1>1, <2>1, TrueStays
<1>6. CompSnapshot'
    BY CompSnapshotFramed DEF SnapshotsInv
<1>7. ASSUME NEW o \in DOMAIN retired', IsSnapshot(o) PROVE RetiredSnapshot(o)'
  <2>1. o \in DOMAIN retired /\ RetiredSnapshot(o)
    BY <1>1, <1>7 DEF SnapshotsInv
  <2>2. o \in ObjectType
    BY <2>1 DEF TypeOK, SweepTyped
  <2>3. QED
    BY <1>1, <2>1, <2>2, RetiredStays
<1>8. QED
    BY <1>3, <1>4, <1>5, <1>6, <1>7 DEF SnapshotsInv, Stored, SnapshotIn, IsSnapshot

LEMMA SnapshotsLoad ==
    ASSUME TypeOK, StorageInv, TypeOK', StorageInv', Next, ~PurgeObjects, tenant.phase = "active", SnapshotsInv,
           StartCompaction \/ LoadGraph
    PROVE  SnapshotsInv'
<1>1. UNCHANGED <<manifest, files, tenant, reader, retired, history>>
    BY DEF StartCompaction, LoadGraph
<1>2. DOMAIN comp = {"at", "m", "ids", "fence", "wrote", "todo", "key", "seen", "settled"} /\ IdleComp.at = "idle"
    BY CompFields DEF IdleComp
<1>3. CompRuns' => (CompRuns /\ comp'.m = comp.m) \/ comp'.m = manifest
    BY <1>1, CompMoves DEF CompRuns
<1>4. ASSUME NEW o \in files', IsSnapshot(o) PROVE SnapshotTrue(o)'
  <2>1. o \in files /\ SnapshotTrue(o)
    BY <1>1, <1>4 DEF SnapshotsInv
  <2>2. QED
    BY <1>3, <2>1, TrueStays
<1>5. ASSUME NEW o \in DOMAIN retired', IsSnapshot(o) PROVE RetiredSnapshot(o)'
  <2>1. o \in DOMAIN retired /\ RetiredSnapshot(o)
    BY <1>1, <1>5 DEF SnapshotsInv
  <2>2. o \in ObjectType
    BY <2>1 DEF TypeOK, SweepTyped
  <2>3. QED
    BY <1>1, <1>3, <2>1, <2>2, RetiredStays
<1>6. CompSnapshot'
  <2> SUFFICES ASSUME CompRuns'
               PROVE  /\ Covers(comp'.m, history') /\ 0 < comp'.m.version /\ manifest'.snap <= comp'.m.version
                      /\ IF comp'.at = "loading" THEN comp'.wrote = {} ELSE Spells(comp'.ids, comp'.m.version, history')
                      /\ comp'.at \in {"settling", "replacing", "locked"} => comp'.wrote = {"pages", "record"}
                      /\ manifest'.snap < comp'.m.version =>
                           \A kind \in comp'.wrote : SnapshotIn(files', kind, comp'.m.version) # {}
    BY DEF CompSnapshot, SnapshotIn
  <2>1. Covers(manifest, history) /\ manifest.snap <= manifest.version
    BY HistoryGrows, FollowsCovers DEF StorageInv, Follows
  <2>2. CASE StartCompaction
    <3>1. comp'.m = manifest /\ comp'.at = "loading" /\ comp'.wrote = {} /\ manifest.version > 0
      BY <2>2 DEF StartCompaction, IdleComp
    <3>2. 0 < manifest.version
      BY <3>1, CompNumbers
    <3>3. QED
      BY <1>1, <2>1, <3>1, <3>2
  <2>3. CASE LoadGraph
    <3>1. comp.at = "loading" /\ comp.at # "idle" /\ comp'.at # "idle"
      BY <2>3 DEF LoadGraph, CompRuns
    <3>2. CompRuns
      <4>1. comp'.fence = comp.fence
        BY <2>3, <3>1, CompMoves DEF StartCompaction
      <4>2. QED
        BY <1>1, <3>1, <4>1 DEF CompRuns
    <3>3. Covers(comp.m, history) /\ 0 < comp.m.version /\ manifest.snap <= comp.m.version /\ comp.wrote = {}
      BY <3>1, <3>2 DEF SnapshotsInv, CompSnapshot
    <3>4. \/ comp' = [comp EXCEPT !.m = manifest]
          \/ Complete(comp.m) /\ comp' = [comp EXCEPT !.at = "writing", !.ids = GraphOf(comp.m)]
      BY <1>2, <2>3, <3>1 DEF LoadGraph
    <3>5. CASE comp' = [comp EXCEPT !.m = manifest]
      <4>1. comp'.m = manifest /\ comp'.at = "loading" /\ comp'.wrote = {}
        BY <1>2, <3>1, <3>3, <3>5
      <4>2. 0 < manifest.version
        BY <3>3, CompNumbers, HistoryGrows DEF Covers
      <4>3. QED
        BY <1>1, <2>1, <4>1, <4>2
    <3>6. CASE Complete(comp.m) /\ comp' = [comp EXCEPT !.at = "writing", !.ids = GraphOf(comp.m)]
      <4>1. comp'.m = comp.m /\ comp'.at = "writing" /\ comp'.wrote = {} /\ comp'.ids = GraphOf(comp.m)
        <5> DEFINE graph == GraphOf(comp.m)
        <5>1. comp' = [comp EXCEPT !.at = "writing", !.ids = graph]
          BY <3>6
        <5> HIDE DEF graph
        <5>2. comp'.m = comp.m /\ comp'.at = "writing" /\ comp'.wrote = {} /\ comp'.ids = graph
          BY <1>2, <3>3, <5>1
        <5>3. QED
          BY <5>2 DEF graph
      <4>2. \A o \in SnapshotIn(files, "pages", comp.m.snap) : comp.m.snap > 0 => Spells(o.ids, comp.m.snap, history)
        <5>1. \A o \in SnapshotIn(files, "pages", comp.m.snap) : o \in files /\ IsSnapshot(o) /\ o.hi = comp.m.snap
          BY DEF SnapshotIn, IsSnapshot
        <5>2. QED
          BY <5>1 DEF SnapshotsInv, SnapshotTrue
      <4>3. files \subseteq ObjectType
        BY DEF TypeOK, ObjectsTyped
      <4>4. Spells(GraphOf(comp.m), comp.m.version, history)
        BY <3>3, <3>6, <4>2, <4>3, CompNumbers, HistoryGrows, GraphSpells
      <4>5. QED
        BY <1>1, <3>3, <4>1, <4>4
    <3>7. QED
      BY <3>4, <3>5, <3>6
  <2>4. QED
    BY <2>2, <2>3
<1>7. QED
    BY <1>1, <1>4, <1>5, <1>6 DEF SnapshotsInv, Stored, SnapshotIn, IsSnapshot

LEMMA SnapshotsPublishCompaction ==
    ASSUME TypeOK, StorageInv, TypeOK', StorageInv', Next, ~PurgeObjects, SnapshotsInv, PublishCompaction
    PROVE  SnapshotsInv'
<1>1. /\ comp.at = "locked" /\ UNCHANGED <<files, tenant, reader, retired, history>> /\ comp' = IdleComp
      /\ \/ manifest' = manifest
         \/ manifest.snap < comp.m.version
            /\ manifest' = [manifest EXCEPT !.snap = comp.m.version, !.tail = TailAfter(manifest, comp.m.version)]
    BY DEF PublishCompaction, StopCompaction
<1>2. CompRuns /\ ~CompRuns'
    BY <1>1 DEF StorageInv, CompInv, CompRuns, IdleComp
<1>3. CASE manifest' = manifest
  <2>1. SnapshotsFramed
    BY <1>1, <1>2, <1>3 DEF SnapshotsFramed
  <2>2. QED
    BY <2>1, SnapshotsQuiet
<1>4. CASE manifest' # manifest
  <2>1. manifest'.snap = comp.m.version /\ manifest.snap < comp.m.version /\ manifest'.version = manifest.version
    <3> DEFINE tail == TailAfter(manifest, comp.m.version)
               version == comp.m.version
    <3>1. manifest.snap < version /\ manifest' = [manifest EXCEPT !.snap = version, !.tail = tail]
      BY <1>1, <1>4
    <3> HIDE DEF tail, version
    <3>2. DOMAIN manifest = {"version", "head", "snap", "tail"}
      BY ManifestFields DEF TypeOK, ObjectsTyped
    <3>3. manifest'.snap = version /\ manifest.snap < version /\ manifest'.version = manifest.version
      BY <3>1, <3>2
    <3>4. QED
      BY <3>3 DEF version
  <2>2. Stored(files, comp.m.version)
    <3>1. comp.wrote = {"pages", "record"} /\ \A kind \in comp.wrote : SnapshotIn(files, kind, comp.m.version) # {}
      BY <1>1, <1>2, <2>1 DEF SnapshotsInv, CompSnapshot
    <3>2. QED
      BY <3>1 DEF Stored
  <2>3. ASSUME NEW o \in files', IsSnapshot(o) PROVE SnapshotTrue(o)'
    <3>1. o \in files /\ SnapshotTrue(o)
      BY <1>1, <2>3 DEF SnapshotsInv
    <3>2. QED
      BY <1>2, <3>1, TrueStays
  <2>4. ASSUME NEW o \in DOMAIN retired', IsSnapshot(o) PROVE RetiredSnapshot(o)'
    <3>1. o \in DOMAIN retired /\ o.hi < manifest.version /\ o.hi < comp.m.version
      BY <1>1, <1>2, <2>4 DEF SnapshotsInv, RetiredSnapshot
    <3>2. o.hi \in Nat
      BY <3>1, ObjectFields DEF TypeOK, SweepTyped
    <3>3. o.hi # comp.m.version
      BY <3>1, <3>2, CompNumbers
    <3>4. QED
      BY <1>2, <2>1, <3>1, <3>3 DEF RetiredSnapshot
  <2>5. CompSnapshot'
    BY <1>2 DEF CompSnapshot
  <2>6. QED
    BY <1>1, <2>1, <2>2, <2>3, <2>4, <2>5 DEF SnapshotsInv, Stored, SnapshotIn, IsSnapshot
<1>5. QED
    BY <1>3, <1>4

\* What a snapshot put by a compaction of the current generation holds.
LEMMA SnapshotsPut ==
    ASSUME TypeOK, StorageInv, TypeOK', StorageInv', Next, ~PurgeObjects, SnapshotsInv, CompRuns,
           NEW kind \in {"pages", "record"}, PutSnapshot(kind)
    PROVE  SnapshotsInv'
<1> DEFINE o == Object(kind, 1, comp.m.version, comp.ids)
           there == SnapshotIn(files, kind, comp.m.version)
<1>1. /\ comp.at = "writing" /\ UNCHANGED <<manifest, tenant, reader, history>>
      /\ IF there \subseteq {o} THEN comp' = [comp EXCEPT !.wrote = @ \union {kind}] ELSE comp' = IdleComp
      /\ IF there = {} THEN files' = files \union {o} ELSE files' = files
      /\ DOMAIN retired' \subseteq DOMAIN retired
    BY DEF PutSnapshot, StopCompaction, Object
<1>2. DOMAIN comp = {"at", "m", "ids", "fence", "wrote", "todo", "key", "seen", "settled"} /\ IdleComp.at = "idle"
    BY CompFields DEF IdleComp
<1>3. /\ Covers(comp.m, history) /\ 0 < comp.m.version /\ manifest.snap <= comp.m.version
      /\ Spells(comp.ids, comp.m.version, history)
      /\ manifest.snap < comp.m.version => \A j \in comp.wrote : SnapshotIn(files, j, comp.m.version) # {}
    BY <1>1 DEF SnapshotsInv, CompSnapshot
<1>4. o.hi = comp.m.version /\ o.ids = comp.ids /\ o.kind = kind
    BY DEF Object
<1>5. files \subseteq files' /\ \A p \in files' : p \in files \/ p = o
    BY <1>1
<1>6. there \subseteq {o} => SnapshotIn(files', kind, comp.m.version) # {}
  <2>1. CASE there = {}
    <3>1. o \in files'
      BY <1>1, <2>1
    <3>2. QED
      BY <1>4, <3>1 DEF SnapshotIn
  <2>2. CASE there # {}
    BY <1>5, <2>2 DEF SnapshotIn
  <2>3. QED
    BY <2>1, <2>2
<1>7. CompRuns' => comp'.m = comp.m /\ comp'.ids = comp.ids /\ comp'.at = "writing" /\ there \subseteq {o}
                   /\ comp'.wrote = comp.wrote \union {kind}
  <2> HIDE DEF there, o
  <2> QED
    BY <1>1, <1>2 DEF CompRuns
<1> HIDE DEF there, o
<1>8. \A j, v : SnapshotIn(files, j, v) # {} => SnapshotIn(files', j, v) # {}
    BY <1>5 DEF SnapshotIn
<1>9. ASSUME NEW p \in files', IsSnapshot(p) PROVE SnapshotTrue(p)'
  <2>1. CASE p \in files
    <3>1. SnapshotTrue(p)
      BY <1>9, <2>1 DEF SnapshotsInv
    <3>2. QED
      BY <1>7, <2>1, <3>1, TrueStays
  <2>2. CASE p = o
    <3>1. CompRuns' => comp.m.version <= comp'.m.version
      BY <1>7, CompNumbers
    <3>2. QED
      BY <1>1, <1>3, <1>4, <2>2, <3>1 DEF SnapshotTrue
  <2>3. QED
    BY <1>5, <2>1, <2>2
<1>10. ASSUME NEW p \in DOMAIN retired', IsSnapshot(p) PROVE RetiredSnapshot(p)'
  <2>1. p \in DOMAIN retired /\ RetiredSnapshot(p)
    BY <1>1, <1>10 DEF SnapshotsInv
  <2>2. p \in ObjectType
    BY <2>1 DEF TypeOK, SweepTyped
  <2>3. QED
    BY <1>1, <1>7, <2>1, <2>2, RetiredStays
<1>11. CompSnapshot'
  <2> SUFFICES ASSUME CompRuns'
               PROVE  /\ Covers(comp'.m, history') /\ 0 < comp'.m.version /\ manifest'.snap <= comp'.m.version
                      /\ IF comp'.at = "loading" THEN comp'.wrote = {} ELSE Spells(comp'.ids, comp'.m.version, history')
                      /\ comp'.at \in {"settling", "replacing", "locked"} => comp'.wrote = {"pages", "record"}
                      /\ manifest'.snap < comp'.m.version =>
                           \A j \in comp'.wrote : SnapshotIn(files', j, comp'.m.version) # {}
    BY DEF CompSnapshot, SnapshotIn
  <2>1. comp'.m = comp.m /\ comp'.ids = comp.ids /\ comp'.at = "writing" /\ comp'.wrote = comp.wrote \union {kind}
        /\ SnapshotIn(files', kind, comp.m.version) # {}
    BY <1>6, <1>7
  <2>2. manifest.snap < comp.m.version => \A j \in comp'.wrote : SnapshotIn(files', j, comp.m.version) # {}
    BY <1>3, <1>8, <2>1
  <2>3. QED
    BY <1>1, <1>3, <2>1, <2>2
<1>12. QED
    BY <1>1, <1>8, <1>9, <1>10, <1>11 DEF SnapshotsInv, Stored, IsSnapshot

\* A snapshot that the sweep finds unreachable is older than the one that a
\* compaction makes.
LEMMA VisitedSnapshot ==
    ASSUME TypeOK, StorageInv, SnapshotsInv, ListedInv, GateInv, NEW o \in files, Visit(o), IsSnapshot(o)
    PROVE  RetiredSnapshot(o)
<1>1. o \in gc.listed /\ gc.at # "idle" /\ (Superseded(o, manifest, gc.listed) \/ Orphaned(o, manifest))
    BY VisitFacts DEF Unreferenced
<1>2. o.hi \in Nat /\ 0 < o.hi /\ Spells(o.ids, o.hi, history) /\ o.ids \in Seq(CommitIds)
    BY ObjectFields DEF SnapshotsInv, SnapshotTrue, TypeOK, ObjectsTyped
<1>3. /\ comp.m.version \in Nat /\ manifest.snap \in Nat /\ manifest.version \in Nat
      /\ manifest.snap <= manifest.version /\ manifest.version = Len(history) /\ history \in Seq(CommitIds)
    BY ManifestFields, CompFields DEF TypeOK, ObjectsTyped, StorageInv, Follows
<1>4. CASE Orphaned(o, manifest)
  <2>1. o.hi < manifest.snap /\ (CompRuns => manifest.snap <= comp.m.version)
    BY <1>4 DEF Orphaned, SnapshotsInv, CompSnapshot
  <2>2. QED
    BY <1>2, <1>3, <2>1 DEF RetiredSnapshot
<1>5. CASE Superseded(o, manifest, gc.listed)
  <2> DEFINE newer == {p \in gc.listed : p.kind = "record" /\ p.hi > o.hi}
  <2>1. o.hi # manifest.snap /\ Cardinality(newer) >= Keep
    BY <1>5 DEF Superseded
  <2>2. newer # {}
    <3> HIDE DEF newer
    <3> SUFFICES ASSUME newer = {} PROVE FALSE
      OBVIOUS
    <3>1. Cardinality(newer) = 0
      BY NoneCounted
    <3>2. QED
      BY <2>1, <3>1, SizesAreCounts
  <2>3. PICK p \in gc.listed : p.kind = "record" /\ p.hi > o.hi
    BY <2>2
  <2>4. IsSnapshot(p) /\ p.hi \in Nat
    BY <2>3, GCFields, ObjectFields DEF IsSnapshot
  <2>5. ~ListedBefore
    <3>1. o.ids[1] = history[1] /\ 1 \in DOMAIN history
      BY <1>2, <1>3 DEF Spells
    <3>2. QED
      BY <1>1, <3>1 DEF ListedBefore
  <2>6. p.hi <= manifest.version /\ (CompRuns => p.hi <= comp.m.version)
    BY <1>1, <2>3, <2>4, <2>5 DEF ListedInv, ListedNow
  <2>7. QED
    BY <1>2, <1>3, <2>1, <2>3, <2>4, <2>6 DEF RetiredSnapshot
<1>6. QED
    BY <1>1, <1>4, <1>5

LEMMA SnapshotsVisit ==
    ASSUME TypeOK, StorageInv, TypeOK', StorageInv', Next, ~PurgeObjects, TailsInv, SnapshotsInv, ListedInv, GateInv,
           NEW o \in files, Visit(o)
    PROVE  SnapshotsInv'
<1>1. /\ UNCHANGED <<manifest, tenant, writer, reader, comp, history>>
      /\ files' = files \/ (files' = files \ {o} /\ CanDelete(o))
      /\ DOMAIN retired' \subseteq DOMAIN retired \union {o}
    BY VisitFacts
<1>2. CompRuns' <=> CompRuns
    BY <1>1 DEF CompRuns
<1>3. \A v : v # o.hi \/ ~IsSnapshot(o) =>
        /\ \A kind \in {"pages", "record"} : SnapshotIn(files, kind, v) # {} => SnapshotIn(files', kind, v) # {}
        /\ Stored(files, v) => Stored(files', v)
  <2> TAKE v
  <2> HAVE v # o.hi \/ ~IsSnapshot(o)
  <2>1. \A p \in files : IsSnapshot(p) /\ p.hi = v => p \in files'
    BY <1>1
  <2>2. QED
    BY <2>1, StoredStays
<1>4. IsSnapshot(o) => RetiredSnapshot(o)
    BY VisitedSnapshot
<1>5. manifest'.snap > 0 => Stored(files', manifest'.snap)
    BY <1>1, <1>3, <1>4 DEF SnapshotsInv, RetiredSnapshot
<1>6. ASSUME NEW r \in Readers, reader'[r].at = "reading", reader'[r].m.snap > 0 PROVE Stored(files', reader'[r].m.snap)
  <2>1. reader'[r] = reader[r] /\ Stored(files, reader[r].m.snap)
    BY <1>1, <1>6 DEF SnapshotsInv
  <2>2. CASE files' = files
    BY <2>1, <2>2
  <2>3. CASE CanDelete(o)
    <3>1. o \in DOMAIN retired /\ retired[o] = {}
      <4>1. r \in Views
        BY <1>6, <2>1 DEF Views
      <4>2. QED
        BY <2>3, <4>1 DEF CanDelete
    <3>2. ~Names(reader[r].m, o)
      BY <1>6, <2>1, <3>1 DEF TailsInv, RetiredTail
    <3>3. reader[r].m.snap # o.hi \/ ~IsSnapshot(o)
      BY <1>6, <2>1, <3>2 DEF Names
    <3>4. QED
      BY <1>3, <2>1, <3>3
  <2>4. QED
    BY <1>1, <2>2, <2>3
<1>7. ASSUME NEW p \in files', IsSnapshot(p) PROVE SnapshotTrue(p)'
  <2>1. p \in files /\ SnapshotTrue(p)
    BY <1>1, <1>7 DEF SnapshotsInv
  <2>2. QED
    BY <1>1, <1>2, <2>1, TrueStays
<1>8. ASSUME NEW p \in DOMAIN retired', IsSnapshot(p) PROVE RetiredSnapshot(p)'
  <2>1. RetiredSnapshot(p)
    BY <1>1, <1>4, <1>8 DEF SnapshotsInv
  <2>2. QED
    BY <1>1, <1>2, <2>1 DEF RetiredSnapshot
<1>9. CompSnapshot'
  <2> SUFFICES ASSUME CompRuns'
               PROVE  /\ Covers(comp'.m, history') /\ 0 < comp'.m.version /\ manifest'.snap <= comp'.m.version
                      /\ IF comp'.at = "loading" THEN comp'.wrote = {} ELSE Spells(comp'.ids, comp'.m.version, history')
                      /\ comp'.at \in {"settling", "replacing", "locked"} => comp'.wrote = {"pages", "record"}
                      /\ manifest'.snap < comp'.m.version =>
                           \A j \in comp'.wrote : SnapshotIn(files', j, comp'.m.version) # {}
    BY DEF CompSnapshot, SnapshotIn
  <2>1. /\ Covers(comp.m, history) /\ 0 < comp.m.version /\ manifest.snap <= comp.m.version
        /\ IF comp.at = "loading" THEN comp.wrote = {} ELSE Spells(comp.ids, comp.m.version, history)
        /\ comp.at \in {"settling", "replacing", "locked"} => comp.wrote = {"pages", "record"}
        /\ manifest.snap < comp.m.version => \A j \in comp.wrote : SnapshotIn(files, j, comp.m.version) # {}
    BY <1>2 DEF SnapshotsInv, CompSnapshot
  <2>2. IsSnapshot(o) => comp.m.version # o.hi
    <3>1. o.hi \in Nat /\ comp.m.version \in Nat
      BY ObjectFields, CompNumbers DEF TypeOK, ObjectsTyped
    <3>2. QED
      BY <1>2, <1>4, <3>1 DEF RetiredSnapshot
  <2>3. comp.wrote \subseteq {"pages", "record"}
    BY DEF TypeOK, CallsTyped, CompType
  <2>4. \A j \in comp.wrote : SnapshotIn(files, j, comp.m.version) # {} => SnapshotIn(files', j, comp.m.version) # {}
    BY <1>3, <2>2, <2>3
  <2>5. QED
    BY <1>1, <2>1, <2>4
<1>10. QED
    BY <1>5, <1>6, <1>7, <1>8, <1>9 DEF SnapshotsInv, Stored, SnapshotIn, IsSnapshot

LEMMA SnapshotsNext ==
    ASSUME TypeOK, StorageInv, TypeOK', StorageInv', GateInv, StaleInv, ListedInv, WritesOwnSnapshots, ~NoneLeft,
           tenant.phase = "active" => TailsInv /\ SnapshotsInv, Next, tenant'.phase = "active"
    PROVE  SnapshotsInv'
<1>1. CASE CreateTenant
  <2>1. /\ manifest'.snap = 0 /\ files' = {} /\ DOMAIN retired' = {} /\ \A r \in Readers : reader'[r].at = "idle"
        /\ ~CompRuns'
    BY <1>1, CreateFacts DEF GateInv, EmptyManifest
  <2>2. QED
    BY <2>1 DEF SnapshotsInv, CompSnapshot
<1>2. CASE ~CreateTenant
  <2>1. tenant.phase = "active" /\ UNCHANGED tenant /\ TailsInv /\ SnapshotsInv /\ ~PurgeObjects /\ ~BeginPurge
    <3>1. tenant.phase = "active" /\ UNCHANGED tenant /\ ~PurgeObjects
      BY <1>2, ActiveBefore
    <3>2. ~BeginPurge
      BY DEF BeginPurge, TypeOK, TenantTyped
    <3>3. QED
      BY <3>1, <3>2
  <2>2. ASSUME manifest'.snap = manifest.snap, UNCHANGED comp, \A o : IsSnapshot(o) => (o \in files' <=> o \in files),
               \A r \in Readers : reader'[r].at = "reading" => reader'[r] = reader[r] \/ reader'[r].m = manifest,
               DOMAIN retired' \subseteq DOMAIN retired
        PROVE  SnapshotsInv'
    <3>1. SnapshotsFramed
      BY <2>1, <2>2 DEF SnapshotsFramed, CompRuns
    <3>2. QED
      BY <2>1, <3>1, SnapshotsQuiet
  <2>3. ASSUME NEW r \in Readers, PinReadView(r) PROVE SnapshotsInv'
    <3>1. UNCHANGED <<manifest, files, retired, comp>> /\ reader \in [Readers -> ReaderType]
          /\ reader' = [reader EXCEPT ![r] = [at |-> "reading", m |-> manifest]]
      BY <2>3 DEF PinReadView, TypeOK, CallsTyped
    <3>2. \A q \in Readers : reader'[q] = reader[q] \/ reader'[q].m = manifest
      BY <3>1
    <3>3. QED
      BY <2>2, <3>1, <3>2
  <2>4. ASSUME NEW r \in Readers, Release(r) PROVE SnapshotsInv'
    <3>1. UNCHANGED <<manifest, files, comp>> /\ reader \in [Readers -> ReaderType]
          /\ reader' = [reader EXCEPT ![r] = IdleReader] /\ DOMAIN retired' \subseteq DOMAIN retired
      BY <2>4, ShrunkFacts DEF Release, TypeOK, CallsTyped
    <3>2. \A q \in Readers : reader'[q].at = "reading" => reader'[q] = reader[q]
      BY <3>1 DEF IdleReader
    <3>3. QED
      BY <2>2, <3>1, <3>2
  <2>5. ASSUME NEW k \in Keys, BeginCommit(k) \/ WriterStep(k) PROVE SnapshotsInv'
    <3>1. UNCHANGED <<reader, comp>> /\ DOMAIN retired' \subseteq DOMAIN retired
      BY <2>5, WriterViews, ShrunkFacts
    <3>2. manifest'.snap = manifest.snap
      <4>1. ~PublishCompaction
        BY <2>5, <3>1 DEF PublishCompaction, StopCompaction, IdleComp
      <4>2. QED
        BY <2>1, <4>1, SnapMoves
    <3>3. \A o : IsSnapshot(o) => (o \in files' <=> o \in files)
      <4>1. CASE PutCommit(k)
        <5>1. files \subseteq files' /\ \A o \in files' : o \in files \/ ~IsSnapshot(o)
          BY <4>1, PutFacts DEF StorageInv
        <5>2. QED
          BY <5>1
      <4>2. CASE CommitFails(k)
        BY <2>1, <4>2, TailsFails
      <4>3. CASE ~PutCommit(k) /\ ~CommitFails(k)
        BY <2>5, <4>3 DEF BeginCommit, WriterStep, Reserve, Refused, Skip, Prepare, Publish, PublishUnanswered,
             FinishIndexes, CompleteCommit
      <4>4. QED
        BY <4>1, <4>2, <4>3
    <3>4. QED
      BY <2>2, <3>1, <3>2, <3>3
  <2>6. CASE StartCompaction \/ LoadGraph
    BY <2>1, <2>6, SnapshotsLoad
  <2>7. CASE SnapshotWritten \/ LockForPublication \/ \E k \in Keys : SettleRead(k) \/ SettlePut(k)
    <3>1. UNCHANGED <<manifest, files, reader, retired>>
      BY <2>7 DEF SnapshotWritten, LockForPublication, SettleRead, SettlePut
    <3> DEFINE GoesOn ==
            /\ comp.at # "idle" /\ comp'.fence = comp.fence
            /\ comp'.m = comp.m /\ comp'.ids = comp.ids /\ comp'.wrote = comp.wrote
            /\ comp'.at # "loading" /\ comp.at # "loading"
            /\ comp.at \in {"settling", "replacing", "locked"} \/ comp.wrote = {"pages", "record"}
    <3>2. comp'.at # "idle" => GoesOn
      <4>1. DOMAIN comp = {"at", "m", "ids", "fence", "wrote", "todo", "key", "seen", "settled"} /\ IdleComp.at = "idle"
        BY CompFields DEF IdleComp
      <4>2. CASE SnapshotWritten
        BY <4>1, <4>2 DEF SnapshotWritten
      <4>3. CASE LockForPublication
        BY <4>1, <4>3 DEF LockForPublication, StopCompaction
      <4>4. ASSUME NEW k \in Keys, SettleRead(k) PROVE comp'.at # "idle" => GoesOn
        BY <4>1, <4>4 DEF SettleRead
      <4>5. ASSUME NEW k \in Keys, SettlePut(k) PROVE comp'.at # "idle" => GoesOn
        BY <4>1, <4>5 DEF SettlePut
      <4>6. QED
        BY <2>7, <4>2, <4>3, <4>4, <4>5
    <3>3. SnapshotsFramed
      BY <2>1, <3>1, <3>2 DEF SnapshotsFramed, CompRuns
    <3>4. QED
      BY <2>1, <3>3, SnapshotsQuiet
  <2>8. ASSUME NEW kind \in {"pages", "record"}, PutSnapshot(kind) PROVE SnapshotsInv'
    <3>1. comp.at = "writing"
      BY <2>8 DEF PutSnapshot
    <3>2. CompRuns
      BY <2>1, <3>1 DEF WritesOwnSnapshots, NoneLeft, StaleInv, CompRuns
    <3>3. QED
      BY <2>1, <2>8, <3>2, SnapshotsPut
  <2>9. CASE PublishCompaction
    BY <2>1, <2>9, SnapshotsPublishCompaction
  <2>10. CASE StartGC \/ RunGC
    BY <2>2, <2>10 DEF StartGC, RunGC
  <2>11. CASE EndGC
    <3>1. UNCHANGED <<manifest, files, reader, comp>> /\ retired' = (IF Views = {} THEN <<>> ELSE retired)
      BY <2>11 DEF EndGC
    <3>2. DOMAIN <<>> = {}
      OBVIOUS
    <3>3. DOMAIN retired' \subseteq DOMAIN retired
      BY <3>1, <3>2
    <3>4. QED
      BY <2>2, <3>1, <3>3
  <2>12. ASSUME NEW o \in files, Visit(o) PROVE SnapshotsInv'
    BY <2>1, <2>12, SnapshotsVisit
  <2>13. CASE Crash
    <3>1. UNCHANGED <<manifest, files>> /\ DOMAIN retired' = {} /\ comp'.at = "idle" /\ \A r \in Readers : reader'[r].at = "idle"
      BY <2>13 DEF Crash, IdleReader, IdleComp
    <3>2. SnapshotsFramed
      BY <2>1, <3>1 DEF SnapshotsFramed, CompRuns
    <3>3. QED
      BY <2>1, <3>2, SnapshotsQuiet
  <2>14. QED
    BY <1>2, <2>1, <2>3, <2>4, <2>5, <2>6, <2>7, <2>8, <2>9, <2>10, <2>11, <2>12, <2>13 DEF Next, CompactionStep, SweepStep
<1>3. QED
    BY <1>1, <1>2

-----------------------------------------------------------------------------
(* Views can be read.                                                      *)

LEMMA ViewInit == Init => ViewInv
<1> SUFFICES ASSUME Init PROVE ViewInv
    OBVIOUS
<1>1. /\ manifest = EmptyManifest /\ files = {} /\ comp.at = "idle" /\ gc.at = "idle" /\ DOMAIN retired = {}
      /\ (\A k \in Keys : writer[k].at = "idle") /\ (\A r \in Readers : reader[r].at = "idle")
    BY DEF Init, IdleComp, IdleGC, IdleWriter, IdleReader
<1>2. manifest.snap = 0 /\ manifest.tail = {}
    BY <1>1 DEF EmptyManifest
<1>3. StaleInv /\ ListedInv
    BY <1>1 DEF StaleInv, ListedInv
<1>4. TailsInv
    BY <1>1, <1>2 DEF TailsInv, WriterTail, ReaderTail
<1>5. SnapshotsInv
    BY <1>1, <1>2 DEF SnapshotsInv, CompSnapshot, CompRuns
<1>6. QED
    BY <1>3, <1>4, <1>5, IdsInit, GateInit DEF ViewInv

LEMMA ViewStutters ==
    ASSUME ViewInv, UNCHANGED vars
    PROVE  ViewInv'
<1>1. IdsInv' = IdsInv /\ GateInv' = GateInv /\ StaleInv' = StaleInv
    BY DEF vars, IdsInv, Open, Used, GateInv, Views, StaleInv
<1>2. TailsInv => TailsInv'
    BY DEF vars, TailsInv, WriterTail, ReaderTail, RetiredTail, Covers, Holds, InTail, Names, IsSnapshot
<1>3. CompRuns' = CompRuns
    BY DEF vars, CompRuns
<1>4. ListedInv => ListedInv'
    BY <1>3 DEF vars, ListedInv, ListedNow, ListedBefore, Used, Open, IsSnapshot
<1>5. SnapshotsInv => SnapshotsInv'
    BY <1>3 DEF vars, SnapshotsInv, SnapshotTrue, CompSnapshot, RetiredSnapshot, Stored, SnapshotIn, Spells, Covers, Holds,
         InTail, IsSnapshot
<1>6. NoneLeft => NoneLeft'
    BY <1>3 DEF vars, NoneLeft
<1>7. tenant' = tenant
    BY DEF vars
<1>8. QED
    BY <1>1, <1>2, <1>4, <1>5, <1>6, <1>7 DEF ViewInv

LEMMA ViewNext ==
    ASSUME TypeOK, StorageInv, TypeOK', StorageInv', ViewInv, WritesOwnSnapshots, [Next]_vars
    PROVE  ViewInv'
<1>1. CASE UNCHANGED vars
    BY <1>1, ViewStutters
<1>2. CASE Next
  <2>1. IdsInv' /\ GateInv' /\ StaleInv'
    BY <1>2, IdsNext, GateNext, StaleNext DEF ViewInv
  <2>2. tenant'.phase = "active" => TailsInv'
    BY <1>2, TailsNext DEF ViewInv
  <2>3. CASE NoneLeft
    <3>1. NoneLeft'
      BY <1>2, <2>3, NoneLeftStays
    <3>2. QED
      BY <2>1, <2>2, <3>1 DEF ViewInv
  <2>4. CASE ~NoneLeft
    <3>1. ListedInv /\ (tenant.phase = "active" => TailsInv /\ SnapshotsInv) /\ IdsInv /\ GateInv /\ StaleInv
      BY <2>4 DEF ViewInv
    <3>2. ListedInv'
      BY <1>2, <3>1, ListedNext
    <3>3. tenant'.phase = "active" => SnapshotsInv'
      BY <1>2, <2>4, <3>1, SnapshotsNext
    <3>4. QED
      BY <2>1, <2>2, <3>2, <3>3 DEF ViewInv
  <2>5. QED
    BY <2>3, <2>4
<1>3. QED
    BY <1>1, <1>2

LEMMA CoveredReadable ==
    ASSUME TypeOK, NEW m \in ManifestType, Covers(m, history), m.tail \subseteq files, m.snap > 0 => Stored(files, m.snap),
           \A o \in files : IsSnapshot(o) /\ o.hi = m.snap /\ m.snap > 0 => Spells(o.ids, o.hi, history)
    PROVE  Readable(m)
<1>1. history \in Seq(CommitIds) /\ files \subseteq ObjectType
    BY DEF TypeOK, ObjectsTyped
<1>2. Complete(m) /\ (m.snap > 0 => SnapshotIn(files, "record", m.snap) # {})
    BY DEF Complete, Stored
<1>3. \A o \in SnapshotIn(files, "pages", m.snap) : m.snap > 0 => Spells(o.ids, m.snap, history)
    BY DEF SnapshotIn, IsSnapshot
<1>4. GraphOf(m) \in Seq(CommitIds) /\ Spells(GraphOf(m), m.version, history)
    BY <1>1, <1>2, <1>3, GraphSpells
<1>5. GraphOf(m) = SubSeq(history, 1, m.version)
    BY <1>1, <1>4, SpelledPrefix, ManifestFields
<1>6. QED
    BY <1>2, <1>5 DEF Readable

LEMMA InvViews ==
    ASSUME TypeOK, StorageInv, ViewInv
    PROVE  ViewsReadable
<1> SUFFICES ASSUME tenant.phase = "active"
             PROVE  Readable(manifest) /\ \A r \in Readers : reader[r].at = "reading" => Readable(reader[r].m)
    BY DEF ViewsReadable
<1>1. TailsInv /\ (NoneLeft \/ SnapshotsInv)
    BY DEF ViewInv
<1>2. manifest \in ManifestType /\ manifest.snap \in Nat /\ Len(history) \in Nat
    BY ManifestFields DEF TypeOK, ObjectsTyped
<1>3. ASSUME NEW m \in ManifestType, m.snap <= manifest.snap, SnapshotsInv => (m.snap > 0 => Stored(files, m.snap)),
             Covers(m, history), m.tail \subseteq files
      PROVE  Readable(m)
  <2>1. m.snap > 0 => SnapshotsInv
    BY <1>1, <1>2, <1>3, ManifestFields DEF NoneLeft
  <2>2. \A o \in files : IsSnapshot(o) /\ o.hi = m.snap /\ m.snap > 0 => Spells(o.ids, o.hi, history)
    BY <2>1 DEF SnapshotsInv, SnapshotTrue
  <2>3. QED
    BY <1>3, <2>1, <2>2, CoveredReadable
<1>4. Readable(manifest)
  <2>1. Covers(manifest, history)
    BY <1>2, FollowsCovers DEF StorageInv
  <2>2. QED
    BY <1>1, <1>2, <1>3, <2>1 DEF TailsInv, SnapshotsInv
<1>5. ASSUME NEW r \in Readers, reader[r].at = "reading" PROVE Readable(reader[r].m)
  <2>1. reader[r].m \in ManifestType
    BY DEF TypeOK, CallsTyped, ReaderType
  <2>2. Covers(reader[r].m, history) /\ reader[r].m.tail \subseteq files /\ reader[r].m.snap <= manifest.snap
    BY <1>1, <1>5 DEF TailsInv, ReaderTail
  <2>3. SnapshotsInv => (reader[r].m.snap > 0 => Stored(files, reader[r].m.snap))
    BY <1>5 DEF SnapshotsInv
  <2>4. QED
    BY <1>3, <2>1, <2>2, <2>3
<1>6. QED
    BY <1>4, <1>5

\* ViewsReadable for any keys, readers, workload and sizes, in every behaviour
\* in which no compaction that outlived a purge writes its snapshot into the
\* next generation of the tenant while another compaction is to come: the
\* manifest and every pinned view can be read to the last object and give the
\* history up to their version, whatever writers, compactions, sweeps with
\* pauses, failures and crashes do.  Without the hypothesis it is false: the
\* snapshot is written without a fence, under a key that names a version only.
THEOREM ReadableViews == Spec /\ []WritesOwnSnapshots => []ViewsReadable
<1>1. Init => ViewInv
    BY ViewInit
<1>2. (TypeOK /\ StorageInv) /\ ViewInv /\ WritesOwnSnapshots /\ [Next]_vars /\ (TypeOK /\ StorageInv)' => ViewInv'
    BY ViewNext
<1>3. TypeOK /\ StorageInv /\ ViewInv => ViewsReadable
    BY InvViews
<1>4. QED
    BY <1>1, <1>2, <1>3, StorageSafe, PTL DEF Spec

LEMMA CompactedOnceNext ==
    ASSUME TypeOK, StorageInv, CompactedOnceInv, [Next]_vars
    PROVE  CompactedOnceInv'
<1>1. CASE UNCHANGED vars
    BY <1>1 DEF vars, CompactedOnceInv
<1>2. CASE Next
  <2>1. left.compactions \in Nat /\ left.purges \in Nat
    BY <1>2, LeftMoves
  <2>2. CASE left.purges = 0 /\ tenant.phase = "active" /\ (comp.at # "idle" => comp.fence = tenant.generation)
    <3>1. left'.purges = 0
      BY <1>2, <2>2, LeftMoves
    <3>2. ~BeginPurge
      <4>1. BeginPurge => Spent("purges")
        BY <2>2 DEF BeginPurge
      <4>2. Spent("purges") => left.purges > 0
        BY SpentMoves DEF TypeOK, TenantTyped
      <4>3. QED
        BY <2>2, <4>1, <4>2
    <3>3. ~PurgeObjects /\ ~CreateTenant
      BY <2>2 DEF PurgeObjects, CreateTenant
    <3>4. tenant' = tenant
      BY <1>2, <3>2, <3>3, TenantMoves
    <3>5. comp'.at # "idle" => comp'.fence = tenant.generation
      BY <1>2, <2>2, CompMoves
    <3>6. QED
      BY <2>2, <3>1, <3>4, <3>5 DEF CompactedOnceInv
  <2>3. CASE left.compactions = 0
    BY <1>2, <2>1, <2>3, LeftMoves DEF CompactedOnceInv
  <2>4. CASE left.compactions = 1 /\ comp.at = "idle"
    <3>1. CASE StartCompaction
      <4>1. left'.compactions = 0
        BY <2>4, <3>1, SpentMoves DEF StartCompaction, TypeOK, TenantTyped
      <4>2. QED
        BY <4>1 DEF CompactedOnceInv
    <3>2. CASE ~StartCompaction
      <4>1. left'.compactions = 1
        BY <1>2, <2>4, <3>2, LeftMoves
      <4>2. comp'.at = "idle"
        BY <1>2, <2>4, <3>2, CompMoves
      <4>3. QED
        BY <4>1, <4>2 DEF CompactedOnceInv
    <3>3. QED
      BY <3>1, <3>2
  <2>5. QED
    BY <2>2, <2>3, <2>4 DEF CompactedOnceInv
<1>3. QED
    BY <1>1, <1>2

\* ViewsReadable without a hypothesis about behaviours, for every workload in
\* which nothing is purged or no second compaction comes; any number of
\* commits, readers, sweeps, failures and crashes.
THEOREM CompactedOnceViews ==
    ASSUME CompactedOnce
    PROVE  Spec => []ViewsReadable
<1>1. Init => CompactedOnceInv
  <2> SUFFICES ASSUME Init PROVE CompactedOnceInv
    OBVIOUS
  <2>1. left \in Workloads /\ left \in WorkloadType /\ comp.at = "idle" /\ tenant.phase = "active"
    BY WorkloadsAreTyped DEF Init, IdleComp
  <2>2. left.compactions \in Nat /\ left.purges \in Nat /\ (left.purges = 0 \/ left.compactions <= 1)
    BY <2>1 DEF WorkloadType, CompactedOnce
  <2>3. QED
    BY <2>1, <2>2 DEF CompactedOnceInv
<1>2. (TypeOK /\ StorageInv) /\ CompactedOnceInv /\ [Next]_vars => CompactedOnceInv'
    BY CompactedOnceNext
<1>3. (TypeOK /\ StorageInv) /\ CompactedOnceInv => WritesOwnSnapshots
  <2>1. TypeOK => (comp.at = "writing" => comp.at # "idle")
    OBVIOUS
  <2>2. QED
    BY <2>1 DEF CompactedOnceInv, WritesOwnSnapshots
<1>4. Spec => []WritesOwnSnapshots
    BY <1>1, <1>2, <1>3, StorageSafe, PTL DEF Spec
<1>5. QED
    BY <1>4, ReadableViews, PTL
=============================================================================
