------------------------------ MODULE IngestWAL ------------------------------
(***************************************************************************)
(* The write-ahead log of the ingest service                               *)
(* (internal/storage/ingest_wal.go, ingest_wal_durability.go,              *)
(* ingest_wal_checkpoint.go) and what its recovery rebuilds                *)
(* (ingest_recovery.go).                                                   *)
(*                                                                         *)
(* One writer goroutine appends frames to segment files, proves in the two *)
(* slots of a tail file how far they are durable, answers its callers,     *)
(* rotates segments, and folds the history into a checkpoint before it     *)
(* removes segments.  The goroutine is a program of disk operations: ops   *)
(* holds what is left of the current request, one operation a step, so     *)
(* that the process or the power can fail between any two of them.         *)
(*                                                                         *)
(* Bytes are counted in frames.  Directory operations survive a power loss *)
(* in the order they were made (a journalling file system), written blocks *)
(* in any order.                                                           *)
(***************************************************************************)
EXTENDS Naturals, FiniteSets, SequencesExt

CONSTANTS Ids,             \* identities of ingest requests
          SegmentBytes,    \* frames a segment holds
          MaxBytes,        \* frames the log may hold
          ControlReserve,  \* frames kept for prepared and terminal records
          QueueMemory,     \* frames the service holds in memory
          Durabilities,    \* "sync", "os" or both
          MaxLSN,          \* bound: records that are written in any run
          Workloads        \* bounds: how many records, checkpoints the service
                           \* asks for, and faults (crashes, power losses, I/O
                           \* errors) a run has; met counts the faults

ASSUME LogAssumption ==
    /\ SegmentBytes \in Nat \ {0} /\ SegmentBytes <= MaxBytes
    /\ ControlReserve \in Nat /\ ControlReserve < MaxBytes
    /\ QueueMemory < MaxBytes - ControlReserve
    /\ Durabilities \subseteq {"sync", "os"}
    /\ \A load \in Workloads : load.records <= MaxLSN

VARIABLES
    mode,    \* Durability of the configuration
    files,   \* files[s]: the segment that starts at LSN s
    dirs,    \* the directory: its durable image, then later images, the last is current
    slots,   \* the two slots of the tail file
    stale,   \* images of the tail file that may be on the disk in place of slots
    w,       \* the writer goroutine
    queue,   \* appendCh: requests that wait for the writer
    may,     \* may[i]: the states of request i that its service cannot exclude
    left     \* what is left of the bounds

vars == <<mode, files, dirs, slots, stale, w, queue, may, left>>

Starts == 1 .. MaxLSN + 1
EmptyFile == [frames |-> <<>>, synced |-> 0, torn |-> FALSE]
NoCheckpoint == [through |-> 0, pending |-> {}]
Bad == [seq |-> 0, start |-> 0, offset |-> 0, last |-> 0, ckpt |-> FALSE]

Here == Last(dirs)                  \* the directory as the process sees it
Sorted(segs) == SetToSortSeq(segs, LAMBDA a, b : a < b)

-----------------------------------------------------------------------------
(* Recovery.                                                               *)

\* A plan for a request that is not outstanding.
Orphan == [id |-> "orphan", state |-> "orphan"]

\* ingestRecovery.apply: the requests that are outstanding after a record.
Replayed(pending, record) ==
    CASE record.kind = "accepted" ->
           {p \in pending : p.id # record.id} \union {[id |-> record.id, state |-> "accepted"]}
      [] record.kind = "prepared" ->
           IF \E p \in pending : p.id = record.id
           THEN {p \in pending : p.id # record.id} \union {[id |-> record.id, state |-> "prepared"]}
           ELSE pending \union {Orphan}
      [] OTHER -> {p \in pending : p.id # record.id}

\* An accepted request costs one frame in a checkpoint, its plan another.
CheckpointBytes(pending) ==
    Cardinality(pending) + Cardinality({p \in pending : p.state = "prepared"})

ValidSlots == {k \in {0, 1} : slots[k].start > 0 /\ slots[k].seq % 2 = k}

\* Sequence numbers count modulo 4, enough to tell which slot follows which.
After(seq) == (seq + 1) % 4

\* loadIngestWALDurableTail: two valid slots must follow each other.
TailReadable ==
    /\ ValidSlots # {}
    /\ ValidSlots = {0, 1} =>
         \E k \in {0, 1} :
            /\ slots[k].seq = After(slots[1 - k].seq)
            /\ slots[k].last >= slots[1 - k].last
            /\ slots[k].start >= slots[1 - k].start

\* The boundary proved last.  It is uncertain when the other slot is damaged:
\* that one may have held a newer acknowledgement.
DurableTail ==
    slots[CHOOSE k \in ValidSlots : \A j \in ValidSlots \ {k} : slots[k].seq = After(slots[j].seq)]
Uncertain == ValidSlots # {0, 1}

\* scanIngestWALSegment: frames that end before the boundary, and a damaged
\* suffix that is not beyond a certain boundary, are corruption.
SegmentReadable(s, isLast) ==
    LET f == files[s]
        size == Len(f.frames)
        verified == /\ Here.tail
                    /\ \/ s > DurableTail.start
                       \/ s = DurableTail.start /\ size >= DurableTail.offset
    IN  /\ (Here.tail /\ s = DurableTail.start) =>
             /\ verified
             /\ DurableTail.last = s + DurableTail.offset - 1
        /\ f.torn => isLast /\ verified /\ ~Uncertain

\* The outstanding requests: the checkpoint, then every later record.
Recovered ==
    FoldLeft(LAMBDA pending, s :
               FoldLeftDomain(LAMBDA q, i :
                   IF s + i - 1 > Here.ckpt.through THEN Replayed(q, files[s].frames[i]) ELSE q,
                   pending, files[s].frames),
             Here.ckpt.pending, Sorted(Here.segs))

\* scanIngestWAL: the tail, the checkpoint and the segments fit together.
Readable ==
    LET order == Sorted(Here.segs)
        c == Here.ckpt
    IN  /\ Here.tail => TailReadable
        /\ c.through > 0 => Here.tail /\ c.through <= DurableTail.last
        /\ (Here.tail /\ DurableTail.ckpt) => c.through > 0
        /\ Here.tail => DurableTail.start \in Here.segs
        /\ (c.through > 0 /\ order # <<>>) => order[1] <= c.through + 1
        /\ \A i \in DOMAIN order :
             /\ SegmentReadable(order[i], i = Len(order))
             /\ i < Len(order) => order[i + 1] = order[i] + Len(files[order[i]].frames)
        /\ Orphan \notin Recovered

StateOf(pending, i) ==
    IF \E p \in pending : p.id = i THEN (CHOOSE p \in pending : p.id = i).state ELSE "none"

NextLSN ==
    LET order == Sorted(Here.segs)
    IN  IF order = <<>> THEN 1 ELSE Last(order) + Len(files[Last(order)].frames)

-----------------------------------------------------------------------------
(* The writer: its memory, and the programs of disk operations it runs.    *)

\* phase: "down", "opening", "ready", "failed" (an I/O error stopped it) or
\* "corrupt"; cur: start of the current segment; size: its bytes as the
\* writer counts them; buf: frames not yet written; required: the tail must
\* name a checkpoint; pending: what the opening recovered.
Down == [phase |-> "down", ops |-> <<>>, buf |-> <<>>, cur |-> 0, size |-> 0, next |-> 1,
         written |-> 0, durable |-> 0, seq |-> 0, required |-> FALSE, pending |-> {}]

Op(name) == [op |-> name]
ProveTail(lsn) == <<[op |-> "tail", lsn |-> lsn], Op("tailsync")>>

\* Mutant: callers are answered once the frames are written.
FlushAckFirst == <<Op("write"), Op("ack"), Op("sync")>> \o ProveTail(w.next - 1)

\* flush: the boundary becomes durable after the frames, before any answer.
Flush ==
    IF mode = "sync" THEN <<Op("write"), Op("sync")>> \o ProveTail(w.next - 1) \o <<Op("ack")>>
    ELSE <<Op("write"), Op("ack")>>

\* syncAndClose
Closing == <<Op("sync")>> \o (IF w.written # w.durable THEN ProveTail(w.written) ELSE <<>>)

\* Mutant: the boundary stays in the segment that was closed.
RotateKeepsTail == Closing \o <<Op("create"), Op("dirsync")>>

\* rotate: the boundary moves to the new segment before the old one can go.
Rotate == Closing \o <<Op("create"), Op("dirsync")>> \o ProveTail(w.written)

\* checkpoint: everything written is durable, then folded, then removed.
Checkpoint ==
    IF w.written = 0 THEN <<>>
    ELSE <<Op("sync")>> \o ProveTail(w.written) \o <<Op("fold"), Op("ckptsync"), Op("prune")>>

\* prune: the segments that hold nothing past the checkpoint, oldest first.
Prune ==
    LET old == SelectSeq(Sorted(Here.segs), LAMBDA s : s # w.cur \/ w.size > 0)
        gone == [i \in DOMAIN old |-> [op |-> "remove", start |-> old[i]]]
    IN  (IF w.size > 0 THEN Rotate ELSE <<>>) \o gone \o <<Op("dirsync")>>

LogBytes == FoldLeft(LAMBDA n, s : n + Len(files[s].frames), CheckpointBytes(Here.ckpt.pending),
                     Sorted(Here.segs))

\* writeRequests: accepted records leave the control reserve free.
Fits(record) ==
    LogBytes + Len(w.buf) + 1
        <= IF record.kind = "accepted" THEN MaxBytes - ControlReserve ELSE MaxBytes

Init ==
    /\ mode \in Durabilities
    /\ files = [s \in Starts |-> EmptyFile]
    /\ dirs = <<[segs |-> {}, ckpt |-> NoCheckpoint, tail |-> FALSE]>>
    /\ slots = [k \in {0, 1} |-> Bad] /\ stale = {}
    /\ w = Down /\ queue = <<>>
    /\ may = [i \in Ids |-> {"none"}]
    /\ left \in Workloads

-----------------------------------------------------------------------------
(* The callers: the ingest service appends a record for a request, and     *)
(* waits for the answer before it appends the next one.                    *)

Outcome(kind) == IF kind \in {"finalized", "failed"} THEN "none" ELSE kind

\* The service counts outstanding requests, their plans and those in flight.
QueueBytes ==
    FoldSet(LAMBDA i, n : n + (IF may[i] = {"none"} THEN 0
                               ELSE IF "prepared" \in may[i] THEN 2 ELSE 1), 0, Ids)

Append1(i, kind) ==
    /\ w.phase = "ready"
    /\ (w.next - Len(w.buf)) + Cardinality({j \in Ids : Cardinality(may[j]) > 1}) <= left.records
    /\ queue' = Append(queue, [kind |-> kind, id |-> i])
    /\ may' = [may EXCEPT ![i] = @ \union {Outcome(kind)}]
    /\ UNCHANGED <<mode, files, dirs, slots, stale, w, left>>

Accept(i) == may[i] = {"none"} /\ QueueBytes + 1 <= QueueMemory /\ Append1(i, "accepted")
AppendPrepared(i) == may[i] = {"accepted"} /\ Append1(i, "prepared")
AppendTerminal(i) == Cardinality(may[i]) = 1 /\ may[i] # {"none"} /\ Append1(i, "finalized")

-----------------------------------------------------------------------------
(* The writer's steps.                                                     *)

Idle == w.phase = "ready" /\ w.ops = <<>>

\* writeGroup: take some of the waiting requests.
WriteGroup ==
    /\ Idle /\ queue # <<>>
    /\ \E n \in 1 .. Len(queue) :
         /\ w' = [w EXCEPT !.ops = [i \in 1 .. n |-> [op |-> "request", record |-> queue[i]]]
                                   \o <<Op("flush")>>]
         /\ queue' = SubSeq(queue, n + 1, Len(queue))
    /\ UNCHANGED <<mode, files, dirs, slots, stale, may, left>>

\* The service asks for a checkpoint: the log is full, enough requests have
\* completed, or the service closes.
AskCheckpoint ==
    /\ Idle /\ left.checkpoints > 0
    /\ left' = [left EXCEPT !.checkpoints = @ - 1]
    /\ w' = [w EXCEPT !.ops = Checkpoint]
    /\ UNCHANGED <<mode, files, dirs, slots, stale, queue, may>>

\* The next operation is op; the rest of the program follows rest.
Doing(op) == w.phase \in {"opening", "ready", "failed"} /\ w.ops # <<>> /\ Head(w.ops).op = op
Then == [w EXCEPT !.ops = SubSeq(@, 2, Len(@))]
Expand(program) == [w EXCEPT !.ops = program \o SubSeq(@, 2, Len(@))]

\* The caller learns that its record was not written.
Refused(record) == [may EXCEPT ![record.id] = @ \ {Outcome(record.kind)}]

\* writeRequests, one request: refuse it, rotate first, or buffer its frame.
DoRequest ==
    /\ Doing("request")
    /\ LET record == Head(w.ops).record
       IN  \/ /\ ~Fits(record)
              /\ w' = Then /\ may' = Refused(record)
           \/ /\ Fits(record) /\ w.size + Len(w.buf) + 1 > SegmentBytes
              /\ w' = [w EXCEPT !.ops = <<Op("flush"), Op("rotate")>> \o w.ops]
              /\ UNCHANGED may
           \/ /\ Fits(record) /\ w.size + Len(w.buf) + 1 <= SegmentBytes
              /\ w' = [Then EXCEPT !.buf = Append(@, record), !.next = @ + 1]
              /\ UNCHANGED may
    /\ UNCHANGED <<mode, files, dirs, slots, stale, queue, left>>

\* The steps that only unfold into disk operations.
Unfold ==
    /\ \/ Doing("flush") /\ w' = Expand(IF w.buf = <<>> THEN <<>> ELSE Flush)
       \/ Doing("rotate") /\ w' = Expand(Rotate)
       \/ Doing("checkpoint") /\ w' = Expand(Checkpoint)
       \/ Doing("prune") /\ w' = Expand(Prune)
    /\ UNCHANGED <<mode, files, dirs, slots, stale, queue, may, left>>

DoWrite ==
    /\ Doing("write")
    /\ files' = [files EXCEPT ![w.cur].frames = @ \o w.buf]
    /\ w' = [Then EXCEPT !.size = @ + Len(w.buf)]
    /\ UNCHANGED <<mode, dirs, slots, stale, queue, may, left>>

DoSync ==
    /\ Doing("sync")
    /\ files' = [files EXCEPT ![w.cur].synced = Len(files[w.cur].frames)]
    /\ w' = Then
    /\ UNCHANGED <<mode, dirs, slots, stale, queue, may, left>>

\* Every caller of the group is answered.
DoAck ==
    /\ Doing("ack")
    /\ may' = [i \in Ids |->
                 IF \E k \in DOMAIN w.buf : w.buf[k].id = i
                 THEN {Outcome(w.buf[k].kind) : k \in {j \in DOMAIN w.buf : w.buf[j].id = i}}
                 ELSE may[i]]
    /\ w' = [Then EXCEPT !.buf = <<>>, !.written = w.next - 1,
                         !.durable = IF mode = "sync" THEN w.next - 1 ELSE @]
    /\ UNCHANGED <<mode, files, dirs, slots, stale, queue, left>>

Boundary(lsn, seq) ==
    [seq |-> seq, start |-> w.cur, offset |-> w.size, last |-> lsn, ckpt |-> w.required]

\* persistDurableTail: a missing tail file is created atomically with both
\* slots; then the slot of the next sequence number is overwritten in place.
DoTail ==
    /\ Doing("tail")
    /\ LET lsn == Head(w.ops).lsn
       IN  IF ~Here.tail
           THEN /\ slots' = [k \in {0, 1} |-> Boundary(lsn, k)]
                /\ dirs' = <<[Here EXCEPT !.tail = TRUE]>>
                /\ w' = [w EXCEPT !.seq = 1]
                /\ UNCHANGED stale
           ELSE LET k == (w.seq + 1) % 2
                IN  /\ slots' = [slots EXCEPT ![k] = Boundary(lsn, After(w.seq))]
                    /\ stale' = stale \union {slots}
                    /\ w' = Then
                    /\ UNCHANGED dirs
    /\ UNCHANGED <<mode, files, queue, may, left>>

DoTailSync ==
    /\ Doing("tailsync")
    /\ stale' = {}
    /\ w' = [Then EXCEPT !.seq = After(@)]
    /\ UNCHANGED <<mode, files, dirs, slots, queue, may, left>>

DoCreate ==
    /\ Doing("create")
    /\ files' = [files EXCEPT ![w.next] = EmptyFile]
    /\ dirs' = Append(dirs, [Here EXCEPT !.segs = @ \union {w.next}])
    /\ w' = [Then EXCEPT !.cur = w.next, !.size = 0]
    /\ UNCHANGED <<mode, slots, stale, queue, may, left>>

DoDirSync ==
    /\ \/ Doing("dirsync") /\ w' = Then
       \/ Doing("ckptsync") /\ w' = [Then EXCEPT !.required = TRUE]
    /\ dirs' = <<Here>>
    /\ UNCHANGED <<mode, files, slots, stale, queue, may, left>>

\* Mutant: the segments that the checkpoint will free are counted as well.
FoldFitsBesideLog == LogBytes + CheckpointBytes(Recovered) <= MaxBytes - ControlReserve

\* The outstanding requests leave the control reserve free.
FoldFits == CheckpointBytes(Recovered) <= MaxBytes - ControlReserve

\* The log is read again and, if it fits, the checkpoint replaced.
DoFold ==
    /\ Doing("fold")
    /\ IF FoldFits
       THEN /\ dirs' = Append(dirs, [Here EXCEPT !.ckpt = [through |-> w.written, pending |-> Recovered]])
            /\ w' = [Then EXCEPT !.durable = w.written]
       ELSE /\ w' = IF w.phase = "opening" THEN Down ELSE [w EXCEPT !.ops = <<>>, !.durable = w.written]
            /\ UNCHANGED dirs
    /\ UNCHANGED <<mode, files, slots, stale, queue, may, left>>

DoRemove ==
    /\ Doing("remove")
    /\ dirs' = Append(dirs, [Here EXCEPT !.segs = @ \ {Head(w.ops).start}])
    /\ w' = Then
    /\ UNCHANGED <<mode, files, slots, stale, queue, may, left>>

-----------------------------------------------------------------------------
(* Opening, failures and crashes.                                          *)

\* OpenIngestWAL and OpenIngestService: scan, cut a damaged suffix off, open
\* the current segment, prove the boundary again, and take a checkpoint.
Open ==
    /\ w.phase = "down"
    /\ IF ~Readable
       THEN w' = [Down EXCEPT !.phase = "corrupt"] /\ UNCHANGED files
       ELSE LET fresh == Here.segs = {}
                cur == IF fresh THEN 0 ELSE Last(Sorted(Here.segs))
            IN  /\ files' = IF fresh \/ ~files[cur].torn THEN files
                            ELSE [files EXCEPT ![cur].torn = FALSE, ![cur].synced = Len(files[cur].frames)]
                /\ w' = [Down EXCEPT
                           !.phase = "opening", !.cur = cur,
                           !.size = IF fresh THEN 0 ELSE Len(files[cur].frames),
                           !.next = NextLSN, !.written = NextLSN - 1, !.durable = NextLSN - 1,
                           !.seq = IF Here.tail THEN DurableTail.seq ELSE 0,
                           !.required = Here.ckpt.through > 0,
                           !.pending = Recovered,
                           !.ops = (IF fresh THEN <<Op("create"), Op("dirsync")>> ELSE <<Op("sync")>>)
                                   \o ProveTail(NextLSN - 1) \o <<Op("checkpoint"), Op("serve")>>]
    /\ UNCHANGED <<mode, dirs, slots, stale, queue, may, left>>

\* The service is open: recovered requests are outstanding again.
Serve ==
    /\ Doing("serve")
    /\ may' = [i \in Ids |-> {StateOf(w.pending, i)}]
    /\ w' = [Then EXCEPT !.phase = "ready", !.pending = {}]
    /\ UNCHANGED <<mode, files, dirs, slots, stale, queue, left>>

Fault == left.faults > 0 /\ left' = [left EXCEPT !.faults = @ - 1, !.met = @ + 1]

\* The process is killed: what it wrote stays in the page cache.
Kill ==
    /\ w.phase \notin {"down", "corrupt"} /\ Fault
    /\ w' = Down /\ queue' = <<>>
    /\ UNCHANGED <<mode, files, dirs, slots, stale, may>>

\* The power fails: unsynced frames survive in part, or as garbage; the tail
\* file, one block, is any image since its last fsync, a slot written since
\* then may be damaged.  Without fsync before the answer (mode "os") the
\* service has promised nothing.
PowerLoss ==
    /\ w.phase # "corrupt" /\ Fault
    /\ \E d \in 1 .. Len(dirs) : dirs' = <<dirs[d]>>
    /\ LET unsynced == {s \in Starts : files[s].synced < Len(files[s].frames)}
       IN  \E kept \in [unsynced -> 0 .. SegmentBytes], torn \in [unsynced -> BOOLEAN] :
             /\ \A s \in unsynced :
                  /\ kept[s] \in files[s].synced .. Len(files[s].frames)
                  /\ torn[s] => kept[s] < Len(files[s].frames)
             /\ files' = [s \in Starts |->
                            IF s \in unsynced
                            THEN [frames |-> SubSeq(files[s].frames, 1, kept[s]), synced |-> kept[s],
                                  torn |-> torn[s] \/ files[s].torn]
                            ELSE files[s]]
    /\ \E image \in stale \union {slots} :
         \/ slots' = image
         \/ \E k \in {0, 1} : /\ \E old \in stale : old[k] # slots[k]
                             /\ slots' = [image EXCEPT ![k] = Bad]
    /\ stale' = {} /\ w' = Down /\ queue' = <<>>
    /\ may' = IF mode = "sync" THEN may ELSE [i \in Ids |-> {"none", "accepted", "prepared"}]
    /\ UNCHANGED mode

\* A write fails: part of the frames, or garbage, is in the file.  Any other
\* failed step leaves its effect undone or, for a slot, damaged.  The writer
\* stops for good and closes its files.
IOError ==
    /\ w.phase \in {"opening", "ready"} /\ w.ops # <<>>
    /\ Head(w.ops).op \in {"write", "sync", "tail", "tailsync", "create", "dirsync"}
    /\ Fault
    /\ IF Head(w.ops).op = "write"
       THEN \E k \in 0 .. Len(w.buf) - 1 : \E torn \in BOOLEAN :
              files' = [files EXCEPT ![w.cur].frames = @ \o SubSeq(w.buf, 1, k), ![w.cur].torn = torn]
       ELSE UNCHANGED files
    /\ IF Head(w.ops).op = "tail" /\ Here.tail
       THEN slots' = [slots EXCEPT ![(w.seq + 1) % 2] = Bad] /\ stale' = stale \union {slots}
       ELSE UNCHANGED <<slots, stale>>
    /\ w' = [w EXCEPT !.phase = "failed", !.buf = <<>>,
                      !.ops = IF w.phase = "ready" THEN Closing ELSE <<>>]
    /\ queue' = <<>>
    /\ UNCHANGED <<mode, dirs, may>>

\* A checkpoint that cannot be written, synced or pruned is given up; the log
\* goes on without it, but a service that is opening is not opened.
CheckpointError ==
    /\ w.phase \in {"opening", "ready"} /\ w.ops # <<>>
    /\ Head(w.ops).op \in {"fold", "ckptsync", "remove"}
    /\ Fault
    /\ w' = IF w.phase = "opening" THEN [w EXCEPT !.phase = "failed", !.ops = Closing]
            ELSE [w EXCEPT !.ops = <<>>]
    /\ UNCHANGED <<mode, files, dirs, slots, stale, queue, may>>

\* The writer has closed its files, and the process ends.
Exit ==
    /\ w.phase = "failed" /\ w.ops = <<>>
    /\ w' = Down
    /\ UNCHANGED <<mode, files, dirs, slots, stale, queue, may, left>>

-----------------------------------------------------------------------------
Step == \/ WriteGroup \/ DoRequest \/ Unfold \/ DoWrite \/ DoSync \/ DoAck \/ DoTail \/ DoTailSync
        \/ DoCreate \/ DoDirSync \/ DoFold \/ DoRemove \/ Open \/ Serve \/ Exit

Next ==
    \/ Step
    \/ \E i \in Ids : Accept(i) \/ AppendPrepared(i) \/ AppendTerminal(i)
    \/ AskCheckpoint \/ Kill \/ PowerLoss \/ IOError \/ CheckpointError

Spec == Init /\ [][Next]_vars

\* The writer goroutine runs, and a stopped process is started again.
FairSpec == Spec /\ WF_vars(Step)

-----------------------------------------------------------------------------
(* Properties.                                                             *)

\* The types of the variables.
TypeOK ==
    /\ w.phase \in {"down", "opening", "ready", "failed", "corrupt"}
    /\ w.next \in Starts /\ w.written < w.next /\ w.durable <= w.written
    /\ may \in [Ids -> SUBSET {"none", "accepted", "prepared"} \ {{}}]
    /\ Here.segs \subseteq Starts
    /\ \A s \in Starts : files[s].synced <= Len(files[s].frames) /\ Len(files[s].frames) <= SegmentBytes
    /\ w.phase = "ready" => w.size = Len(files[w.cur].frames) /\ w.cur + w.size + Len(w.buf) >= w.next

\* Whatever one fault interrupts, the files that are left are never taken for
\* corruption: a torn suffix, a damaged slot, a checkpoint without its prune
\* or a prune that was cut short can all be told from a damaged log.  Only two
\* faults can close the log: one that tears the last segment and another that
\* damages the slot which could prove that nothing acknowledged was torn.
NeverCorrupt ==
    w.phase = "corrupt" => left.met > 1 /\ Uncertain /\ \E s \in Here.segs : files[s].torn

\* What recovery rebuilds is, for every request, a state its callers could not
\* exclude: an acknowledged request is outstanding with its plan until its
\* terminal record was asked for, and a finished one does not come back.
AcknowledgedSurvive ==
    w.phase = "opening" => \A i \in Ids : StateOf(w.pending, i) \in may[i]

\* A process that stopped, whatever stopped it, serves again, and no append is
\* left without an answer: each is acknowledged, refused, or settled by the
\* recovery of a log that failed under it.
ServesAgain ==
    /\ (w.phase \notin {"ready", "corrupt"}) ~> (w.phase \in {"ready", "corrupt"})
    /\ \A i \in Ids :
         (Cardinality(may[i]) > 1) ~> (Cardinality(may[i]) = 1 \/ w.phase = "corrupt")

=============================================================================
