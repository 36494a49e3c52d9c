---------------------------- MODULE AcceptedQueue ----------------------------
(***************************************************************************)
(* The accepted-ingestion queue of one replicated group                    *)
(* (internal/ha/ingest.go, ingest_pending.go), with the proposals and the  *)
(* read barrier it stands on (internal/replication/node.go) and the        *)
(* admission gate maintenance closes (internal/ha/maintenance_admission.go)*)
(*                                                                         *)
(* An ingest request is acknowledged once its "accept" command is applied: *)
(* the record is then durable but its data is not yet in the graph.  The   *)
(* leader names accepted records in "flush" commands, in acceptance order, *)
(* and applying one publishes them.  The queue of accepted records is      *)
(* cached in memory; a replica that restarts, restores a snapshot or       *)
(* rejects a command forgets the cache and rebuilds it from its records.   *)
(*                                                                         *)
(* One tenant and one tenant generation.  Raft is external: entries are    *)
(* committed in log order, a new leader keeps every committed entry and    *)
(* some prefix of the others, and a follower drops proposals               *)
(* (DisableProposalForwarding).                                            *)
(***************************************************************************)
EXTENDS Naturals, FiniteSets, Sequences

CONSTANTS Replicas,          \* the replicas of the group
          Batches,           \* ingest identities (source, collector, batch)
          Requests,          \* requests: records [batch, digest]
          Budget,            \* MaxPendingBytes of each replica, in requests
          FlushMaxRequests,  \* requests one flush command may name
          HttpOps,           \* direct writes: "commit", "disable", "enable"
          Workloads          \* bounds: how many client commands, elections,
                             \* faults (restarts and callers that stop waiting),
                             \* preparations of the task and reads may happen

ASSUME QueueAssumption ==
    /\ Budget \in [Replicas -> Nat]
    /\ FlushMaxRequests \in Nat \ {0}
    /\ \A q \in Requests : q.batch \in Batches

VARIABLES
    log,        \* the leader's log: committed entries, then its own tail
    commit,     \* number of committed entries
    leader,     \* the leader of the current term
    views,      \* the replicas whose soft state says they lead
    applied,    \* applied[r]: entries of the log applied by r
    records,    \* records[r][b]: the acceptance record of batch b on r
    pending,    \* pending[r]: the cached queue of r, or NoCache
    graph,      \* graph[r]: the commits of the tenant on r, in order
    disabled,   \* disabled[r]: the tenant is disabled on r
    done,       \* done[r]: the maintenance task is finished on r
    waiting,    \* callers of Propose waiting for their entry
    plan,       \* plan[r]: batches the flush loop of r is about to propose
    maint,      \* maint[r]: the maintenance worker of r
    seen,       \* seen[b]: the furthest state a client was shown of b
    reads,      \* status reads: waiting for their barrier, or just answered
    left        \* what is left of each bound

raftVars    == <<log, commit, leader, views>>
replicaVars == <<applied, records, pending, graph, disabled, done>>
nodeVars    == <<waiting, plan, maint>>
clientVars  == <<seen, reads>>
vars        == <<raftVars, replicaVars, nodeVars, clientVars, left>>

NoCache == {"no cache"}
NoRecord == [state |-> "none", digest |-> "none", index |-> 0]
IdleMaint == [phase |-> "idle", paused |-> FALSE, index |-> 0, basis |-> 0, clean |-> FALSE]

\* How far a record has come: unknown, accepted, finished.
Rank(state) == CASE state = "none" -> 0
                 [] state = "accepted" -> 1
                 [] OTHER -> 2

-----------------------------------------------------------------------------
(* The queue and its cache.                                                *)

\* ensurePending: the queue as the records of the replica say it is.
StoredPending(r) == {b \in Batches : records[r][b].state = "accepted"}

\* Mutant: a missing cache is taken for an empty queue.
PendingSnapshotNotRebuilt(r) == IF pending[r] = NoCache THEN {} ELSE pending[r]

\* pendingSnapshot: the cache, rebuilt when there is none.
PendingSnapshot(r) == IF pending[r] = NoCache THEN StoredPending(r) ELSE pending[r]

\* Mutant: the newest request is taken first.
FlushOrderNewestFirst(r) ==
    LET queue == PendingSnapshot(r)
        after(a, b) == records[r][a].index > records[r][b].index
    IN  {ids \in UNION {[1..n -> queue] : n \in 1..FlushMaxRequests} :
            /\ \A i, j \in DOMAIN ids : i < j => after(ids[i], ids[j])
            /\ \A b \in queue : (\A i \in DOMAIN ids : ids[i] # b) => \A i \in DOMAIN ids : after(ids[i], b)}

\* flushPendingTenant sorts the queue by log index; flushPendingBatch takes
\* requests from its front until a bound (requests or bytes) is met: the
\* sequences it may take.
FlushOrder(r) ==
    LET queue == PendingSnapshot(r)
        before(a, b) == records[r][a].index < records[r][b].index
    IN  {ids \in UNION {[1..n -> queue] : n \in 1..FlushMaxRequests} :
            /\ \A i, j \in DOMAIN ids : i < j => before(ids[i], ids[j])
            /\ \A b \in queue : (\A i \in DOMAIN ids : ids[i] # b) => \A i \in DOMAIN ids : before(ids[i], b)}

-----------------------------------------------------------------------------
(* What applying one command does to the state of a replica.  The state is *)
(* a record, so that each command is a function from states to states.     *)

ReplicaState(r) == [records |-> records[r], pending |-> pending[r], graph |-> graph[r],
                    disabled |-> disabled[r], done |-> done[r], result |-> "none"]

\* Mutant: a finished record stays in the cache.
SaveAcceptedKeepsFinished(s, saved) ==
    [s EXCEPT !.records = [b \in Batches |-> IF b \in DOMAIN saved THEN saved[b] ELSE s.records[b]],
              !.pending = IF s.pending = NoCache THEN NoCache ELSE s.pending \union DOMAIN saved]

\* saveAccepted: write the records and keep the cache in step, if there is one.
SaveAccepted(s, saved) ==
    [s EXCEPT !.records = [b \in Batches |-> IF b \in DOMAIN saved THEN saved[b] ELSE s.records[b]],
              !.pending = IF s.pending = NoCache THEN NoCache
                          ELSE (s.pending \ DOMAIN saved)
                               \union {b \in DOMAIN saved : saved[b].state = "accepted"}]

\* The record of a new acceptance carries the index of its log entry.
NewRecord(cmd, index) ==
    [state |-> "accepted", digest |-> cmd.request.digest, index |-> index]

\* accept: the budget is the one of the leader that proposed the command,
\* the bytes are the ones this replica counts.
ApplyAccept(s, cmd, index) ==
    LET b == cmd.request.batch
        stored == s.records[b]
        counted == IF cmd.budget > 0 /\ s.pending = NoCache
                   THEN [s EXCEPT !.pending = {c \in Batches : s.records[c].state = "accepted"}]
                   ELSE s
    IN  IF stored.state # "none"
        THEN [s EXCEPT !.result = IF stored.digest = cmd.request.digest THEN stored.state ELSE "conflict"]
        ELSE IF cmd.budget > 0 /\ Cardinality(counted.pending) + 1 > cmd.budget
        THEN [counted EXCEPT !.result = "full"]
        ELSE IF s.disabled
        THEN [counted EXCEPT !.result = "conflict"]
        ELSE [SaveAccepted(counted, [c \in {b} |-> NewRecord(cmd, index)]) EXCEPT !.result = "accepted"]

\* flush: publish the named records that are still accepted in one commit, in
\* the order of the command; a disabled tenant turns them into failures.  A
\* commit maps positions of the command to batches: a direct write has none.
ApplyFlush(s, cmd) ==
    LET todo == {i \in DOMAIN cmd.ids : s.records[cmd.ids[i]].state = "accepted"}
        batches == {cmd.ids[i] : i \in todo}
        state == IF s.disabled THEN "failed" ELSE "committed"
        finished == SaveAccepted(s, [b \in batches |-> [s.records[b] EXCEPT !.state = state]])
    IN  [finished EXCEPT !.graph = IF s.disabled \/ todo = {} THEN @ ELSE Append(@, [i \in todo |-> cmd.ids[i]]),
                         !.result = "flushed"]

\* http: a change of the tenant's status, or a commit.  A rejected command
\* changes nothing, but the failed attempt drops the cache.
ApplyHttp(s, cmd) ==
    IF cmd.op = "commit" /\ s.disabled
    THEN [s EXCEPT !.pending = NoCache, !.result = "rejected"]
    ELSE [s EXCEPT !.disabled = IF cmd.op = "commit" THEN @ ELSE cmd.op = "disable",
                   !.graph = Append(@, <<>>), !.result = "ok"]

\* task: publish the prepared maintenance unless the tenant has changed since
\* it was captured (the base token); a conflict leaves the task queued.
ApplyTask(s, cmd) ==
    IF s.done THEN [s EXCEPT !.result = "done"]
    ELSE IF Len(s.graph) # cmd.basis THEN [s EXCEPT !.result = "conflict"]
    ELSE [s EXCEPT !.done = TRUE, !.result = "done"]

ApplyCommand(s, cmd, index) ==
    CASE cmd.kind = "accept" -> ApplyAccept(s, cmd, index)
      [] cmd.kind = "flush" -> ApplyFlush(s, cmd)
      [] cmd.kind = "http" -> ApplyHttp(s, cmd)
      [] cmd.kind = "task" -> ApplyTask(s, cmd)

-----------------------------------------------------------------------------
Init ==
    /\ log = <<>> /\ commit = 0
    /\ leader \in Replicas /\ views = {leader}
    /\ applied = [r \in Replicas |-> 0]
    /\ records = [r \in Replicas |-> [b \in Batches |-> NoRecord]]
    /\ pending = [r \in Replicas |-> NoCache]
    /\ graph = [r \in Replicas |-> <<>>]
    /\ disabled = [r \in Replicas |-> FALSE]
    /\ done = [r \in Replicas |-> FALSE]
    /\ waiting = {}
    /\ plan = [r \in Replicas |-> <<>>]
    /\ maint = [r \in Replicas |-> IdleMaint]
    /\ seen = [b \in Batches |-> 0]
    /\ reads = {}
    /\ left \in Workloads

Spend(what) == /\ left[what] > 0
               /\ left' = [left EXCEPT ![what] = @ - 1]

-----------------------------------------------------------------------------
(* Proposals.                                                              *)

Mutation(kind) == kind \in {"accept", "http"}

\* admitTenantMutation: the callers whose mutation is under way on r.
Active(r) == {w \in waiting : w.node = r /\ Mutation(w.kind)}

\* readIndex: a quorum confirms that r leads.  The node may be deposed at once.
LeadershipConfirmed(r) == r \in views /\ r = leader

\* Propose: the caller registers and its entry is appended to the leader's log.
\* On a replica that does not lead the entry is dropped and the call fails.
Propose(r, cmd) ==
    /\ r \in views /\ r = leader
    /\ log' = Append(log, cmd)
    /\ waiting' = waiting \union {[node |-> r, kind |-> cmd.kind, index |-> Len(log) + 1]}
    /\ UNCHANGED <<commit, leader, views>>

\* Mutant: the gate is not looked at.
AdmittedAlways(r) == TRUE

\* admitTenantMutation: the gate maintenance closes.
Admitted(r) == ~maint[r].paused

\* cluster.propose for a client: the admission gate, then the leader's budget.
ClientWrite(r) ==
    /\ Admitted(r)
    /\ Spend("proposals")
    /\ \/ \E q \in Requests :
            Propose(r, [kind |-> "accept", request |-> q, budget |-> Budget[r]])
       \/ \E op \in HttpOps :
            Propose(r, [kind |-> "http", op |-> op])
    /\ UNCHANGED <<replicaVars, plan, maint, clientVars>>

Commit ==
    /\ commit < Len(log)
    /\ commit' = commit + 1
    /\ UNCHANGED <<log, leader, views, replicaVars, nodeVars, clientVars, left>>

\* What clients were shown never goes back.
Show(b, state) == [seen EXCEPT ![b] = IF @ < Rank(state) THEN Rank(state) ELSE @]

\* applyBatch: r applies its next committed entry, and answers the caller that
\* waits for it on this node.
Apply(r) ==
    /\ applied[r] < commit
    /\ LET index == applied[r] + 1
           cmd == log[index]
           s == ApplyCommand(ReplicaState(r), cmd, index)
           callers == {w \in waiting : w.node = r /\ w.index = index}
       IN  /\ applied' = [applied EXCEPT ![r] = index]
           /\ records' = [records EXCEPT ![r] = s.records]
           /\ pending' = [pending EXCEPT ![r] = s.pending]
           /\ graph' = [graph EXCEPT ![r] = s.graph]
           /\ disabled' = [disabled EXCEPT ![r] = s.disabled]
           /\ done' = [done EXCEPT ![r] = s.done]
           /\ waiting' = waiting \ callers
           /\ seen' = IF callers # {} /\ s.result \in {"accepted", "committed", "failed"}
                      THEN Show(cmd.request.batch, s.result)
                      ELSE seen
    /\ UNCHANGED <<raftVars, plan, maint, reads, left>>

\* The caller stops waiting: its deadline passes, or its node no longer leads.
\* ErrOutcomeUnknown: the entry may still be committed.
OutcomeUnknown(w) ==
    /\ IF w.node \in views /\ w.index # 0 THEN Spend("faults") ELSE UNCHANGED left
    /\ waiting' = waiting \ {w}
    /\ UNCHANGED <<raftVars, replicaVars, plan, maint, clientVars>>

\* Mutant: the barrier does not wait for the application.
BarrierOpenUnapplied(q) == q.node \in views

\* ReadBarrier: the node has applied that index and still leads.
BarrierOpen(q) == applied[q.node] >= q.index /\ q.node \in views

-----------------------------------------------------------------------------
(* Leadership and restarts.                                                *)

\* Raft elects r: committed entries survive, the tail only in part.  Callers
\* whose entry is lost are never answered.
Elect(r) ==
    /\ r # leader
    /\ Spend("elections")
    /\ leader' = r
    /\ views' = views \union {r}
    /\ \E k \in commit .. Len(log) :
         /\ log' = SubSeq(log, 1, k)
         /\ waiting' = {IF w.index > k THEN [w EXCEPT !.index = 0] ELSE w : w \in waiting}
    /\ maint' = [n \in Replicas |-> [maint[n] EXCEPT !.clean = FALSE]]
    /\ UNCHANGED <<commit, replicaVars, plan, clientVars>>

\* The soft state of a replica that no longer leads catches up.
StepDown(r) ==
    /\ r \in views /\ r # leader
    /\ views' = views \ {r}
    /\ UNCHANGED <<log, commit, leader, replicaVars, nodeVars, clientVars, left>>

\* The process of r restarts: records and checkpoint are durable, the cache,
\* the callers and the workers are not.  A restarted replica does not lead.
Restart(r) ==
    /\ r # leader
    /\ Spend("faults")
    /\ views' = views \ {r}
    /\ pending' = [pending EXCEPT ![r] = NoCache]
    /\ waiting' = {w \in waiting : w.node # r}
    /\ plan' = [plan EXCEPT ![r] = <<>>]
    /\ maint' = [maint EXCEPT ![r] = IdleMaint]
    /\ reads' = {q \in reads : q.node # r}
    /\ UNCHANGED <<log, commit, leader, applied, records, graph, disabled, done, seen>>

\* RestoreSnapshot: r takes over the state of a replica that applied more.
RestoreSnapshot(r, source) ==
    /\ r # leader
    /\ applied[r] < applied[source]
    /\ applied' = [applied EXCEPT ![r] = applied[source]]
    /\ records' = [records EXCEPT ![r] = records[source]]
    /\ pending' = [pending EXCEPT ![r] = NoCache]
    /\ graph' = [graph EXCEPT ![r] = graph[source]]
    /\ disabled' = [disabled EXCEPT ![r] = disabled[source]]
    /\ done' = [done EXCEPT ![r] = done[source]]
    /\ UNCHANGED <<raftVars, nodeVars, clientVars, left>>

-----------------------------------------------------------------------------
(* The flush loop of a leader.  It reads the queue, and proposes later.    *)

FlushPlan(r) ==
    /\ LeadershipConfirmed(r) /\ plan[r] = <<>>
    /\ {w \in waiting : w.node = r /\ w.kind = "flush"} = {}
    /\ PendingSnapshot(r) # {}
    /\ pending' = [pending EXCEPT ![r] = PendingSnapshot(r)]
    /\ \E ids \in FlushOrder(r) : plan' = [plan EXCEPT ![r] = ids]
    /\ UNCHANGED <<raftVars, applied, records, graph, disabled, done, waiting, maint, clientVars, left>>

FlushPropose(r) ==
    /\ plan[r] # <<>>
    /\ Propose(r, [kind |-> "flush", ids |-> plan[r]])
    /\ plan' = [plan EXCEPT ![r] = <<>>]
    /\ UNCHANGED <<replicaVars, maint, clientVars, left>>

\* The proposal is refused on a node that does not lead; the plan is dropped.
FlushRefused(r) ==
    /\ plan[r] # <<>> /\ r \notin views
    /\ plan' = [plan EXCEPT ![r] = <<>>]
    /\ UNCHANGED <<raftVars, replicaVars, waiting, maint, clientVars, left>>

-----------------------------------------------------------------------------
(* Maintenance: an optional pause of the tenant's writes, the capture of   *)
(* its state, and a task command that is bound to what was captured.       *)

\* pauseTenantWrites closes the gate.
PauseWrites(r) ==
    /\ LeadershipConfirmed(r) /\ maint[r].phase = "idle" /\ ~done[r]
    /\ Spend("maintenance")
    /\ maint' = [maint EXCEPT ![r] = [IdleMaint EXCEPT !.phase = "draining", !.paused = TRUE]]
    /\ UNCHANGED <<raftVars, replicaVars, waiting, plan, clientVars>>

\* The writes admitted before have returned.  A caller that stopped waiting
\* counts as returned although its entry may still be in the log: the pause
\* is clean when there is none.  ReadBarrier then fixes an index to wait for.
PauseDrained(r) ==
    /\ maint[r].phase = "draining" /\ Active(r) = {}
    /\ LeadershipConfirmed(r)
    /\ maint' = [maint EXCEPT ![r].phase = "barrier", ![r].index = commit,
                              ![r].clean = /\ r = leader
                                           /\ \A i \in applied[r] + 1 .. Len(log) : ~Mutation(log[i].kind)]
    /\ UNCHANGED <<raftVars, replicaVars, waiting, plan, clientVars, left>>

\* The queue is looked at behind the barrier: flush and look again, or hold.
PauseLook(r) ==
    /\ maint[r].phase = "barrier"
    /\ BarrierOpen([node |-> r, index |-> maint[r].index])
    /\ pending' = [pending EXCEPT ![r] = PendingSnapshot(r)]
    /\ \/ /\ PendingSnapshot(r) = {}
          /\ maint' = [maint EXCEPT ![r].phase = "held"]
          /\ UNCHANGED <<log, waiting>>
       \/ /\ PendingSnapshot(r) # {}
          /\ r = leader
          /\ \E ids \in FlushOrder(r) : log' = Append(log, [kind |-> "flush", ids |-> ids])
          /\ waiting' = waiting \union {[node |-> r, kind |-> "drain", index |-> Len(log) + 1]}
          /\ maint' = [maint EXCEPT ![r].phase = "flushing"]
    /\ UNCHANGED <<commit, leader, views, applied, records, graph, disabled, done, plan, clientVars, left>>

\* The flush of the pause returned: read the barrier again.
PauseFlushed(r) ==
    /\ maint[r].phase = "flushing" /\ LeadershipConfirmed(r)
    /\ {w \in waiting : w.node = r /\ w.kind = "drain"} = {}
    /\ maint' = [maint EXCEPT ![r].phase = "barrier", ![r].index = commit]
    /\ UNCHANGED <<raftVars, replicaVars, waiting, plan, clientVars, left>>

\* CaptureReplicatedMaintenance: with the pause held, or without any pause.
Capture(r) ==
    /\ r \in views /\ ~done[r]
    /\ \/ maint[r].phase = "held" /\ UNCHANGED left
       \/ maint[r].phase = "idle" /\ LeadershipConfirmed(r) /\ Spend("maintenance")
    /\ maint' = [maint EXCEPT ![r].phase = "prepared", ![r].basis = Len(graph[r])]
    /\ UNCHANGED <<raftVars, replicaVars, waiting, plan, clientVars>>

\* publishRestore proposes the task command.
ProposeTask(r) ==
    /\ maint[r].phase = "prepared"
    /\ Propose(r, [kind |-> "task", basis |-> maint[r].basis])
    /\ maint' = [maint EXCEPT ![r].phase = "proposed"]
    /\ UNCHANGED <<replicaVars, plan, clientVars, left>>

\* The worker is done, or one of its steps failed (a barrier, a proposal, its
\* deadline): the gate opens again.
Resume(r) ==
    /\ maint[r].phase # "idle"
    /\ {w \in waiting : w.node = r /\ w.kind \in {"task", "drain"}} = {}
    /\ maint' = [maint EXCEPT ![r] = IdleMaint]
    /\ UNCHANGED <<raftVars, replicaVars, waiting, plan, clientVars, left>>

-----------------------------------------------------------------------------
(* Status reads: ReadBarrier, then batchStatus.                            *)

\* ReadIndex answers no less than what was committed when it was asked.
ReadIndex(r) ==
    /\ LeadershipConfirmed(r)
    /\ Spend("reads")
    /\ reads' = reads \union {[node |-> r, index |-> commit, must |-> seen, saw |-> <<>>]}
    /\ UNCHANGED <<raftVars, replicaVars, nodeVars, seen>>

ReadStatus(q) ==
    /\ q.saw = <<>>
    /\ BarrierOpen(q)
    /\ LET saw == [b \in Batches |-> Rank(records[q.node][b].state)]
       IN  /\ reads' = (reads \ {q}) \union {[q EXCEPT !.saw = saw]}
           /\ seen' = [b \in Batches |-> IF seen[b] < saw[b] THEN saw[b] ELSE seen[b]]
    /\ UNCHANGED <<raftVars, replicaVars, nodeVars, left>>

\* The call returns with its answer, or fails because its node does not lead.
ReadReturns(q) ==
    /\ q.saw # <<>> \/ q.node \notin views
    /\ reads' = reads \ {q}
    /\ UNCHANGED <<raftVars, replicaVars, nodeVars, seen, left>>

-----------------------------------------------------------------------------
Next ==
    \/ Commit
    \/ \E r \in Replicas :
         \/ ClientWrite(r) \/ Apply(r)
         \/ Elect(r) \/ StepDown(r) \/ Restart(r)
         \/ \E source \in Replicas : RestoreSnapshot(r, source)
         \/ FlushPlan(r) \/ FlushPropose(r) \/ FlushRefused(r)
         \/ PauseWrites(r) \/ PauseDrained(r) \/ PauseLook(r) \/ PauseFlushed(r)
         \/ Capture(r) \/ ProposeTask(r) \/ Resume(r)
         \/ ReadIndex(r)
    \/ \E w \in waiting : OutcomeUnknown(w)
    \/ \E q \in reads : ReadStatus(q) \/ ReadReturns(q)

Spec == Init /\ [][Next]_vars

\* The goroutines of the replicas run, and Raft commits what the leader has.
FairSpec ==
    /\ Spec
    /\ WF_vars(Commit)
    /\ \A r \in Replicas :
         /\ WF_vars(Apply(r)) /\ WF_vars(StepDown(r))
         /\ WF_vars(FlushPlan(r)) /\ WF_vars(FlushPropose(r)) /\ WF_vars(FlushRefused(r))
    /\ WF_vars(\E w \in waiting : (w.node \notin views \/ w.index = 0) /\ OutcomeUnknown(w))

-----------------------------------------------------------------------------
(* Properties.                                                             *)

Kinds == {"accept", "flush", "drain", "http", "task"}

RecordType == [state : {"none", "accepted", "committed", "failed"},
               digest : {q.digest : q \in Requests} \union {"none"}, index : Nat]
Plans == UNION {[1..n -> Batches] : n \in 0..FlushMaxRequests}
Commits == UNION {[D -> Batches] : D \in SUBSET (1..FlushMaxRequests)}
Commands == [kind : {"accept"}, request : Requests, budget : Nat] \union [kind : {"http"}, op : HttpOps]
            \union [kind : {"flush"}, ids : Plans] \union [kind : {"task"}, basis : Nat]
Phases == {"idle", "draining", "barrier", "flushing", "held", "prepared", "proposed"}

Workers == [phase : Phases, paused : BOOLEAN, index : Nat, basis : Nat, clean : BOOLEAN]
Callers(n) == [node : Replicas, kind : Kinds, index : 0..n]
Reads(n) == [node : Replicas, index : 0..n, must : [Batches -> 0..2], saw : {<<>>} \union [Batches -> 0..2]]

\* The types of the variables.
RaftTyped ==
    /\ log \in Seq(Commands) /\ commit \in 0..Len(log) /\ leader \in Replicas /\ views \subseteq Replicas
ReplicaTyped ==
    /\ applied \in [Replicas -> 0..commit] /\ records \in [Replicas -> [Batches -> RecordType]]
    /\ \A r \in Replicas : pending[r] = NoCache \/ pending[r] \subseteq Batches
    /\ DOMAIN pending = Replicas
    /\ graph \in [Replicas -> Seq(Commits)]
    /\ disabled \in [Replicas -> BOOLEAN] /\ done \in [Replicas -> BOOLEAN]
NodeTyped ==
    /\ waiting \subseteq Callers(Len(log))
    /\ plan \in [Replicas -> Plans]
    /\ maint \in [Replicas -> Workers]
ClientTyped ==
    /\ seen \in [Batches -> 0..2]
    /\ reads \subseteq Reads(commit)

TypeOK == RaftTyped /\ ReplicaTyped /\ NodeTyped /\ ClientTyped

\* Replicas that applied the same entries hold the same records and the same
\* graph, although each counts the queue with its own cache, rebuilt at
\* different times, and is configured with its own byte budget (ingest.go:128).
ReplicasAgree ==
    \A r, s \in Replicas :
        applied[r] = applied[s] =>
            /\ records[r] = records[s] /\ graph[r] = graph[s]
            /\ disabled[r] = disabled[s] /\ done[r] = done[s]

\* An accepted batch is published at most once, and batches are published in
\* the order they were accepted, although flushes are planned from a stale
\* queue, repeated after an unknown outcome, and proposed by two leaders.
PublishedInOrder ==
    \A r \in Replicas : \A i, j \in DOMAIN graph[r] :
        \A p \in DOMAIN graph[r][i], q \in DOMAIN graph[r][j] :
            i < j \/ (i = j /\ p < q) =>
                records[r][graph[r][i][p]].index < records[r][graph[r][j][q]].index

\* A status read shows every acknowledged batch at least as far along as any
\* client was told before the read began, whichever replica answers it.
ReadsSeeAcknowledged ==
    \A q \in reads : q.saw # <<>> => \A b \in Batches : q.saw[b] >= q.must[b]

\* While a pause is held under one leader and no earlier write was left with
\* an unknown outcome, nothing changes the tenant: what the worker captured is
\* still the replica's state when its task command arrives.
PauseExcludesWriters ==
    \A r \in Replicas :
        (maint[r].phase \in {"prepared", "proposed"} /\ maint[r].paused /\ maint[r].clean)
            => Len(graph[r]) = maint[r].basis

\* Every acknowledged batch is published, or recorded as failed.
AcceptedIsFinished ==
    \A b \in Batches : (seen[b] = 1) ~> (\E r \in Replicas : Rank(records[r][b].state) = 2)

=============================================================================
