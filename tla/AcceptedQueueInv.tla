-------------------------- MODULE AcceptedQueueInv --------------------------
(***************************************************************************)
(* The inductive invariant behind the invariants of AcceptedQueue.         *)
(* AcceptedQueueProofs proves it; MCAcceptedQueue computes for TLC the     *)
(* history whose existence it asserts (QueueInvHolds).                     *)
(***************************************************************************)
EXTENDS AcceptedQueue

-----------------------------------------------------------------------------
(* What is durable on a replica, and how a command changes it.             *)

DurableType == [records : [Batches -> RecordType], graph : Seq(Commits), disabled : BOOLEAN, done : BOOLEAN]

Durable(s) == [records |-> s.records, graph |-> s.graph, disabled |-> s.disabled, done |-> s.done]
DurableOf(r) == [records |-> records[r], graph |-> graph[r], disabled |-> disabled[r], done |-> done[r]]
EmptyDurable == [records |-> [b \in Batches |-> NoRecord], graph |-> <<>>, disabled |-> FALSE, done |-> FALSE]

\* The state a command finds: what is durable, and some cache.
Loaded(d, cache) == [records |-> d.records, pending |-> cache, graph |-> d.graph, disabled |-> d.disabled,
                     done |-> d.done, result |-> "none"]

\* The outcome of a command on a replica without a cache.
After(d, cmd, k) == Durable(ApplyCommand(Loaded(d, NoCache), cmd, k))

Accepted(d) == {b \in Batches : d.records[b].state = "accepted"}
Cached(d, cache) == cache = NoCache \/ cache = Accepted(d)

Recorded(d, b) == d.records[b].state # "none"
Finished(d, b) == d.records[b].state \in {"committed", "failed"}

-----------------------------------------------------------------------------
(* The state behind k entries.                                             *)

\* Records carry the index of their own entry.
RecordsDated(d, k) ==
    /\ \A b \in Batches : Recorded(d, b) => d.records[b].index \in 1..k
    /\ \A a, b \in Batches : Recorded(d, a) /\ Recorded(d, b) /\ a # b => d.records[a].index # d.records[b].index

\* Whatever was accepted before a published batch is finished.
PublishedCloses(d) ==
    \A i \in DOMAIN d.graph : \A p \in DOMAIN d.graph[i] :
        /\ Finished(d, d.graph[i][p])
        /\ \A b \in Batches : Recorded(d, b) /\ d.records[b].index < d.records[d.graph[i][p]].index => Finished(d, b)

InOrder(d) ==
    \A i, j \in DOMAIN d.graph : \A p \in DOMAIN d.graph[i], q \in DOMAIN d.graph[j] :
        i < j \/ (i = j /\ p < q) => d.records[d.graph[i][p]].index < d.records[d.graph[j][q]].index

StateInv(d, k) == RecordsDated(d, k) /\ PublishedCloses(d) /\ InOrder(d)

\* What becomes of the state behind k entries: records keep their index and
\* never go back, and later ones have later indexes.
Grows(d, e, k) ==
    \A b \in Batches :
        /\ Recorded(d, b) => Recorded(e, b) /\ e.records[b].index = d.records[b].index
        /\ Finished(d, b) => Finished(e, b)
        /\ Recorded(e, b) /\ ~ Recorded(d, b) => e.records[b].index > k

\* A flush in acceptance order that leaves out only what is finished.
FlushFits(d, ids) ==
    /\ \A i \in DOMAIN ids : Recorded(d, ids[i])
    /\ \A i, j \in DOMAIN ids : i < j => d.records[ids[i]].index < d.records[ids[j]].index
    /\ \A i \in DOMAIN ids : \A b \in Batches :
         Recorded(d, b) /\ d.records[b].index < d.records[ids[i]].index =>
             Finished(d, b) \/ \E j \in DOMAIN ids : j < i /\ ids[j] = b

-----------------------------------------------------------------------------
\* h is the history of the durable state: h[k] is what k committed entries
\* make of it on any replica.
History(h) ==
    /\ h \in [0..commit -> DurableType]
    /\ \A k \in 1..commit : h[k] = After(h[k - 1], log[k], k)
    /\ \A k \in 0..commit : StateInv(h[k], k)
    /\ \A i, k \in 0..commit : i <= k => Grows(h[i], h[k], i)

\* Every replica is somewhere in the history, whatever its cache.
ReplicasInv(h) == \A r \in Replicas : DurableOf(r) = h[applied[r]] /\ Cached(DurableOf(r), pending[r])

\* Flushes that are planned or in the log's tail fit the committed state.
PlansInv(h) == \A r \in Replicas : FlushFits(h[commit], plan[r])
TailInv(h) == \A k \in commit + 1..Len(log) : log[k].kind = "flush" => FlushFits(h[commit], log[k].ids)

\* Clients know of nothing that is not committed, and a read behind a barrier
\* will find what was known when it began.
ClientsInv(h) ==
    /\ \A b \in Batches : seen[b] <= Rank(h[commit].records[b].state)
    /\ \A q \in reads : \A b \in Batches :
         /\ q.must[b] <= Rank(h[q.index].records[b].state)
         /\ q.saw # <<>> => q.saw[b] >= q.must[b]

QueueInv(h) == History(h) /\ ReplicasInv(h) /\ PlansInv(h) /\ TailInv(h) /\ ClientsInv(h)

\* A clean pause: no write is on its way to the replica that holds it.
Quiet(r) == \A i \in applied[r] + 1..Len(log) : ~ Mutation(log[i].kind)

PauseOf(r) ==
    /\ maint[r].phase = "idle" => ~ maint[r].clean
    /\ maint[r].phase = "draining" => maint[r].paused
    /\ maint[r].clean =>
         /\ maint[r].paused /\ r = leader /\ Quiet(r)
         /\ maint[r].phase \in {"held", "prepared", "proposed"} => StoredPending(r) = {}
         /\ maint[r].phase \in {"prepared", "proposed"} => Len(graph[r]) = maint[r].basis

PauseInv == \A r \in Replicas : PauseOf(r)
=============================================================================
