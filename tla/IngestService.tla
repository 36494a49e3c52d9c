---------------------------- MODULE IngestService ----------------------------
(***************************************************************************)
(* One tenant of the standalone ingest service: requests are acknowledged  *)
(* once their ACCEPTED record is durable, a scheduler and a worker turn    *)
(* them into commits in log order, and every step of that is repeatable    *)
(* after a crash because a PREPARED plan is durable before the manifest    *)
(* changes and a batch record is durable before the terminal record.       *)
(* Direct commits, purges and creations run beside it; they pause          *)
(* admission, drain what was admitted and only then take the tenant lock.  *)
(*                                                                         *)
(* The log appears here as what its recovery returns: the requests without *)
(* a terminal record, in LSN order, each with its plan.  How segments,     *)
(* tail and checkpoint keep that promise is the subject of IngestWAL.      *)
(* Deadlines, backoff and forced flushes only choose when a queue is       *)
(* dispatched, so a queue may be dispatched at any moment here.            *)
(***************************************************************************)
EXTENDS Naturals, Sequences, FiniteSets

CONSTANTS
  Requests,          \* request identities, one batch each
  Callers,           \* operations that pause the ingest of the tenant
  Operation,         \* what each caller does: commit, purge, create or disable
  Guarded,           \* requests whose items a quota or schema may reject
  FlushMaxRequests,  \* largest group the worker flushes at once
  Workloads          \* bounds: Accept calls, calls of each caller, and faults
                     \* (refused or failed steps, crashes, shutdowns)

VARIABLES
  store,    \* durable objects of the tenant
  log,      \* durable outstanding requests, in LSN order
  intact,   \* whether recovery can read the log
  wal,      \* whether its writer runs: open, or failed until the next start
  run,      \* state of the process: up, closing, fatal, down
  gate,     \* admission gate of the tenant
  lock,     \* holder of the tenant lock
  accept,   \* progress of each Accept call
  pending,  \* the active requests in memory, with their plans
  order,    \* accepted sequence that the scheduler has not admitted yet
  arrived,  \* requests the scheduler holds until their turn
  queue,    \* the tenant's queue
  worker,   \* the flush under way
  caller,   \* progress of each direct operation
  left      \* what the bounds leave

vars == <<store, log, intact, wal, run, gate, lock, accept, pending, order,
          arrived, queue, worker, caller, left>>

volatile == <<gate, lock, accept, pending, order, arrived, queue, worker, caller>>

Nobody == "nobody"
TheWorker == "worker"
NoPlan == [base |-> 0, head |-> Nobody, commits |-> <<>>, made |-> FALSE]
Inactive == [active |-> FALSE, generation |-> 0, plan |-> NoPlan]
IdleWorker == [at |-> "idle", rest |-> <<>>, group |-> <<>>, todo |-> <<>>,
               commits |-> <<>>, fenced |-> FALSE]
OpenGate == [readers |-> {}, writer |-> Nobody, waiting |-> {}]
NotCalled == [at |-> "idle", awaiting |-> {}]

ASSUME BoundsAssumption ==
  /\ FlushMaxRequests \in Nat \ {0}
  /\ Workloads \subseteq [accepts : Nat, calls : [Callers -> Nat], faults : Nat]
  /\ Guarded \subseteq Requests
  /\ Operation \in [Callers -> {"commit", "purge", "create", "disable"}]

\* Commits of requests and commits of callers have different IDs.
ASSUME NamesAssumption ==
  Requests \intersect Callers = {} /\ {Nobody, TheWorker} \intersect Callers = {}

LoggedIds == {log[i].id : i \in DOMAIN log}
Ids(s) == {s[i] : i \in DOMAIN s}
HeadCommit(h) == IF h = <<>> THEN Nobody ELSE h[Len(h)]
FinalVersion(plan) == plan.base + Len(plan.commits)
FinalHead(plan) == IF plan.commits = <<>> THEN plan.head ELSE HeadCommit(plan.commits)

\* The items of s at the positions in keep, in their order.
Subsequence(s, keep) ==
  LET n == Cardinality(keep)
      at == CHOOSE at \in [1..n -> keep] : \A i, j \in 1..n : i < j => at[i] < at[j]
  IN [i \in 1..n |-> s[at[i]]]

\* What the log holds after records of some of the requests were appended.
WithPlan(l, ids, plan) ==
  [i \in DOMAIN l |-> IF l[i].id \in ids THEN [l[i] EXCEPT !.plan = plan] ELSE l[i]]
Without(l, ids) == Subsequence(l, {i \in DOMAIN l : l[i].id \notin ids})

\* A purge that began keeps the tenant fenced until it is created again.
Writable == store.phase = "cleared" /\ store.status = "active"
Residual == store.history # <<>> \/ \E r \in Requests : store.records[r] # "none"
Admits(r) == r \notin Guarded \/ store.admits

Fault == left.faults > 0 /\ left' = [left EXCEPT !.faults = @ - 1]
NoFault == UNCHANGED left

Init ==
  /\ store \in [history : {<<>>}, records : {[r \in Requests |-> "none"]},
                generation : {1}, phase : {"cleared"}, status : {"active"},
                admits : BOOLEAN]
  /\ log = <<>> /\ intact = TRUE /\ wal = "open" /\ run = "up"
  /\ gate = OpenGate /\ lock = Nobody
  /\ accept = [r \in Requests |-> [at |-> "idle", generation |-> 0]]
  /\ pending = [r \in Requests |-> Inactive]
  /\ order = <<>> /\ arrived = {} /\ queue = <<>>
  /\ worker = IdleWorker
  /\ caller = [c \in Callers |-> NotCalled]
  /\ left \in Workloads

------------------------------------------------------------------------------
(* Accepting a request.  The call holds the gate as a reader from before   *)
(* it looks at anything until its request is in the scheduler's hands.     *)

Leave(g, r) == [g EXCEPT !.readers = @ \ {r}]

\* Mutant: the call does not wait for operations that pause ingestion.
AcceptBeginUngated(r) ==
  /\ run = "up" /\ accept[r].at = "idle" /\ ~pending[r].active
  /\ left.accepts > 0
  /\ left' = [left EXCEPT !.accepts = @ - 1]
  /\ accept' = [accept EXCEPT ![r] = [at |-> "admitted", generation |-> store.generation]]
  /\ UNCHANGED <<store, log, intact, wal, run, gate, lock, pending, order, arrived, queue, worker, caller>>

AcceptBegin(r) ==
  /\ run = "up" /\ accept[r].at = "idle" /\ ~pending[r].active
  /\ gate.writer = Nobody /\ gate.waiting = {}
  /\ left.accepts > 0
  /\ left' = [left EXCEPT !.accepts = @ - 1]
  /\ gate' = [gate EXCEPT !.readers = @ \union {r}]
  /\ accept' = [accept EXCEPT ![r] = [at |-> "admitted", generation |-> store.generation]]
  /\ UNCHANGED <<store, log, intact, wal, run, lock, pending, order, arrived, queue, worker, caller>>

\* Closed, failed or full: the call fails and leaves nothing behind.
AcceptRefused(r) ==
  /\ accept[r].at = "admitted"
  /\ IF run = "up" THEN Fault ELSE NoFault
  /\ gate' = Leave(gate, r)
  /\ accept' = [accept EXCEPT ![r].at = "idle"]
  /\ UNCHANGED <<store, log, intact, wal, run, lock, pending, order, arrived, queue, worker, caller>>

\* The ACCEPTED record is durable.  Responses of the log resume their
\* callers in any order, which is why the sequence is kept.
AppendAccepted(r) ==
  /\ run \in {"up", "closing"} /\ wal = "open" /\ accept[r].at = "admitted"
  /\ log' = Append(log, [id |-> r, generation |-> accept[r].generation, plan |-> NoPlan])
  /\ order' = Append(order, r)
  /\ accept' = [accept EXCEPT ![r].at = "logged"]
  /\ UNCHANGED <<store, intact, wal, run, gate, lock, pending, arrived, queue, worker, caller, left>>

\* Records that a failing writer may or may not leave behind, by what the log
\* then is; a writer that failed before leaves nothing.
LogFails(outcomes) ==
  \/ wal = "open" /\ Fault /\ wal' = "failed" /\ log' \in outcomes
  \/ wal = "failed" /\ NoFault /\ UNCHANGED <<wal, log>>

\* The log failed or had failed, and the service stops.
AppendAcceptedFails(r) ==
  /\ run \in {"up", "closing"} /\ accept[r].at = "admitted"
  /\ LogFails({log, Append(log, [id |-> r, generation |-> accept[r].generation, plan |-> NoPlan])})
  /\ run' = "fatal"
  /\ gate' = Leave(gate, r)
  /\ accept' = [accept EXCEPT ![r].at = "idle"]
  /\ UNCHANGED <<store, intact, lock, pending, order, arrived, queue, worker, caller>>

Activate(r) ==
  /\ accept[r].at = "logged"
  /\ pending' = [pending EXCEPT ![r] =
       [active |-> TRUE, generation |-> accept[r].generation, plan |-> NoPlan]]
  /\ accept' = [accept EXCEPT ![r].at = "active"]
  /\ UNCHANGED <<store, log, intact, wal, run, gate, lock, order, arrived, queue, worker, caller, left>>

\* The longest prefix of the sequence that has arrived moves to the queue.
Ready(waiting, here) ==
  CHOOSE n \in 0..Len(waiting) :
    /\ \A i \in 1..n : waiting[i] \in here
    /\ n = Len(waiting) \/ waiting[n + 1] \notin here

\* Mutant: requests are queued as their callers come back from the log.
EnqueueInArrivalOrder(r) ==
  /\ accept[r].at = "active"
  /\ accept' = [accept EXCEPT ![r].at = "idle"]
  /\ gate' = Leave(gate, r)
  /\ IF run = "fatal" THEN UNCHANGED <<order, arrived, queue>>
     ELSE /\ queue' = Append(queue, r)
          /\ order' = Subsequence(order, {i \in DOMAIN order : order[i] # r})
          /\ UNCHANGED arrived
  /\ UNCHANGED <<store, log, intact, wal, run, lock, pending, worker, caller, left>>

Enqueue(r) ==
  /\ accept[r].at = "active"
  /\ accept' = [accept EXCEPT ![r].at = "idle"]
  /\ gate' = Leave(gate, r)
  /\ IF run = "fatal" THEN UNCHANGED <<order, arrived, queue>>
     ELSE LET here == arrived \union {r}
              n == Ready(order, here)
              turn == SubSeq(order, 1, n)
          IN /\ queue' = queue \o turn
             /\ order' = SubSeq(order, n + 1, Len(order))
             /\ arrived' = here \ Ids(turn)
  /\ UNCHANGED <<store, log, intact, wal, run, lock, pending, worker, caller, left>>

------------------------------------------------------------------------------
(* The worker.                                                             *)

Dispatch ==
  /\ run \in {"up", "closing"} /\ worker.at = "idle" /\ queue # <<>>
  /\ worker' = [IdleWorker EXCEPT !.at = "group", !.rest = queue]
  /\ queue' = <<>>
  /\ UNCHANGED <<store, log, intact, wal, run, gate, lock, accept, pending, order, arrived, caller, left>>

\* A prepared cohort is flushed whole.  Other requests form groups of one
\* generation; byte limits and splitting may make such a group smaller.
SameCohort(r, s) ==
  /\ pending[r].plan = pending[s].plan
  /\ pending[r].generation = pending[s].generation

GroupSizes(items) ==
  LET full == CHOOSE n \in 1..Len(items) :
                /\ \A i \in 1..n : SameCohort(items[1], items[i])
                /\ n = Len(items) \/ ~SameCohort(items[1], items[n + 1])
  IN IF pending[items[1]].plan.made THEN {full}
     ELSE {n \in 1..full : n <= FlushMaxRequests}

NextGroup ==
  /\ worker.at = "group" /\ worker.rest # <<>> /\ run \in {"up", "closing"}
  /\ \E n \in GroupSizes(worker.rest) :
       worker' = [worker EXCEPT !.at = IF Writable THEN "entering" ELSE "failing",
                                !.fenced = FALSE,
                                !.group = SubSeq(worker.rest, 1, n),
                                !.rest = SubSeq(worker.rest, n + 1, Len(worker.rest))]
  /\ UNCHANGED <<store, log, intact, wal, run, gate, lock, accept, pending, order, arrived, queue, caller, left>>

FlushDone ==
  /\ worker.at = "group" /\ worker.rest = <<>>
  /\ worker' = IdleWorker
  /\ UNCHANGED <<store, log, intact, wal, run, gate, lock, accept, pending, order, arrived, queue, caller, left>>

\* Mutant: the groups behind the one that failed are forgotten.
RetriedGroupOnly(items) == items \o queue

\* What was not finished goes back to the front of the queue, in order.
Retried(items) == items \o worker.rest \o queue

\* Whether the manifest already contains the plan of a request.
Published(plan, r) ==
  LET h == store.history
      target == IF r \in Ids(plan.commits)
                THEN plan.base + (CHOOSE i \in DOMAIN plan.commits : plan.commits[i] = r)
                ELSE FinalVersion(plan)
      id == IF r \in Ids(plan.commits) THEN r ELSE FinalHead(plan)
  IN IF Len(h) = plan.base /\ HeadCommit(h) = plan.head THEN "no"
     ELSE IF Len(h) = FinalVersion(plan) /\ HeadCommit(h) = FinalHead(plan) THEN "yes"
     ELSE IF Len(h) > FinalVersion(plan) /\ target > 0 /\ h[target] = id THEN "yes"
     ELSE "repair"

\* Requests of the group that have no batch record yet.
Candidates ==
  LET g == worker.group IN Subsequence(g, {i \in DOMAIN g : store.records[g[i]] = "none"})
CohortPlan == pending[worker.group[1]].plan
FreshCommits ==
  LET g == worker.group
  IN Subsequence(g, {i \in DOMAIN g : store.records[g[i]] = "none" /\ Admits(g[i])})
FreshPlan == [base |-> Len(store.history), head |-> HeadCommit(store.history),
              commits |-> FreshCommits, made |-> TRUE]

\* A prepared commit that no longer applies, or a cohort that would publish
\* something other than its plan, needs an operator.
PlanHolds ==
  /\ \A r \in Ids(Candidates) : Published(CohortPlan, r) # "repair"
  /\ (\E r \in Ids(Candidates) : Published(CohortPlan, r) = "no" /\ r \in Ids(CohortPlan.commits))
       => FreshCommits = CohortPlan.commits
\* The plan is carried out as a whole or found published as a whole.
CommitsOfCohort ==
  IF \E r \in Ids(Candidates) : Published(CohortPlan, r) = "no" THEN FreshCommits ELSE <<>>

WorkerUnlocks == lock' = IF lock = TheWorker THEN Nobody ELSE lock

Fatal ==
  /\ run' = "fatal" /\ WorkerUnlocks /\ worker' = IdleWorker
  /\ UNCHANGED <<queue, pending>>

\* Mutant: the worker trusts the generation a request was accepted for.
NeverFenced(r) == r \notin Requests

\* The tenant of the request was purged after the request was accepted.
Fenced(r) == pending[r].generation # store.generation

\* The worker takes the tenant lock and decides what the group becomes.
EnterTenant ==
  /\ worker.at = "entering" /\ lock = Nobody
  /\ LET fenced == Fenced(worker.group[1])
     IN \/ /\ fenced \/ ~Writable
           /\ worker' = [worker EXCEPT !.at = "failing", !.fenced = fenced]
           /\ UNCHANGED <<lock, run>>
        \/ /\ ~fenced /\ Writable /\ CohortPlan.made /\ ~PlanHolds
           /\ run' = "fatal" /\ worker' = IdleWorker /\ UNCHANGED lock
        \/ /\ ~fenced /\ Writable /\ CohortPlan.made /\ PlanHolds
           /\ lock' = TheWorker
           /\ worker' = [worker EXCEPT !.at = "planned", !.todo = Candidates,
                                       !.commits = CommitsOfCohort]
           /\ UNCHANGED run
        \/ /\ ~fenced /\ Writable /\ ~CohortPlan.made
           /\ lock' = TheWorker
           /\ worker' = [worker EXCEPT !.at = "planning", !.todo = Candidates,
                                       !.commits = FreshCommits]
           /\ UNCHANGED run
  /\ UNCHANGED <<store, log, intact, wal, gate, accept, pending, order, arrived, queue, caller, left>>

\* Mutant: the plan is kept in memory and written with the terminal record.
AppendPreparedInMemory ==
  /\ worker.at = "planning" /\ run \in {"up", "closing"} /\ (wal = "open" \/ worker.todo = <<>>)
  /\ pending' = [r \in Requests |-> IF r \in Ids(worker.todo)
                   THEN [pending[r] EXCEPT !.plan = FreshPlan] ELSE pending[r]]
  /\ worker' = [worker EXCEPT !.at = "planned"]
  /\ UNCHANGED <<store, log, intact, wal, run, gate, lock, accept, order, arrived, queue, caller, left>>

\* One PREPARED record for the whole group, unless all of it has records.
\* Recovery refuses a record that names a request it does not hold.
AppendPrepared ==
  /\ worker.at = "planning" /\ run \in {"up", "closing"} /\ (wal = "open" \/ worker.todo = <<>>)
  /\ log' = WithPlan(log, Ids(worker.todo), FreshPlan)
  /\ intact' = (intact /\ Ids(worker.todo) \subseteq LoggedIds)
  /\ pending' = [r \in Requests |-> IF r \in Ids(worker.todo)
                   THEN [pending[r] EXCEPT !.plan = FreshPlan] ELSE pending[r]]
  /\ worker' = [worker EXCEPT !.at = "planned"]
  /\ UNCHANGED <<store, wal, run, gate, lock, accept, order, arrived, queue, caller, left>>

\* The log failed under the plan, which may or may not be durable.  The group
\* is retried like after any other error: the service does not notice.
AppendPreparedFails ==
  /\ worker.at = "planning" /\ run \in {"up", "closing"} /\ worker.todo # <<>>
  /\ LogFails({log, WithPlan(log, Ids(worker.todo), FreshPlan)})
  /\ queue' = Retried(worker.group)
  /\ worker' = IdleWorker
  /\ WorkerUnlocks
  /\ UNCHANGED <<store, intact, run, gate, accept, pending, order, arrived, caller>>

\* Any error of the flush that is neither terminal nor fatal: pressure, a
\* full log, an object that could not be written.
FlushRetries ==
  /\ worker.at \in {"entering", "planning", "planned", "published", "recorded"} /\ Fault
  /\ queue' = Retried(worker.group)
  /\ worker' = IdleWorker
  /\ WorkerUnlocks
  /\ UNCHANGED <<store, log, intact, wal, run, gate, accept, pending, order, arrived, caller>>

\* The manifest is replaced and the tenant lock released.
Publish ==
  /\ worker.at = "planned"
  /\ store' = [store EXCEPT !.history = @ \o worker.commits]
  /\ lock' = Nobody
  /\ worker' = [worker EXCEPT !.at = "published"]
  /\ UNCHANGED <<log, intact, wal, run, gate, accept, pending, order, arrived, queue, caller, left>>

\* The manifest was replaced although the write returned an error.
PublishUnanswered ==
  /\ worker.at = "planned" /\ worker.commits # <<>> /\ Fault
  /\ store' = [store EXCEPT !.history = @ \o worker.commits]
  /\ lock' = Nobody
  /\ queue' = Retried(worker.group)
  /\ worker' = IdleWorker
  /\ UNCHANGED <<log, intact, wal, run, gate, accept, pending, order, arrived, caller>>

\* The outcome of a request is its plan's, unless it was evaluated again.
OutcomeOf(r) ==
  IF r \in Ids(worker.commits) \union Ids(pending[r].plan.commits) THEN "applied" ELSE "failed"
Recorded(ids) ==
  [r \in Requests |-> IF r \in ids THEN OutcomeOf(r) ELSE store.records[r]]

\* Mutant: the terminal record does not wait for the batch record.
SaveMetadataLater ==
  /\ worker.at = "published"
  /\ worker' = [worker EXCEPT !.at = "recorded"]
  /\ UNCHANGED <<store, log, intact, wal, run, gate, lock, accept, pending, order, arrived, queue, caller, left>>

\* Batch records are written side by side, outside the tenant lock; when
\* one fails the others may be durable.
SaveMetadata ==
  /\ worker.at = "published"
  /\ store' = [store EXCEPT !.records = Recorded(Ids(worker.todo))]
  /\ worker' = [worker EXCEPT !.at = "recorded"]
  /\ UNCHANGED <<log, intact, wal, run, gate, lock, accept, pending, order, arrived, queue, caller, left>>

SaveMetadataFails ==
  /\ worker.at = "published" /\ Fault
  /\ \E some \in SUBSET Ids(worker.todo) :
       /\ some # Ids(worker.todo)
       /\ store' = [store EXCEPT !.records = Recorded(some)]
  /\ queue' = Retried(worker.group)
  /\ worker' = IdleWorker
  /\ UNCHANGED <<log, intact, wal, run, gate, lock, accept, pending, order, arrived, caller>>

\* A terminal error.  A fenced request leaves no record in the tenant that
\* replaced its own; every other one resolves to a durable outcome.
Resolved(ids) ==
  [r \in Requests |-> IF r \in ids /\ store.records[r] = "none" THEN "failed"
                      ELSE store.records[r]]

FailGroup ==
  /\ worker.at = "failing"
  /\ store' = IF worker.fenced THEN store
              ELSE [store EXCEPT !.records = Resolved(Ids(worker.group))]
  /\ worker' = [worker EXCEPT !.at = "recorded"]
  /\ UNCHANGED <<log, intact, wal, run, gate, lock, accept, pending, order, arrived, queue, caller, left>>

\* Writing one of the failures fails: the group is retried.
FailGroupPartly ==
  /\ worker.at = "failing" /\ ~worker.fenced /\ Fault
  /\ \E some \in SUBSET Ids(worker.group) :
       /\ some # Ids(worker.group)
       /\ store' = [store EXCEPT !.records = Resolved(some)]
  /\ queue' = Retried(worker.group)
  /\ worker' = IdleWorker
  /\ UNCHANGED <<log, intact, wal, run, gate, lock, accept, pending, order, arrived, caller>>

\* The requests answered by a batch of terminal records of which some were
\* refused: those before the first refusal.
Answered(durable) ==
  LET g == worker.group
      n == CHOOSE n \in 0..Len(g) :
             /\ \A i \in 1..n : g[i] \in durable
             /\ n = Len(g) \/ g[n + 1] \notin durable
  IN SubSeq(g, 1, n)
Completed(ids) ==
  [r \in Requests |-> IF r \in ids THEN Inactive ELSE pending[r]]

AppendTerminal ==
  /\ worker.at = "recorded" /\ run \in {"up", "closing"} /\ wal = "open"
  /\ log' = Without(log, Ids(worker.group))
  /\ pending' = Completed(Ids(worker.group))
  /\ worker' = [worker EXCEPT !.at = "group", !.group = <<>>, !.todo = <<>>, !.commits = <<>>]
  /\ UNCHANGED <<store, intact, wal, run, gate, lock, accept, order, arrived, queue, caller, left>>

\* A later request may be durably finished while it is retried behind an
\* earlier one.
AppendTerminalPartly ==
  /\ worker.at = "recorded" /\ run \in {"up", "closing"} /\ wal = "open" /\ Fault
  /\ \E durable \in SUBSET Ids(worker.group) :
       LET done == Answered(durable)
       IN /\ durable # Ids(worker.group)
          /\ log' = Without(log, durable)
          /\ pending' = Completed(Ids(done))
          /\ queue' = Retried(SubSeq(worker.group, Len(done) + 1, Len(worker.group)))
  /\ worker' = IdleWorker
  /\ UNCHANGED <<store, intact, wal, run, gate, lock, accept, order, arrived, caller>>

\* Under a terminal record the service does notice.
AppendTerminalFails ==
  /\ worker.at = "recorded" /\ run \in {"up", "closing"}
  /\ LogFails({Without(log, durable) : durable \in SUBSET Ids(worker.group)})
  /\ Fatal
  /\ UNCHANGED <<store, intact, gate, accept, order, arrived, caller>>

------------------------------------------------------------------------------
(* Operations that pause the ingest of the tenant.                         *)

Call(c) ==
  /\ run # "down" /\ caller[c].at = "idle" /\ left.calls[c] > 0
  /\ left' = [left EXCEPT !.calls[c] = @ - 1]
  /\ IF Operation[c] = "disable"   \* drains without pausing admission
     THEN /\ caller' = [caller EXCEPT ![c].at = "gated"]
          /\ UNCHANGED gate
     ELSE /\ gate' = [gate EXCEPT !.waiting = @ \union {c}]
          /\ caller' = [caller EXCEPT ![c].at = "waiting"]
  /\ UNCHANGED <<store, log, intact, wal, run, lock, accept, pending, order, arrived, queue, worker>>

EnterGate(c) ==
  /\ caller[c].at = "waiting" /\ gate.writer = Nobody /\ gate.readers = {}
  /\ gate' = [gate EXCEPT !.waiting = @ \ {c}, !.writer = c]
  /\ caller' = [caller EXCEPT ![c].at = "gated"]
  /\ UNCHANGED <<store, log, intact, wal, run, lock, accept, pending, order, arrived, queue, worker, left>>

\* Mutant: an operation returns with the gate closed behind it.
ReturnKeepsGate(c) ==
  /\ gate' = [gate EXCEPT !.waiting = @ \ {c}]
  /\ caller' = [caller EXCEPT ![c] = NotCalled]

Return(c) ==
  /\ gate' = [gate EXCEPT !.waiting = @ \ {c}, !.writer = IF @ = c THEN Nobody ELSE @]
  /\ caller' = [caller EXCEPT ![c] = NotCalled]

\* FlushTenant: the requests that are active now must finish.
Barrier(c) ==
  /\ caller[c].at = "gated"
  /\ \/ /\ run = "closing" /\ Return(c)
     \/ /\ run # "closing"
        /\ LET active == {r \in Requests : pending[r].active}
           IN caller' = [caller EXCEPT ![c] =
                [at |-> IF active = {} THEN "drained" ELSE "flushing", awaiting |-> active]]
        /\ UNCHANGED gate
  /\ UNCHANGED <<store, log, intact, wal, run, lock, accept, pending, order, arrived, queue, worker, left>>

BarrierDone(c) ==
  /\ caller[c].at = "flushing"
  /\ \/ /\ \A r \in caller[c].awaiting : ~pending[r].active
        /\ caller' = [caller EXCEPT ![c] = [at |-> "drained", awaiting |-> {}]]
        /\ UNCHANGED gate
     \/ /\ run = "fatal" /\ Return(c)
  /\ UNCHANGED <<store, log, intact, wal, run, lock, accept, pending, order, arrived, queue, worker, left>>

\* The caller's context ends while it waits for the gate or the barrier.
GiveUp(c) ==
  /\ caller[c].at \in {"waiting", "flushing"} /\ Return(c)
  /\ UNCHANGED <<store, log, intact, wal, run, lock, accept, pending, order, arrived, queue, worker, left>>

\* Mutant: a direct commit reopens the gate before it holds the lock.
TakeLockAfterResume(c) ==
  /\ caller[c].at = "drained"
  /\ \/ /\ gate.writer = c /\ Operation[c] = "commit"
        /\ gate' = [gate EXCEPT !.writer = Nobody]
        /\ UNCHANGED <<lock, caller>>
     \/ /\ lock = Nobody /\ (gate.writer # c \/ Operation[c] # "commit")
        /\ lock' = c
        /\ caller' = [caller EXCEPT ![c].at = "locked"]
        /\ UNCHANGED gate
  /\ UNCHANGED <<store, log, intact, wal, run, accept, pending, order, arrived, queue, worker, left>>

\* A direct commit reopens the gate once it holds the tenant lock, since
\* whatever is accepted from now on is prepared under the same lock.
TakeLock(c) ==
  /\ caller[c].at = "drained" /\ lock = Nobody
  /\ lock' = c
  /\ caller' = [caller EXCEPT ![c].at = "locked"]
  /\ gate' = IF Operation[c] = "commit" THEN [gate EXCEPT !.writer = Nobody] ELSE gate
  /\ UNCHANGED <<store, log, intact, wal, run, accept, pending, order, arrived, queue, worker, left>>

DirectCommit(c) ==
  /\ caller[c].at = "locked" /\ Operation[c] = "commit"
  /\ store' = IF Writable THEN [store EXCEPT !.history = Append(@, c)] ELSE store
  /\ lock' = Nobody /\ Return(c)
  /\ UNCHANGED <<log, intact, wal, run, accept, pending, order, arrived, queue, worker, left>>

\* The tombstone and the next generation are durable before any object of
\* the tenant is deleted.
PurgeBegins(c) ==
  /\ caller[c].at = "locked" /\ Operation[c] = "purge"
  /\ \/ /\ store.phase = "complete" /\ ~Residual
        /\ lock' = Nobody /\ Return(c) /\ UNCHANGED store
     \/ /\ store.phase # "complete" \/ Residual
        /\ store' = [store EXCEPT !.phase = "running", !.generation = @ + 1]
        /\ caller' = [caller EXCEPT ![c].at = "purging"]
        /\ UNCHANGED <<lock, gate>>
  /\ UNCHANGED <<log, intact, wal, run, accept, pending, order, arrived, queue, worker, left>>

PurgeDeletes(c) ==
  /\ caller[c].at = "purging"
  /\ store' = [store EXCEPT !.history = <<>>, !.phase = "complete",
                            !.records = [r \in Requests |-> "none"]]
  /\ lock' = Nobody /\ Return(c)
  /\ UNCHANGED <<log, intact, wal, run, accept, pending, order, arrived, queue, worker, left>>

\* A purged tenant is created again only when nothing of it is left.
CreateTenant(c) ==
  /\ caller[c].at = "locked" /\ Operation[c] = "create"
  /\ store' = IF store.phase = "complete" /\ ~Residual
              THEN [store EXCEPT !.phase = "cleared"] ELSE store
  /\ lock' = Nobody /\ Return(c)
  /\ UNCHANGED <<log, intact, wal, run, accept, pending, order, arrived, queue, worker, left>>

SetTenantStatus(c) ==
  /\ caller[c].at = "locked" /\ Operation[c] = "disable"
  /\ store' = [store EXCEPT !.status = "disabled"]
  /\ lock' = Nobody /\ Return(c)
  /\ UNCHANGED <<log, intact, wal, run, accept, pending, order, arrived, queue, worker, left>>

------------------------------------------------------------------------------
(* The process.                                                            *)

Forget ==
  /\ gate' = OpenGate /\ lock' = Nobody
  /\ accept' = [r \in Requests |-> [at |-> "idle", generation |-> 0]]
  /\ pending' = [r \in Requests |-> Inactive]
  /\ order' = <<>> /\ arrived' = {} /\ queue' = <<>>
  /\ worker' = IdleWorker
  /\ caller' = [c \in Callers |-> NotCalled]

Crash ==
  /\ run # "down" /\ (IF run = "fatal" THEN NoFault ELSE Fault)
  /\ run' = "down" /\ Forget
  /\ UNCHANGED <<store, log, intact, wal>>

\* Once the service failed, a flush under way ends with its context.
WorkerStops ==
  /\ run = "fatal" /\ worker.at # "idle"
  /\ worker' = IdleWorker
  /\ WorkerUnlocks
  /\ UNCHANGED <<store, log, intact, wal, run, gate, accept, pending, order, arrived, queue, caller, left>>

Close ==
  /\ run = "up" /\ Fault
  /\ run' = "closing"
  /\ UNCHANGED <<store, log, intact, wal, volatile>>

\* Accept calls that began are waited for, then everything queued is
\* flushed, and only then does the log close.
Drained ==
  /\ \A r \in Requests : accept[r].at = "idle"
  /\ order = <<>> /\ arrived = {} /\ queue = <<>> /\ worker.at = "idle"

\* On a failed log the drain ends with the deadline of the shutdown.
Closed ==
  /\ run = "closing" /\ (Drained \/ wal = "failed")
  /\ run' = "down" /\ Forget
  /\ UNCHANGED <<store, log, intact, wal, left>>

\* OpenIngestService: the log gives back what is outstanding, in LSN order
\* and with its plans.
Restart ==
  /\ run = "down" /\ intact
  /\ run' = "up" /\ wal' = "open"
  /\ pending' = [r \in Requests |->
       IF r \in LoggedIds
       THEN LET i == CHOOSE i \in DOMAIN log : log[i].id = r
            IN [active |-> TRUE, generation |-> log[i].generation, plan |-> log[i].plan]
       ELSE Inactive]
  /\ queue' = [i \in DOMAIN log |-> log[i].id]
  /\ UNCHANGED <<store, log, intact, gate, lock, accept, order, arrived, worker, caller, left>>

------------------------------------------------------------------------------
AcceptStep(r) ==
  AcceptRefused(r) \/ AppendAccepted(r) \/ AppendAcceptedFails(r) \/ Activate(r) \/ Enqueue(r)

WorkerStep ==
  \/ Dispatch \/ NextGroup \/ FlushDone \/ EnterTenant
  \/ AppendPrepared \/ AppendPreparedFails \/ FlushRetries
  \/ Publish \/ PublishUnanswered \/ SaveMetadata \/ SaveMetadataFails
  \/ FailGroup \/ FailGroupPartly
  \/ AppendTerminal \/ AppendTerminalPartly \/ AppendTerminalFails

CallerStep(c) ==
  \/ EnterGate(c) \/ Barrier(c) \/ BarrierDone(c) \/ TakeLock(c)
  \/ DirectCommit(c) \/ PurgeBegins(c) \/ PurgeDeletes(c) \/ CreateTenant(c)

Next ==
  \/ \E r \in Requests : AcceptBegin(r) \/ AcceptStep(r)
  \/ WorkerStep
  \/ \E c \in Callers : Call(c) \/ CallerStep(c) \/ GiveUp(c)
  \/ Crash \/ WorkerStops \/ Close \/ Closed \/ Restart

\* Goroutines run; a failed service is stopped and a stopped one started
\* again by whoever runs the process.
Fairness ==
  /\ \A r \in Requests : WF_vars(AcceptStep(r))
  /\ WF_vars(WorkerStep)
  /\ \A c \in Callers : WF_vars(CallerStep(c))
  /\ WF_vars(run = "fatal" /\ Crash)
  /\ WF_vars(Closed) /\ WF_vars(Restart)

Spec == Init /\ [][Next]_vars /\ Fairness

\* The same service beside an operator who disables the tenant.
NextOperated == Next \/ \E c \in Callers : SetTenantStatus(c)
SpecOperated == Init /\ [][NextOperated]_vars /\ Fairness

------------------------------------------------------------------------------
(* Properties.                                                             *)

Outcomes == {"none", "applied", "failed"}
PlanType == [base : Nat, head : Requests \union Callers \union {Nobody},
             commits : Seq(Requests), made : BOOLEAN]

StoreType == [history : Seq(Requests \union Callers), records : [Requests -> Outcomes],
              generation : Nat, phase : {"cleared", "running", "complete"},
              status : {"active", "disabled"}, admits : BOOLEAN]
EntryType == [id : Requests, generation : Nat, plan : PlanType]
WorkerType ==
  [at : {"idle", "group", "entering", "planning", "planned", "published", "recorded", "failing"},
   rest : Seq(Requests), group : Seq(Requests), todo : Seq(Requests), commits : Seq(Requests),
   fenced : BOOLEAN]
CallerType ==
  [at : {"idle", "waiting", "gated", "flushing", "drained", "locked", "purging"},
   awaiting : SUBSET Requests]

AcceptType == [at : {"idle", "admitted", "logged", "active"}, generation : Nat]
PendingType == [active : BOOLEAN, generation : Nat, plan : PlanType]
LeftType == [accepts : Nat, calls : [Callers -> Nat], faults : Nat]
GateType ==
  {g \in [readers : SUBSET Requests, writer : Callers \union {Nobody}, waiting : SUBSET Callers] :
     g.writer # Nobody => g.readers = {}}

\* Type invariant; the gate has one writer or readers, never both.
TypeOK ==
  /\ store \in StoreType
  /\ log \in Seq(EntryType)
  /\ intact \in BOOLEAN /\ wal \in {"open", "failed"} /\ run \in {"up", "closing", "fatal", "down"}
  /\ gate \in GateType
  /\ lock \in Callers \union {Nobody, TheWorker}
  /\ accept \in [Requests -> AcceptType]
  /\ pending \in [Requests -> PendingType]
  /\ order \in Seq(Requests) /\ arrived \subseteq Requests /\ queue \in Seq(Requests)
  /\ worker \in WorkerType
  /\ caller \in [Callers -> CallerType]
  /\ left \in LeftType

\* A durable plan can always be read back, and its manifest is found again:
\* whatever crash, retry or direct commit came between, recovery accepts the
\* log and the manifest is the plan's base or its final state, never a third
\* one that only an operator could repair.
DurablePlansFit ==
  /\ intact
  /\ \A i \in DOMAIN log :
       LET e == log[i]
           h == store.history
       IN (e.plan.made /\ e.generation = store.generation /\ store.phase = "cleared") =>
            \/ Len(h) = e.plan.base /\ HeadCommit(h) = e.plan.head
            \/ Len(h) = FinalVersion(e.plan) /\ HeadCommit(h) = FinalHead(e.plan)

\* What a batch record tells the client is what happened to the graph: an
\* applied request is in the history exactly once, a failed one is not.
OutcomesAreTrue ==
  store.phase = "cleared" =>
    \A r \in Requests :
      LET times == Cardinality({i \in DOMAIN store.history : store.history[i] = r})
      IN /\ times <= 1
         /\ store.records[r] = "applied" => times = 1
         /\ store.records[r] = "failed" => times = 0

\* A request is prepared only when every request acknowledged before it, in
\* log order, is prepared or has its outcome.
PreparedInLogOrder ==
  \A i, j \in DOMAIN log :
    (i < j /\ log[j].plan.made /\ log[i].generation = log[j].generation
       /\ log[j].generation = store.generation /\ store.records[log[i].id] = "none")
      => log[i].plan.made

\* A request leaves the durable log only with a durable outcome, unless the
\* tenant it was accepted for has been purged.
FinishedHasOutcome ==
  [][\A i \in DOMAIN log :
       (log[i].id \notin {log'[k].id : k \in DOMAIN log'}
          /\ log[i].generation = store.generation)
       => store.records[log[i].id] # "none"]_vars

\* A request acknowledged for a purged tenant never reaches the graph of
\* the tenant created after it.
GenerationsStayApart ==
  [][\A r \in Requests :
       (r \in Ids(store'.history) /\ r \notin Ids(store.history))
       => \E i \in DOMAIN log : log[i].id = r /\ log[i].generation = store.generation]_vars

\* An operation that passed the barrier of a working service finds nothing
\* outstanding that was acknowledged before it, and until it holds the
\* tenant lock nothing new is accepted.
BarrierDrains ==
  \A c \in Callers :
    (caller[c].at = "drained" /\ Operation[c] # "disable" /\ run # "fatal") => log = <<>>

\* The log failed under a plan, and nothing that would stop the service has
\* met it since.
Unnoticed == run = "up" /\ wal = "failed"

\* Every acknowledged request is finished, whatever fails, crashes or is
\* retried, unless the service goes on for ever with a log that failed.
AcknowledgedFinish ==
  \A r \in Requests : (r \in LoggedIds) ~> (r \notin LoggedIds \/ []Unnoticed)

\* Every direct operation returns, with the same exception: gate, barrier and
\* tenant lock never wait for each other.
CallsReturn ==
  \A c \in Callers : (caller[c].at # "idle") ~> (caller[c].at = "idle" \/ []Unnoticed)
=============================================================================
