-------------------------- MODULE IngestServiceInv --------------------------
(***************************************************************************)
(* The inductive invariant behind the safety properties of IngestService.  *)
(* IngestServiceProofs proves it.                                          *)
(***************************************************************************)
EXTENDS IngestService

Working == run \in {"up", "closing"}
Distinct(s) == \A i, j \in DOMAIN s : s[i] = s[j] => i = j

-----------------------------------------------------------------------------
(* Where the acknowledged requests are.                                    *)

\* Every request the service holds, in the order in which it was accepted.
Pipe == worker.group \o (worker.rest \o (queue \o order))

\* Held by the scheduler or the worker: its Accept call has returned.
Held(r) == pending[r].active /\ accept[r].at = "idle"

PipeInv ==
  /\ Distinct(Pipe)
  /\ \A r \in Ids(worker.group) \union Ids(worker.rest) \union Ids(queue) \union arrived : Held(r)
  /\ arrived \subseteq Ids(order)
  /\ Working => \A r \in Requests :
       r \in Ids(order) \ arrived <=> accept[r].at \in {"logged", "active"}
  /\ worker.at = "idle" => worker = IdleWorker
  /\ worker.at = "group" => worker.group = <<>>
  /\ worker.at \notin {"idle", "group"} => worker.group # <<>>

-----------------------------------------------------------------------------
(* The gate, the barrier and the tenant lock.                              *)

Pausing(c) == Operation[c] # "disable" /\ caller[c].at \in {"gated", "flushing", "drained"}

\* A purge and a creation keep the gate until they return.
Replacing(c) == Operation[c] \in {"purge", "create"} /\ caller[c].at \in {"locked", "purging"}

GateInv ==
  /\ \A r \in Requests : r \in gate.readers <=> accept[r].at # "idle"
  /\ \A c \in Callers : Pausing(c) \/ Replacing(c) => gate.writer = c

DrainInv ==
  \A c \in Callers :
    /\ Pausing(c) /\ caller[c].at = "flushing" =>
         \A r \in Requests : pending[r].active => r \in caller[c].awaiting
    /\ (Pausing(c) /\ caller[c].at = "drained") \/ Replacing(c) =>
         \A r \in Requests : ~pending[r].active

LockInv ==
  /\ lock = TheWorker <=> worker.at \in {"planning", "planned"}
  /\ \A c \in Callers : lock = c <=> caller[c].at \in {"locked", "purging"}
  /\ \A c \in Callers : caller[c].at = "purging" => Operation[c] = "purge"

\* A stopped process remembers nothing.
DownInv ==
  run = "down" =>
    /\ gate = OpenGate /\ lock = Nobody /\ worker = IdleWorker
    /\ accept = [r \in Requests |-> [at |-> "idle", generation |-> 0]]
    /\ pending = [r \in Requests |-> Inactive]
    /\ order = <<>> /\ arrived = {} /\ queue = <<>>
    /\ caller = [c \in Callers |-> NotCalled]

-----------------------------------------------------------------------------
(* The durable log and the memory of it.                                   *)

LogInv ==
  /\ \A i, j \in DOMAIN log : log[i].id = log[j].id => i = j
  /\ Working => \A r \in LoggedIds : pending[r].active \/ accept[r].at = "logged"
  /\ \A i \in DOMAIN log :
       /\ accept[log[i].id].at = "logged" => log[i].generation = accept[log[i].id].generation
       /\ pending[log[i].id].active => log[i].generation = pending[log[i].id].generation
  /\ \A r \in Requests :
       /\ accept[r].at = "admitted" => ~pending[r].active /\ r \notin LoggedIds
       /\ accept[r].at = "logged" => ~pending[r].active /\ r \in LoggedIds
       /\ accept[r].at = "active" => pending[r].active
       /\ pending[r].active /\ pending[r].generation = store.generation /\ r \notin LoggedIds =>
            store.records[r] # "none"

-----------------------------------------------------------------------------
(* The group of the worker.                                                *)

Current(r) == pending[r].generation = store.generation

CohortInv ==
  /\ \A r, s \in Ids(worker.group) : pending[r].generation = pending[s].generation
  /\ worker.at \in {"planning", "planned", "published"} =>
       /\ Ids(worker.commits) \subseteq Ids(worker.todo)
       /\ Ids(worker.todo) \subseteq Ids(worker.group)
       /\ \A r \in Ids(worker.group) \ Ids(worker.todo) : store.records[r] # "none"
  /\ worker.at \in {"planning", "planned"} =>
       \A r \in Ids(worker.todo) : store.records[r] = "none" /\ Current(r)
  /\ worker.at = "failing" /\ worker.fenced => \A r \in Ids(worker.group) : ~Current(r)
  /\ worker.at = "recorded" => \A r \in Ids(worker.group) : Current(r) => store.records[r] # "none"

BaseInv == TypeOK /\ PipeInv /\ GateInv /\ DrainInv /\ LockInv /\ DownInv /\ LogInv /\ CohortInv

-----------------------------------------------------------------------------
(* Plans.                                                                  *)

Entries == {log[i] : i \in DOMAIN log}

\* The plan of an entry is one for the tenant as it is.
InForce(e) == e.plan.made /\ e.generation = store.generation

AtBase(plan) == Len(store.history) = plan.base /\ HeadCommit(store.history) = plan.head
AtFinal(plan) ==
  Len(store.history) = FinalVersion(plan) /\ HeadCommit(store.history) = FinalHead(plan)

\* The log has the order of the pipe.
OrderInv ==
  /\ Working => \A r \in Requests : pending[r].active => r \in Ids(Pipe)
  /\ \A i, j \in DOMAIN log, p, q \in DOMAIN Pipe :
       i < j /\ Pipe[p] = log[i].id /\ Pipe[q] = log[j].id => p < q

\* Who may have a plan, and that memory and log have the same ones, but for
\* the plan under which the log failed.
EntryMarked(e) ==
  /\ e.plan.made \/ e.plan = NoPlan
  /\ e.generation <= store.generation
  /\ accept[e.id].at = "logged" => ~e.plan.made
  /\ e.plan.made => run = "down" \/ pending[e.id].active
  /\ pending[e.id].active /\ (Working \/ worker.at # "idle") =>
       pending[e.id].plan = e.plan \/ (wal = "failed" /\ pending[e.id].plan = NoPlan)

\* An operation past its barrier meets no plan.
Passed(c) == Operation[c] # "disable" /\ caller[c].at \in {"drained", "locked", "purging"}

MarkInv ==
  /\ intact
  /\ \A r \in Requests :
       /\ pending[r].plan.made \/ pending[r].plan = NoPlan
       /\ accept[r].at # "idle" => accept[r].generation = store.generation
  /\ \A e \in Entries : EntryMarked(e)
  /\ \A c \in Callers : Passed(c) => \A e \in Entries : ~e.plan.made

\* What the worker is about to do with its group.
FlushInv ==
  /\ \A r, s \in Ids(worker.group) : worker.at = "entering" => SameCohort(r, s)
  /\ worker.at \in {"planning", "planned", "published"} => store.phase = "cleared"
  /\ worker.at = "planning" =>
       /\ worker.todo = Candidates /\ worker.commits = FreshCommits
       /\ \A r \in Ids(worker.group) : ~pending[r].plan.made
  /\ worker.at \in {"planned", "published"} => \A r \in Ids(worker.todo) : pending[r].plan.made

\* One plan at a time, and the manifest is before or behind it.
OnePlan == \A e, f \in Entries : InForce(e) /\ InForce(f) => e.plan = f.plan
PlansFit ==
  \A e \in Entries : InForce(e) =>
    /\ AtBase(e.plan) \/ AtFinal(e.plan)
    /\ Admits(e.id) /\ store.records[e.id] = "none" => e.id \in Ids(e.plan.commits)

\* What the worker is about to publish is the plan, or nothing.
CommitsFit ==
  worker.at = "planned" =>
    \/ worker.commits = <<>>
    \/ \A e \in Entries : InForce(e) => AtBase(e.plan) /\ worker.commits = e.plan.commits

ForceInv == OnePlan /\ PlansFit /\ CommitsFit

-----------------------------------------------------------------------------
(* Outcomes.                                                               *)

\* A group fails without being fenced only in a tenant that is being replaced.
Standing ==
  /\ store.status = "active"
  /\ worker.at = "failing" /\ ~worker.fenced => store.phase # "cleared"

\* Published by a plan whose requests have no records yet.
Awaited(r) ==
  \E e \in Entries : e.id = r /\ InForce(e) /\ r \in Ids(e.plan.commits) /\ AtFinal(e.plan)

OutcomesFit ==
  store.phase = "cleared" =>
    \A r \in Requests :
      /\ \A i, j \in DOMAIN store.history : store.history[i] = r /\ store.history[j] = r => i = j
      /\ store.records[r] = "applied" => r \in Ids(store.history)
      /\ store.records[r] = "failed" => r \notin Ids(store.history)
      /\ store.records[r] = "none" /\ r \in Ids(store.history) => Awaited(r)

PlansReach ==
  \A e \in Entries : InForce(e) =>
    /\ Distinct(e.plan.commits)
    /\ AtFinal(e.plan) => Ids(e.plan.commits) \subseteq Ids(store.history)

\* What the worker takes for the outcome of a request is in the history.
CommitsReach ==
  /\ worker.at = "planned" => Distinct(worker.commits)
  /\ worker.at = "planned" /\ worker.commits = <<>> =>
       \A r \in Ids(worker.todo) :
         r \in Ids(pending[r].plan.commits) => r \in Ids(store.history)
  /\ worker.at = "published" =>
       \A r \in Ids(worker.todo) :
         r \in Ids(store.history) <=> r \in Ids(worker.commits) \union Ids(pending[r].plan.commits)

HistoryInv == Standing /\ OutcomesFit /\ PlansReach /\ CommitsReach

IInv == BaseInv /\ OrderInv /\ MarkInv /\ FlushInv /\ PreparedInLogOrder /\ ForceInv /\ HistoryInv
=============================================================================
