------------------------------- MODULE Tasks -------------------------------
(***************************************************************************)
(* The task runtime of one tenant of a local store (internal/storage,      *)
(* task*.go): durable task records, the in-memory registry that says which *)
(* of them have an owner, execution slots, cancellation, retry, shutdown   *)
(* and the reconciliation of records whose owner is gone.                  *)
(*                                                                         *)
(* Tasks are object backups, so one type and one "active" entry suffice;   *)
(* what a backup does between Begin and Finish is in BackupAutomation.     *)
(* A record's checkpoint is data of that operation.  The start of a task   *)
(* runs under the tenant lock, which is held while "starting" is set.      *)
(***************************************************************************)
EXTENDS Integers, FiniteSets

CONSTANTS MaxTasks,      \* bound on the tasks of a behaviour
          BackupSlots,   \* capacity of taskBackupSlots
          MaxTroubles    \* bound on crashes, shutdowns, failed writes and requests

VARIABLES tasks,         \* durable task records
          at,            \* where each task's worker is
          outcome,       \* what its operation returned
          active,        \* taskActive
          cancels,       \* IDs in taskCancels
          signalled,     \* workers whose context is cancelled
          execution,     \* who holds the tenant's execution admission
          starting,      \* the start in progress
          view,          \* the task a GetTask has read and not judged yet
          closing, troubles

runtime == <<at, outcome, active, cancels, signalled, execution, starting, view, closing>>
taskVars == <<tasks, runtime, troubles>>

Ids == 1..MaxTasks
NoEntry == [id |-> 0, version |-> 0]

\* What a retry takes over from the task it repeats.
NewCheckpoint(auto) == [auto |-> auto, captureId |-> 0, captured |-> FALSE, pending |-> NoEntry]

ASSUME TasksAssumption ==
    MaxTasks \in Nat \ {0} /\ BackupSlots \in Nat \ {0} /\ MaxTroubles \in Nat

NoTask == [status |-> "none", orphan |-> FALSE, checkpoint |-> NewCheckpoint(FALSE)]
NoStart == [id |-> 0, checkpoint |-> NewCheckpoint(FALSE), previous |-> [id |-> 0, final |-> FALSE]]
NoActive == [id |-> 0, final |-> FALSE]

taskTerminal(i) == tasks[i].status \in {"canceled", "failed", "succeeded"}
taskStillActive(i) == tasks[i].status \in {"queued", "running"}

LockFree == starting = NoStart
Unused(i) == tasks[i].status = "none" /\ at[i] = "none"

InitTasks ==
    /\ tasks = [i \in Ids |-> NoTask]
    /\ at = [i \in Ids |-> "none"] /\ outcome = [i \in Ids |-> "ok"]
    /\ active = NoActive /\ cancels = {} /\ signalled = {} /\ execution = 0
    /\ starting = NoStart /\ view = 0
    /\ closing = FALSE /\ troubles = 0

\* A conditional write of a record, and rememberTaskState.  A GetTask that
\* read the record before holds an older UpdatedAt.
putTask(i, record) ==
    /\ tasks' = [tasks EXCEPT ![i] = record]
    /\ active' = IF active.id = i /\ record.status \notin {"queued", "running"}
                 THEN [active EXCEPT !.final = TRUE] ELSE active
    /\ view' = IF view = i THEN 0 ELSE view

setStatus(i, status) == putTask(i, [tasks[i] EXCEPT !.status = status])

Goto(i, place) == at' = [at EXCEPT ![i] = place]

\* A crash, a shutdown, a failed write or a client that intervenes.
Trouble == troubles < MaxTroubles /\ troubles' = troubles + 1

-----------------------------------------------------------------------------
(***************************************************************************)
(* Starting a task.                                                        *)
(***************************************************************************)
\* admitTaskMode: a task that is not finished stands for every further start.
Admit(i, checkpoint) ==
    /\ ~closing /\ Unused(i)
    /\ active.id # 0 => active.final
    /\ starting' = [id |-> i, checkpoint |-> checkpoint, previous |-> active]
    /\ active' = [id |-> i, final |-> FALSE]
    /\ Goto(i, "save")
    /\ UNCHANGED <<tasks, outcome, cancels, signalled, execution, view, closing>>

queued == [status |-> "queued", orphan |-> FALSE, checkpoint |-> starting.checkpoint]

SaveTask(i) ==
    /\ at[i] = "save"
    /\ putTask(i, queued)
    /\ Goto(i, "register")
    /\ UNCHANGED <<outcome, cancels, signalled, execution, starting, closing, troubles>>

\* The deferred clean-up of a start that was not launched.  A write that is
\* reported as failed may have reached the disk.
SaveTaskFails(i) ==
    /\ at[i] = "save" /\ Trouble
    /\ active' = IF starting.previous.id \in cancels THEN starting.previous ELSE NoActive
    /\ tasks' \in {tasks, [tasks EXCEPT ![i] = queued]}
    /\ starting' = NoStart
    /\ Goto(i, "none")
    /\ UNCHANGED <<outcome, cancels, signalled, execution, view, closing>>

\* registerTaskCancel, after which the start returns and the worker runs.
RegisterTaskCancel(i) ==
    /\ at[i] = "register"
    /\ IF closing THEN signalled' = signalled \cup {i} /\ UNCHANGED cancels
                  ELSE cancels' = cancels \cup {i} /\ UNCHANGED signalled
    /\ starting' = NoStart
    /\ Goto(i, "slot")
    /\ UNCHANGED <<tasks, outcome, active, execution, view, closing, troubles>>

-----------------------------------------------------------------------------
(***************************************************************************)
(* The worker around its operation.                                        *)
(***************************************************************************)
backupHolders == {j \in Ids : at[j] \notin {"none", "save", "register", "slot"}}

\* The backup slot, then the execution admission of the tenant.
Acquire(i) ==
    /\ at[i] = "slot" /\ i \notin signalled
    /\ Cardinality(backupHolders) < BackupSlots /\ execution = 0
    /\ execution' = i
    /\ Goto(i, "begin")
    /\ UNCHANGED <<tasks, outcome, active, cancels, signalled, starting, view, closing, troubles>>

\* saveTask and its retries: one terminal status never replaces another, and
\* a record that cannot be written in time stays as it is.
trySaveTask(i, status) ==
    \/ taskTerminal(i) /\ UNCHANGED <<tasks, active, view, troubles>>
    \/ ~taskTerminal(i) /\ setStatus(i, status) /\ UNCHANGED troubles
    \/ ~taskTerminal(i) /\ Trouble /\ UNCHANGED <<tasks, active, view>>

\* persistQueuedTaskCancellation.
Dequeue(i) ==
    /\ at[i] = "slot" /\ i \in signalled
    /\ trySaveTask(i, "canceled")
    /\ Goto(i, "leave")
    /\ UNCHANGED <<outcome, cancels, signalled, execution, starting, closing>>

canceledBeforeRun(i) == i \in signalled \/ tasks[i].status = "canceled"

\* runTask up to its operation.
Begin(i) ==
    /\ at[i] = "begin"
    /\ \/ canceledBeforeRun(i) /\ Goto(i, "leave") /\ UNCHANGED <<tasks, active, view, troubles>>
       \/ ~canceledBeforeRun(i) /\ Goto(i, "mark") /\ trySaveTask(i, "running")
    /\ UNCHANGED <<outcome, cancels, signalled, execution, starting, closing>>

finalStatus(i) ==
    IF i \in signalled \/ outcome[i] = "canceled" \/ tasks[i].status = "canceled" THEN "canceled"
    ELSE IF outcome[i] = "err" THEN "failed"
    ELSE "succeeded"

Finish(i) ==
    /\ at[i] = "final"
    /\ trySaveTask(i, finalStatus(i))
    /\ Goto(i, "leave")
    /\ UNCHANGED <<outcome, cancels, signalled, execution, starting, closing>>

\* Mutant of Leave: the admission is not released.
LeaveAdmitted(i) ==
    /\ at[i] = "leave"
    /\ cancels' = cancels \ {i}
    /\ execution' = IF execution = i THEN 0 ELSE execution
    /\ signalled' = signalled \ {i}
    /\ outcome' = [outcome EXCEPT ![i] = "ok"]
    /\ Goto(i, "none")
    /\ UNCHANGED <<tasks, active, starting, view, closing, troubles>>

\* unregisterTaskCancel, the slots and releaseTaskAdmission.
Leave(i) ==
    /\ at[i] = "leave"
    /\ cancels' = cancels \ {i}
    /\ execution' = IF execution = i THEN 0 ELSE execution
    /\ active' = IF active.id = i THEN NoActive ELSE active
    /\ signalled' = signalled \ {i}
    /\ outcome' = [outcome EXCEPT ![i] = "ok"]
    /\ Goto(i, "none")
    /\ UNCHANGED <<tasks, starting, view, closing, troubles>>

-----------------------------------------------------------------------------
(***************************************************************************)
(* CancelTask, GetTask and shutdown.                                       *)
(***************************************************************************)
\* The record is written first.  A worker whose context is cancelled may have
\* passed the checks of its current step.
CancelTask(i) ==
    /\ Trouble /\ taskStillActive(i)
    /\ setStatus(i, "canceled")
    /\ signalled' = signalled \cup ({i} \cap cancels)
    /\ UNCHANGED <<at, outcome, cancels, execution, starting, closing>>

GetTask(i) ==
    /\ view = 0 /\ taskStillActive(i)
    /\ view' = i
    /\ UNCHANGED <<tasks, at, outcome, active, cancels, signalled, execution, starting, closing, troubles>>

taskOwnerStopped(i) == i \notin cancels /\ active.id # i
orphaned(record) == [record EXCEPT !.status = "failed", !.orphan = TRUE]

\* The registry is asked after the record was read, and the write is given up
\* if the record is no longer the one that was read.
ReconcileInactiveTask ==
    /\ view # 0
    /\ view' = 0
    /\ tasks' = IF taskOwnerStopped(view) THEN [tasks EXCEPT ![view] = orphaned(@)] ELSE tasks
    /\ UNCHANGED <<at, outcome, active, cancels, signalled, execution, starting, closing, troubles>>

\* StopBackground.
Stop ==
    /\ Trouble /\ ~closing
    /\ closing' = TRUE
    /\ signalled' = signalled \cup cancels
    /\ UNCHANGED <<tasks, at, outcome, active, cancels, execution, starting, view>>

\* Memory is lost, and the process starts again.
forget ==
    /\ at' = [i \in Ids |-> "none"] /\ outcome' = [i \in Ids |-> "ok"]
    /\ active' = NoActive /\ cancels' = {} /\ signalled' = {} /\ execution' = 0
    /\ starting' = NoStart  /\ view' = 0 /\ closing' = FALSE
    /\ UNCHANGED tasks

\* The process leaves when the workers are joined (taskShutdownDone).
Exit == closing /\ LockFree /\ (\A i \in Ids : at[i] = "none") /\ forget /\ UNCHANGED troubles

Crash == Trouble /\ forget

=============================================================================
