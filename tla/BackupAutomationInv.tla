------------------------ MODULE BackupAutomationInv ------------------------
(***************************************************************************)
(* The inductive invariant behind BackupsStayRestorable and the safety     *)
(* part of TasksEnd.  MCBackupAutomation makes it available to TLC;        *)
(* BackupAutomationProofs proves it.                                       *)
(***************************************************************************)
EXTENDS BackupAutomation

Entries == [id : Ids, version : Nat]
OptionalEntries == Entries \cup {NoEntry}
Checkpoints == [auto : BOOLEAN, captureId : 0..MaxTasks, captured : BOOLEAN,
                pending : OptionalEntries]
Statuses == {"none", "queued", "running", "canceled", "failed", "succeeded"}
Records == [status : Statuses, orphan : BOOLEAN, checkpoint : Checkpoints]
Admissions == [id : 0..MaxTasks, final : BOOLEAN]
Starts == [id : 0..MaxTasks, checkpoint : Checkpoints, previous : Admissions]
Operations == [version : Nat, newest : 0..MaxTasks, retained : SUBSET Ids,
               target : OptionalEntries, seen : SUBSET (0..MaxTasks)]
Plans == [made : BOOLEAN, checkpoint : Checkpoints]
Schedules == [task : 0..MaxTasks, plan : Plans, observed : 0..MaxTasks, failures : Nat]
Places == operating \cup {"none", "save", "register", "slot", "begin", "final", "leave"}

\* The state of the task runtime has its type.
TypeOfTasks ==
    /\ tasks \in [Ids -> Records]
    /\ at \in [Ids -> Places] /\ outcome \in [Ids -> {"ok", "err", "canceled"}]
    /\ active \in Admissions /\ cancels \subseteq Ids /\ signalled \subseteq Ids
    /\ execution \in 0..MaxTasks /\ starting \in Starts
    /\ view \in 0..MaxTasks /\ closing \in BOOLEAN /\ troubles \in Nat

\* So has the state of the backups.
TypeOfBackups ==
    /\ clock \in Nat /\ file \in [Ids -> Nat]
    /\ manifest \in [Ids -> Nat] /\ payload \subseteq Entries
    /\ op \in [Ids -> Operations] /\ schedule \in Schedules
    /\ tick \in {"idle", "clean", "plan", "launch", "reset"}
    /\ overtaken \in BOOLEAN

\* Every variable has its type.
TypeOK == TypeOfTasks /\ TypeOfBackups

-----------------------------------------------------------------------------
\* An admission that a final record has released belongs to a finished task,
\* and so does the admission that a start puts back when it fails.
Released ==
    /\ active.final => active.id # 0 /\ taskTerminal(active.id)
    /\ starting.previous.id # 0 => taskTerminal(starting.previous.id)

\* A worker is the admitted one, or its task has ended.
OneOwner == \A i \in Ids : at[i] # "none" => active.id = i \/ taskTerminal(i)

\* A task is recorded by its start and stays recorded.
Recorded ==
    \A i \in Ids : /\ at[i] = "save" => tasks[i].status = "none"
                   /\ at[i] \notin {"none", "save"} => tasks[i].status # "none"

\* A reader holds a task that is not finished: whoever ends it, ends the view.
ViewCurrent == view # 0 => taskStillActive(view)

\* An ownerless task has ended and has no worker.
OrphansEnded == \A i \in Ids : tasks[i].orphan => taskTerminal(i) /\ at[i] = "none"

\* What a checkpoint names was captured for a recorded task of the same kind.
Sound(checkpoint) ==
    checkpoint.captureId # 0 => /\ tasks[checkpoint.captureId].status # "none"
                                /\ automatic(checkpoint.captureId) = checkpoint.auto

RecordsSound == (\A i \in Ids : Sound(tasks[i].checkpoint)) /\ Sound(starting.checkpoint)

\* So does the plan, and the schedule names a task when it is followed up.
ScheduleInv ==
    /\ Sound(schedule.plan.checkpoint)
    /\ schedule.failures > 0 => schedule.task # 0
    /\ tick \in {"clean", "launch"} => schedule.task # 0

-----------------------------------------------------------------------------
\* What is listed belongs to a recorded task and is complete.
ListedComplete ==
    \A b \in Ids : manifest[b] # 0 => /\ tasks[b].status # "none"
                                      /\ [id |-> b, version |-> manifest[b]] \in payload

\* A publication has uploaded what its manifest will list.
UploadedFirst ==
    \A i \in Ids : at[i] = "manifest" => [id |-> backupId(i), version |-> op[i].version] \in payload

\* What is being erased is neither listed nor being published.
ErasedAlone ==
    \A j \in Ids : at[j] = "erase" => /\ manifest[op[j].target.id] = 0
                                      /\ ~pinned(op[j].target.id)

retaining == {"list", "retain", "delete", "erase", "clear"}

\* Retention is a matter of automatic backups, and never targets its own.
RetentionSpares ==
    \A i \in Ids : /\ at[i] \in retaining \cup {"verify"} => tasks[i].checkpoint.auto
                   /\ at[i] \in {"delete", "erase", "clear"} => /\ op[i].target # NoEntry
                                                                /\ op[i].target.id # backupId(i)

\* While no cancelled task has deleted, the backup that a retention has
\* verified stays listed.
VerifiedStays ==
    ~overtaken => \A i \in Ids : ~taskTerminal(i) /\ at[i] \in retaining => manifest[backupId(i)] # 0

TaskInv == Released /\ OneOwner /\ Recorded /\ ViewCurrent /\ OrphansEnded /\ RecordsSound

RepositoryInv == ListedComplete /\ UploadedFirst /\ ErasedAlone /\ RetentionSpares /\ VerifiedStays

\* The inductive invariant.
IInv == TypeOK /\ TaskInv /\ ScheduleInv /\ RepositoryInv
=============================================================================
