-------------------------- MODULE BackupAutomation --------------------------
(***************************************************************************)
(* Object backups as tasks (tenant_backup_remote.go, backup_retention.go), *)
(* the repository they publish to (internal/backupstore) and the scheduler *)
(* that runs them (backup_schedule.go).                                    *)
(*                                                                         *)
(* A backup ID is the ID of the task that captured first; a capture is the *)
(* version it holds, and every capture meets a newer version.  The object  *)
(* store answers requests or fails them; a task may fail at every step.    *)
(***************************************************************************)
EXTENDS Tasks

CONSTANTS KeepCount,    \* keep_count of the policy, positive
          Ageing,       \* max_age_seconds is positive
          MaxRetries    \* attempts of one cycle (retryCount)

VARIABLES clock,        \* captures made so far
          file,         \* local capture of a backup ID, 0 if none
          manifest,     \* the repository: version listed under a backup ID
          payload,      \* the repository: snapshots, by ID and version
          op,           \* what the operation of a task has in hand
          schedule,     \* the durable backup schedule
          tick,         \* where a scheduler run is
          overtaken     \* history: a cancelled task has deleted a listed backup

repository == <<manifest, payload>>
backupVars == <<clock, file, repository, op, schedule, tick, overtaken>>
vars == <<taskVars, backupVars>>

ASSUME BackupAssumption == KeepCount \in Nat \ {0} /\ Ageing \in BOOLEAN /\ MaxRetries \in Nat \ {0}

NoOp == [version |-> 0, newest |-> 0, retained |-> {}, target |-> NoEntry, seen |-> {}]
NoPlan == [made |-> FALSE, checkpoint |-> NewCheckpoint(TRUE)]
NoSchedule == [task |-> 0, plan |-> NoPlan, observed |-> 0, failures |-> 0]

Init ==
    /\ InitTasks
    /\ clock = 0 /\ file = [i \in Ids |-> 0]
    /\ manifest = [i \in Ids |-> 0] /\ payload = {}
    /\ op = [i \in Ids |-> NoOp]
    /\ schedule = NoSchedule /\ tick = "idle"
    /\ overtaken = FALSE

backupId(i) == IF tasks[i].checkpoint.captureId # 0 THEN tasks[i].checkpoint.captureId ELSE i
automatic(b) == tasks[b].checkpoint.auto

TenantLockFree == LockFree /\ tick = "idle"

-----------------------------------------------------------------------------
(***************************************************************************)
(* Clients.                                                                *)
(***************************************************************************)
\* Task IDs are random: the next one stands for any.
fresh(i) ==
    /\ Unused(i) /\ i # schedule.task
    /\ \A j \in 1..i - 1 : ~Unused(j) \/ j = schedule.task

StartTask(i) ==
    /\ Trouble /\ TenantLockFree /\ fresh(i)
    /\ Admit(i, NewCheckpoint(FALSE)) /\ UNCHANGED backupVars

\* The new task takes over parameters and checkpoint.
RetryTask(i, old) ==
    /\ TenantLockFree /\ fresh(i)
    /\ tasks[old].status \in {"failed", "canceled"}
    /\ Admit(i, tasks[old].checkpoint) /\ UNCHANGED <<troubles, backupVars>>

-----------------------------------------------------------------------------
(***************************************************************************)
(* tenantObjectBackupTask.                                                 *)
(***************************************************************************)
others == <<cancels, signalled, starting, closing>>
work == <<others, troubles>>

End(i, result) ==
    /\ Goto(i, "final") /\ outcome' = [outcome EXCEPT ![i] = result]

\* Every progress report ends the operation of a task that was cancelled.
progress(i, checkpoint, next) ==
    \/ taskTerminal(i) /\ End(i, "canceled") /\ UNCHANGED <<tasks, active, view>>
    \/ ~taskTerminal(i) /\ Goto(i, next) /\ UNCHANGED outcome
       /\ putTask(i, [tasks[i] EXCEPT !.status = "running", !.checkpoint = checkpoint])

stays == UNCHANGED <<tasks, active, view>>

Mark(i) ==
    /\ at[i] = "mark"
    /\ progress(i, [tasks[i].checkpoint EXCEPT !.captureId = backupId(i)], "capture")
    /\ UNCHANGED <<work, execution, backupVars>>

\* A capture that exists is used, whoever wrote it; one that is recorded and
\* missing is not replaced.
Capture(i) ==
    /\ at[i] = "capture"
    /\ LET b == backupId(i)
       IN \/ file[b] # 0 /\ Goto(i, "open") /\ UNCHANGED <<outcome, clock, file>>
          \/ /\ file[b] = 0 /\ tasks[i].checkpoint.captured
             /\ End(i, "err") /\ UNCHANGED <<clock, file>>
          \/ /\ file[b] = 0 /\ ~tasks[i].checkpoint.captured
             /\ clock' = clock + 1 /\ file' = [file EXCEPT ![b] = clock + 1]
             /\ Goto(i, "open") /\ UNCHANGED outcome
    /\ stays /\ UNCHANGED <<work, execution, repository, op, schedule, tick, overtaken>>

\* The capture is recorded, then opened; the upload keeps the descriptor and
\* gives its execution slots back.
Open(i) ==
    /\ at[i] = "open" /\ file[backupId(i)] # 0
    /\ progress(i, [tasks[i].checkpoint EXCEPT !.captured = TRUE], "upload")
    /\ op' = [op EXCEPT ![i].version = file[backupId(i)]]
    /\ execution' = IF taskTerminal(i) THEN execution ELSE 0
    /\ UNCHANGED <<work, clock, file, repository, schedule, tick, overtaken>>

-----------------------------------------------------------------------------
(***************************************************************************)
(* Repository.Publish, Verify and DeleteAutomatic.                         *)
(***************************************************************************)
\* Mutant of pinned: a publication does not pin its backup.
unpinned(b) == FALSE

\* Pin: a backup that is being published is not deleted, nor the reverse.
pinned(b) == \E j \in Ids : at[j] = "manifest" /\ backupId(j) = b
deleting(b) == \E j \in Ids : at[j] = "erase" /\ op[j].target.id = b

\* The snapshot is uploaded unless the backup is listed already.
Upload(i) ==
    /\ at[i] = "upload"
    /\ LET b == backupId(i)
           v == op[i].version
       IN \/ /\ ~deleting(b) /\ manifest[b] = 0
             /\ payload' = payload \cup {[id |-> b, version |-> v]}
             /\ Goto(i, "manifest") /\ UNCHANGED outcome
          \/ ~deleting(b) /\ manifest[b] = v /\ Goto(i, "published") /\ UNCHANGED <<outcome, payload>>
          \/ (deleting(b) \/ manifest[b] \notin {0, v}) /\ End(i, "err") /\ UNCHANGED payload
    /\ stays /\ UNCHANGED <<work, execution, clock, file, manifest, op, schedule, tick, overtaken>>

\* Written only if absent; an equal manifest is an earlier success.
PutManifest(i) ==
    /\ at[i] = "manifest"
    /\ IF manifest[backupId(i)] \in {0, op[i].version}
       THEN /\ manifest' = [manifest EXCEPT ![backupId(i)] = op[i].version]
            /\ Goto(i, "published") /\ UNCHANGED outcome
       ELSE End(i, "err") /\ UNCHANGED manifest
    /\ stays /\ UNCHANGED <<work, execution, clock, file, payload, op, schedule, tick, overtaken>>

Published(i) ==
    /\ at[i] = "published"
    /\ progress(i, tasks[i].checkpoint, IF tasks[i].checkpoint.auto THEN "verify" ELSE "final")
    /\ UNCHANGED <<work, execution, backupVars>>

\* Manifest and download are one pinned read.
Verify(i) ==
    /\ at[i] = "verify"
    /\ LET b == backupId(i)
       IN IF ~deleting(b) /\ manifest[b] # 0 /\ [id |-> b, version |-> manifest[b]] \in payload
          THEN Goto(i, "list") /\ UNCHANGED outcome
          ELSE End(i, "err")
    /\ stays /\ UNCHANGED <<work, execution, backupVars>>

-----------------------------------------------------------------------------
(***************************************************************************)
(* retainObjectBackups: what is kept is decided by one listing; then an    *)
(* interrupted deletion is repeated, and what the policy does not keep is  *)
(* deleted, never the newest backup nor the one just verified.             *)
(***************************************************************************)
listed == {b \in Ids : manifest[b] # 0 /\ automatic(b)}
newest(n) == {b \in listed : Cardinality({c \in listed : manifest[c] > manifest[b]}) < n}

List(i) ==
    /\ at[i] = "list"
    /\ IF listed = {}
       THEN End(i, "err") /\ UNCHANGED op
       ELSE /\ \E top \in newest(1) :
                 op' = [op EXCEPT ![i].newest = top, ![i].retained = newest(KeepCount)]
            /\ Goto(i, "retain") /\ UNCHANGED outcome
    /\ stays /\ UNCHANGED <<work, execution, clock, file, repository, schedule, tick, overtaken>>

removable(i, b) == b \notin op[i].seen \cup {op[i].newest, backupId(i)}

\* An entry is checkpointed before it is deleted.
Retain(i) ==
    /\ at[i] = "retain"
    /\ LET pending == tasks[i].checkpoint.pending
           resume == pending # NoEntry /\ removable(i, pending.id)
           present == {b \in listed : removable(i, b)}
           remove(entry) == /\ op' = [op EXCEPT ![i].target = entry]
                            /\ progress(i, [tasks[i].checkpoint EXCEPT !.pending = entry], "delete")
       IN \/ resume /\ remove(pending)
          \/ /\ ~resume
             /\ \E b \in present : /\ b \notin op[i].retained \/ Ageing
                                  /\ remove([id |-> b, version |-> manifest[b]])
          \/ /\ ~resume /\ present \subseteq op[i].retained
             /\ End(i, "ok") /\ stays /\ UNCHANGED op
    /\ UNCHANGED <<work, execution, clock, file, repository, schedule, tick, overtaken>>

\* A backup in use is left for the next run; the manifest goes first.
Delete(i) ==
    /\ at[i] = "delete"
    /\ LET entry == op[i].target
           busy == pinned(entry.id) \/ deleting(entry.id)
       IN \/ /\ busy /\ op' = [op EXCEPT ![i].seen = @ \cup {entry.id}]
             /\ Goto(i, "retain") /\ UNCHANGED <<outcome, manifest, overtaken>>
          \/ /\ ~busy /\ UNCHANGED op
             /\ IF manifest[entry.id] \in {0, entry.version}
                THEN /\ manifest' = [manifest EXCEPT ![entry.id] = 0]
                     /\ overtaken' = (overtaken \/ (taskTerminal(i) /\ manifest[entry.id] # 0))
                     /\ Goto(i, "erase") /\ UNCHANGED outcome
                ELSE End(i, "err") /\ UNCHANGED <<manifest, overtaken>>
    /\ stays /\ UNCHANGED <<work, execution, clock, file, payload, schedule, tick>>

Erase(i) ==
    /\ at[i] = "erase"
    /\ payload' = payload \ {op[i].target}
    /\ Goto(i, "clear")
    /\ stays /\ UNCHANGED <<work, execution, outcome, clock, file, manifest, op, schedule, tick, overtaken>>

Clear(i) ==
    /\ at[i] = "clear"
    /\ progress(i, [tasks[i].checkpoint EXCEPT !.pending = NoEntry], "retain")
    /\ op' = [op EXCEPT ![i].seen = @ \cup {op[i].target.id}]
    /\ UNCHANGED <<work, execution, clock, file, repository, schedule, tick, overtaken>>

\* A request, a local read or write, or the cancelled context fails.  A lost
\* answer is a step that took effect and the failure of the next one.
operating == {"mark", "capture", "open", "upload", "manifest", "published", "verify",
              "list", "retain", "delete", "erase", "clear"}

Fail(i) ==
    /\ at[i] \in operating
    /\ IF i \in signalled \/ (at[i] = "open" /\ file[backupId(i)] = 0) THEN UNCHANGED troubles ELSE Trouble
    /\ End(i, "err")
    /\ stays /\ UNCHANGED <<others, execution, backupVars>>

Operate(i) ==
    \/ Mark(i) \/ Capture(i) \/ Open(i) \/ Upload(i) \/ PutManifest(i) \/ Published(i)
    \/ Verify(i) \/ List(i) \/ Retain(i) \/ Delete(i) \/ Erase(i) \/ Clear(i)

-----------------------------------------------------------------------------
(***************************************************************************)
(* ScheduleObjectBackup and ResetBackupAutomation, under the tenant lock   *)
(* and only while no backup task is active.  When a run is due, and        *)
(* whether the policy is enabled, is left open.                            *)
(***************************************************************************)
entered == TenantLockFree /\ ~closing /\ active.id = 0
previous == schedule.task
previousExists == previous # 0 /\ tasks[previous].status # "none"

\* GetTask of the scheduled task by either of them.
ReconcileScheduled ==
    /\ entered /\ previousExists /\ taskStillActive(previous) /\ taskOwnerStopped(previous)
    /\ putTask(previous, orphaned(tasks[previous]))
    /\ UNCHANGED <<at, outcome, work, execution, backupVars>>

\* Mutant of Observe: the capture is removed only when the task is first seen.
ObserveOnce ==
    /\ entered /\ previousExists /\ taskTerminal(previous)
    /\ LET done == tasks[previous].status = "succeeded"
       IN /\ tick' = IF done /\ schedule.observed # previous THEN "clean" ELSE "plan"
          /\ schedule' = IF schedule.observed = previous THEN schedule
                         ELSE [schedule EXCEPT !.plan = NoPlan, !.observed = previous,
                                               !.failures = IF done THEN 0 ELSE @ + 1]
    /\ UNCHANGED <<taskVars, clock, file, repository, op, overtaken>>

Observe ==
    /\ entered /\ previousExists /\ taskTerminal(previous)
    /\ LET done == tasks[previous].status = "succeeded"
       IN /\ tick' = IF done THEN "clean" ELSE "plan"
          /\ schedule' = IF schedule.observed = previous THEN schedule
                         ELSE [schedule EXCEPT !.plan = NoPlan, !.observed = previous,
                                               !.failures = IF done THEN 0 ELSE @ + 1]
    /\ UNCHANGED <<taskVars, clock, file, repository, op, overtaken>>

FirstRun ==
    /\ entered /\ previous = 0
    /\ tick' = "plan"
    /\ UNCHANGED <<taskVars, clock, file, repository, op, schedule, overtaken>>

\* A plan whose task was never recorded is launched under its own ID.  It was
\* due when it was made, and the policy is taken to stay enabled.
Resume ==
    /\ entered /\ previous # 0 /\ ~previousExists /\ schedule.plan.made
    /\ tick' = "launch"
    /\ UNCHANGED <<taskVars, clock, file, repository, op, schedule, overtaken>>

\* cleanupAutomaticBackupCapture of the observed task.
removeCapture ==
    LET c == tasks[previous].checkpoint
    IN  file' = IF c.auto /\ c.captureId # 0 THEN [file EXCEPT ![c.captureId] = 0] ELSE file

CleanCapture ==
    /\ tick = "clean"
    /\ removeCapture
    /\ tick' = "plan"
    /\ UNCHANGED <<taskVars, clock, repository, op, schedule, overtaken>>

\* A failed cycle is retried from its checkpoint until its attempts are used up.
Plan(i) ==
    /\ tick = "plan" /\ fresh(i)
    /\ LET retry == schedule.failures > 0 /\ schedule.failures % MaxRetries # 0
       IN schedule' = [schedule EXCEPT !.task = i,
                          !.plan = [made |-> TRUE,
                                    checkpoint |-> IF retry THEN tasks[previous].checkpoint
                                                   ELSE NewCheckpoint(TRUE)]]
    /\ tick' = "launch"
    /\ UNCHANGED <<taskVars, clock, file, repository, op, overtaken>>

NotDue == tick = "plan" /\ tick' = "idle" /\ UNCHANGED <<taskVars, clock, file, repository, op, schedule, overtaken>>

Launch ==
    /\ tick = "launch" /\ tick' = "idle"
    /\ \/ ~closing /\ Admit(schedule.task, schedule.plan.checkpoint) /\ UNCHANGED troubles
       \/ closing /\ UNCHANGED taskVars
    /\ UNCHANGED <<clock, file, repository, op, schedule, overtaken>>

ResetCapture ==
    /\ Trouble /\ entered
    /\ \/ previousExists /\ taskTerminal(previous) /\ removeCapture
       \/ ~previousExists /\ UNCHANGED file
    /\ tick' = "reset"
    /\ UNCHANGED <<tasks, runtime, clock, repository, op, schedule, overtaken>>

ResetSchedule ==
    /\ tick = "reset" /\ tick' = "idle"
    /\ schedule' = NoSchedule
    /\ UNCHANGED <<taskVars, clock, file, repository, op, overtaken>>

Tick == ReconcileScheduled \/ Observe \/ FirstRun \/ Resume \/ CleanCapture \/ NotDue \/ Launch \/ ResetSchedule

-----------------------------------------------------------------------------
BackupCrash == Crash /\ op' = [i \in Ids |-> NoOp] /\ tick' = "idle" /\ UNCHANGED <<clock, file, repository, schedule, overtaken>>
BackupExit == Exit /\ tick = "idle" /\ UNCHANGED backupVars
BackupLeave(i) == Leave(i) /\ op' = [op EXCEPT ![i] = NoOp] /\ UNCHANGED <<clock, file, repository, schedule, tick, overtaken>>

Launching(i) == (SaveTask(i) \/ SaveTaskFails(i) \/ RegisterTaskCancel(i)) /\ UNCHANGED backupVars
Working(i) ==
    \/ (Acquire(i) \/ Dequeue(i) \/ Begin(i) \/ Finish(i)) /\ UNCHANGED backupVars
    \/ Operate(i) \/ Fail(i) \/ BackupLeave(i)
Polling == (ReconcileInactiveTask \/ \E i \in Ids : GetTask(i)) /\ UNCHANGED backupVars

Next ==
    \/ \E i \in Ids : \/ StartTask(i) \/ (\E old \in Ids : RetryTask(i, old))
                      \/ Launching(i) \/ Working(i) \/ Plan(i)
                      \/ CancelTask(i) /\ UNCHANGED backupVars
    \/ Polling \/ Tick \/ ResetCapture
    \/ Stop /\ UNCHANGED backupVars
    \/ BackupExit \/ BackupCrash

Spec == Init /\ [][Next]_vars

(***************************************************************************)
(* Starts and workers run and requests end (every request has a timeout);  *)
(* maintenance ticks again and again, and clients poll unfinished tasks.   *)
(***************************************************************************)
FairSpec ==
    /\ Spec
    /\ WF_vars(\E i \in Ids : Launching(i))
    /\ WF_vars(\E i \in Ids : Working(i))
    /\ WF_vars(Polling) /\ WF_vars(Tick) /\ WF_vars(BackupExit)

-----------------------------------------------------------------------------
\* What is listed is complete, and once an automatic backup is listed one
\* always is, whatever deletions are interrupted, repeated or overtaken by a
\* retry that publishes the same backup.  Only a cancelled task whose deletion
\* was under way can take from a later retention what that one has verified.
BackupsStayRestorable ==
    /\ [](\A b \in Ids : manifest[b] # 0 => [id |-> b, version |-> manifest[b]] \in payload)
    /\ [][listed # {} /\ ~overtaken' => listed' # {}]_vars

\* A recorded task ends, although its worker may be lost or its final state
\* not be written, and it is failed as ownerless only when its worker is gone:
\* no interleaving of a read with a start, a retry, a cancellation or the end
\* of the worker fails a task that may still publish.
TasksEnd ==
    /\ [](\A i \in Ids : tasks[i].orphan => at[i] = "none")
    /\ \A i \in Ids : taskStillActive(i) ~> taskTerminal(i)

\* A scheduled backup that was planned is started, and the capture of one
\* that succeeded does not stay on the disk.
ScheduleProceeds ==
    /\ (previous # 0 /\ ~previousExists) ~> (previous = 0 \/ previousExists)
    /\ []<>~(previousExists /\ tasks[previous].status = "succeeded" /\ file[backupId(previous)] # 0)
=============================================================================
