----------------------- MODULE BackupAutomationProofs -----------------------
(***************************************************************************)
(* Machine-checked theorems about BackupAutomation and the task runtime it *)
(* builds on, for any number of tasks, slots and troubles and any policy.  *)
(***************************************************************************)
EXTENDS BackupAutomationInv, TLAPS

-----------------------------------------------------------------------------
(* Types.                                                                  *)

LEMMA IdFacts == 0 \notin Ids /\ Ids \subseteq Nat /\ Ids \subseteq 0..MaxTasks
                 /\ \A i \in 0..MaxTasks : i # 0 => i \in Ids
BY TasksAssumption DEF Ids

LEMMA InitialTypes ==
    /\ NoEntry \in OptionalEntries /\ NoEntry \notin Entries
    /\ \A auto \in BOOLEAN : NewCheckpoint(auto) \in Checkpoints
    /\ NoTask \in Records /\ NoStart \in Starts /\ NoActive \in Admissions
    /\ NoOp \in Operations /\ NoSchedule \in Schedules
<1>1. NoEntry \in OptionalEntries /\ NoEntry \notin Entries
    BY IdFacts DEF NoEntry, OptionalEntries, Entries
<1>2. ASSUME NEW auto \in BOOLEAN PROVE NewCheckpoint(auto) \in Checkpoints
    BY <1>1, IdFacts, TasksAssumption DEF NewCheckpoint, Checkpoints
<1>3. NoActive \in Admissions
    BY TasksAssumption DEF NoActive, Admissions
<1>4. NoTask \in Records
    BY <1>2 DEF NoTask, Records, Statuses
<1>a. NewCheckpoint(FALSE) \in Checkpoints /\ NewCheckpoint(TRUE) \in Checkpoints
    BY <1>2
<1>5. NoStart \in Starts
    <2>1. [id |-> 0, final |-> FALSE] \in Admissions
        BY <1>3 DEF NoActive
    <2>2. \A c \in Checkpoints, a \in Admissions : [id |-> 0, checkpoint |-> c, previous |-> a] \in Starts
        BY TasksAssumption DEF Starts
    <2>3. QED
        BY <1>a, <2>1, <2>2, Zenon DEF NoStart
<1>6. NoOp \in Operations
    BY <1>1, TasksAssumption DEF NoOp, Operations
<1>7. NoSchedule \in Schedules
    <2>1. NoPlan \in Plans
        BY <1>a DEF NoPlan, Plans
    <2>2. QED
        BY <2>1, TasksAssumption DEF NoSchedule, Schedules
<1>8. QED
    BY <1>1, <1>2, <1>3, <1>4, <1>5, <1>6, <1>7

LEMMA RecordFields ==
    ASSUME NEW r \in Records
    PROVE  /\ r.status \in Statuses /\ r.orphan \in BOOLEAN /\ r.checkpoint \in Checkpoints
           /\ \A s \in Statuses : [r EXCEPT !.status = s] \in Records
           /\ \A s \in Statuses, c \in Checkpoints :
                [r EXCEPT !.status = s, !.checkpoint = c] \in Records
           /\ orphaned(r) \in Records
BY DEF Records, orphaned, Statuses

LEMMA CheckpointFields ==
    ASSUME NEW c \in Checkpoints
    PROVE  /\ c.auto \in BOOLEAN /\ c.captureId \in 0..MaxTasks /\ c.pending \in OptionalEntries
           /\ \A b \in Ids : [c EXCEPT !.captureId = b] \in Checkpoints
           /\ [c EXCEPT !.captured = TRUE] \in Checkpoints
           /\ \A e \in OptionalEntries : [c EXCEPT !.pending = e] \in Checkpoints
BY IdFacts DEF Checkpoints

LEMMA EntryFields ==
    ASSUME NEW e \in OptionalEntries, e # NoEntry
    PROVE  e \in Entries /\ e.id \in Ids /\ e.version \in Nat
BY DEF OptionalEntries, Entries

-----------------------------------------------------------------------------
(* What every step does to the task records: an ended task stays ended, a  *)
(* recorded one recorded, with its kind and its backup.                    *)

Advance(k) ==
    /\ taskTerminal(k) => taskTerminal(k)'
    /\ tasks[k].status # "none" => /\ tasks'[k].status # "none"
                                   /\ tasks'[k].checkpoint.auto = tasks[k].checkpoint.auto
                                   /\ backupId(k)' = backupId(k)

Advances == \A k \in Ids : Advance(k)

LEMMA NoRecordChanges == ASSUME tasks' = tasks PROVE Advances
BY DEF Advances, Advance, taskTerminal, backupId

LEMMA TaskFields ==
    ASSUME TypeOfTasks, NEW k \in Ids
    PROVE  /\ tasks[k] \in Records /\ tasks[k].status \in Statuses /\ tasks[k].orphan \in BOOLEAN
           /\ tasks[k].checkpoint \in Checkpoints /\ tasks[k].checkpoint.captureId \in 0..MaxTasks
           /\ backupId(k) \in Ids /\ DOMAIN tasks = Ids /\ DOMAIN at = Ids /\ at[k] \in Places
<1>1. tasks[k] \in Records
    BY DEF TypeOfTasks
<1>2. tasks[k].checkpoint \in Checkpoints
    BY <1>1, RecordFields
<1>3. tasks[k].checkpoint.captureId \in 0..MaxTasks
    BY <1>2, CheckpointFields
<1>4. QED
    BY <1>1, <1>2, <1>3, RecordFields, IdFacts DEF TypeOfTasks, backupId

\* A write of the record of a task that has not ended.
LEMMA RecordWritten ==
    ASSUME TypeOfTasks, NEW i \in Ids, NEW r \in Records, tasks' = [tasks EXCEPT ![i] = r],
           ~taskTerminal(i),
           tasks[i].status # "none" =>
              /\ r.status # "none" /\ r.checkpoint.auto = tasks[i].checkpoint.auto
              /\ \/ r.checkpoint.captureId = tasks[i].checkpoint.captureId
                 \/ r.checkpoint.captureId = backupId(i)
    PROVE  Advances
<1> SUFFICES ASSUME NEW k \in Ids PROVE Advance(k)
    BY DEF Advances
<1>1. CASE k # i
    BY <1>1, TaskFields DEF Advance, taskTerminal, backupId
<1>2. CASE k = i
    <2>1. tasks'[i] = r
        BY TaskFields
    <2>2. backupId(i) \in Ids /\ 0 \notin Ids
        BY TaskFields, IdFacts
    <2>3. backupId(i)' = IF r.checkpoint.captureId # 0 THEN r.checkpoint.captureId ELSE i
        BY <2>1 DEF backupId
    <2>4. tasks[i].status # "none" => backupId(i)' = backupId(i)
        BY <2>2, <2>3 DEF backupId
    <2>5. QED
        BY <1>2, <2>1, <2>4 DEF Advance
<1>3. QED
    BY <1>1, <1>2

\* What a checkpoint names stays recorded and of its kind.
LEMMA SoundStays ==
    ASSUME Advances, NEW c \in Checkpoints, Sound(c)
    PROVE  Sound(c)'
<1> SUFFICES ASSUME c.captureId # 0
             PROVE  tasks'[c.captureId].status # "none" /\ tasks'[c.captureId].checkpoint.auto = c.auto
    BY DEF Sound, automatic
<1>1. c.captureId \in Ids
    BY CheckpointFields, IdFacts
<1>2. QED
    BY <1>1 DEF Sound, automatic, Advances, Advance

LEMMA ScheduleStays ==
    ASSUME TypeOfBackups, ScheduleInv, Advances, schedule' = schedule, tick' \in {tick, "idle"}
    PROVE  ScheduleInv'
<1>1. schedule.plan.checkpoint \in Checkpoints
    BY DEF TypeOfBackups, Schedules, Plans
<1>2. Sound(schedule.plan.checkpoint)'
    <2> DEFINE c == schedule.plan.checkpoint
    <2>1. c.captureId # 0 => c.captureId \in Ids
        BY <1>1, CheckpointFields, IdFacts
    <2>2. QED
        BY <2>1 DEF ScheduleInv, Sound, automatic, Advances, Advance
<1>3. QED
    BY <1>2 DEF ScheduleInv

repositoryPlaces == retaining \cup {"verify", "manifest"}

\* A step that leaves the repository alone and takes no task to it.
LEMMA RepositoryStays ==
    ASSUME TypeOK, TaskInv, RepositoryInv, Advances, UNCHANGED <<manifest, payload, overtaken>>,
           \A k \in Ids : at'[k] \in repositoryPlaces => at'[k] = at[k] /\ op'[k] = op[k]
    PROVE  RepositoryInv'
<1>1. ASSUME NEW k \in Ids, at'[k] \in repositoryPlaces
      PROVE  /\ at'[k] = at[k] /\ op'[k] = op[k] /\ tasks[k].status # "none"
             /\ backupId(k)' = backupId(k) /\ tasks'[k].checkpoint.auto = tasks[k].checkpoint.auto
             /\ taskTerminal(k) => taskTerminal(k)'
    BY <1>1 DEF TaskInv, Recorded, Advances, Advance, repositoryPlaces, retaining
<1>2. ListedComplete'
    BY DEF RepositoryInv, ListedComplete, Advances, Advance
<1>3. UploadedFirst'
    BY <1>1 DEF RepositoryInv, UploadedFirst, repositoryPlaces
<1>4. ErasedAlone'
    BY <1>1 DEF RepositoryInv, ErasedAlone, pinned, repositoryPlaces, retaining
<1>5. RetentionSpares'
    BY <1>1 DEF RepositoryInv, RetentionSpares, repositoryPlaces, retaining
<1>6. VerifiedStays'
    BY <1>1 DEF RepositoryInv, VerifiedStays, repositoryPlaces, retaining
<1>7. QED
    BY <1>2, <1>3, <1>4, <1>5, <1>6 DEF RepositoryInv
-----------------------------------------------------------------------------
(* The task runtime.                                                       *)

workerPlaces == Places \ {"none", "save"}

\* A worker goes on; records, admission and views stay.
LEMMA WorkerMoves ==
    ASSUME TypeOfTasks, TaskInv, NEW i \in Ids, at[i] \in workerPlaces,
           NEW p \in workerPlaces, at' = [at EXCEPT ![i] = p],
           UNCHANGED <<tasks, active, view>>, starting' \in {starting, NoStart}
    PROVE  TaskInv' /\ Advances
<1>1. Advances
    BY NoRecordChanges
<1>2. Released'
    <2>1. CASE starting' = starting
        BY <2>1 DEF TaskInv, Released, taskTerminal
    <2>2. CASE starting' = NoStart
        BY <2>2 DEF TaskInv, Released, taskTerminal, NoStart
    <2>3. QED
        BY <2>1, <2>2
<1>3. OneOwner'
    BY DEF TaskInv, OneOwner, taskTerminal, workerPlaces, TypeOfTasks
<1>4. Recorded'
    BY DEF TaskInv, Recorded, workerPlaces, TypeOfTasks
<1>5. ViewCurrent'
    BY DEF TaskInv, ViewCurrent, taskStillActive
<1>6. OrphansEnded'
    BY DEF TaskInv, OrphansEnded, taskTerminal, workerPlaces, TypeOfTasks
<1>7. RecordsSound'
    <2>1. Sound(starting.checkpoint)'
        <3>1. CASE starting' = starting
            BY <3>1 DEF TaskInv, RecordsSound, Sound, automatic
        <3>2. CASE starting' = NoStart
            BY <3>2 DEF NoStart, NewCheckpoint, Sound
        <3>3. QED
            BY <3>1, <3>2
    <2>2. QED
        BY <2>1 DEF TaskInv, RecordsSound, Sound, automatic
<1>8. QED
    BY <1>1, <1>2, <1>3, <1>4, <1>5, <1>6, <1>7 DEF TaskInv

\* A task that has not ended gets a new record.
LEMMA RecordPut ==
    ASSUME TypeOfTasks, TaskInv, NEW i \in Ids, NEW r \in Records, putTask(i, r),
           ~taskTerminal(i), r.status # "none", Sound(r.checkpoint), starting' = starting,
           tasks[i].status # "none" =>
              /\ r.checkpoint.auto = tasks[i].checkpoint.auto
              /\ \/ r.checkpoint.captureId = tasks[i].checkpoint.captureId
                 \/ r.checkpoint.captureId = backupId(i),
           r.orphan => r.status = "failed" /\ at[i] = "none" /\ at' = at,
           \/ at' = at /\ at[i] # "save"
           \/ at[i] # "none" /\ \E p \in workerPlaces : at' = [at EXCEPT ![i] = p]
    PROVE  TaskInv' /\ Advances
<1>1. Advances
    BY RecordWritten DEF putTask
<1>2. tasks'[i] = r /\ \A k \in Ids \ {i} : tasks'[k] = tasks[k]
    BY TaskFields DEF putTask
<1>3. \A k \in Ids : at'[k] # "none" => at[k] # "none"
    BY DEF TypeOfTasks
<1>4. active'.id = active.id /\ (active'.final => active.final \/ (active.id = i /\ taskTerminal(i)'))
    <2>1. active.id = i /\ r.status \notin {"queued", "running"} => taskTerminal(i)'
        BY <1>2, RecordFields DEF taskTerminal, Statuses
    <2>2. QED
        BY <2>1 DEF putTask, TypeOfTasks, Admissions
<1>5. \A k \in Ids : taskTerminal(k) => taskTerminal(k)'
    BY <1>1 DEF Advances, Advance
<1>6. Released'
    <2>1. active.id \in 0..MaxTasks /\ starting.previous.id \in 0..MaxTasks
        BY DEF TypeOfTasks, Admissions, Starts
    <2>2. (active.final)' => (active.id)' # 0 /\ taskTerminal(active.id)'
        BY <1>4, <1>5, <2>1, IdFacts DEF TaskInv, Released, taskTerminal
    <2>3. (starting.previous.id)' # 0 => taskTerminal(starting.previous.id)'
        BY <1>5, <2>1, IdFacts DEF TaskInv, Released, taskTerminal
    <2>4. QED
        BY <2>2, <2>3 DEF Released
<1>7. OneOwner'
    BY <1>3, <1>4, <1>5 DEF TaskInv, OneOwner
<1>8. Recorded'
    BY <1>2 DEF TaskInv, Recorded, workerPlaces, TypeOfTasks
<1>9. ViewCurrent'
    <2>1. view' # 0 => view' = view /\ view # i /\ view \in Ids
        BY IdFacts DEF putTask, TypeOfTasks
    <2>2. QED
        BY <1>2, <2>1 DEF TaskInv, ViewCurrent, taskStillActive
<1>10. OrphansEnded'
    BY <1>2, <1>3 DEF TaskInv, OrphansEnded, taskTerminal
<1>11. RecordsSound'
    <2>1. starting.checkpoint \in Checkpoints
        BY DEF TypeOfTasks, Starts
    <2>2. Sound(starting.checkpoint)'
        <3> DEFINE c == starting.checkpoint
        <3>1. c.captureId # 0 => c.captureId \in Ids
            BY <2>1, CheckpointFields, IdFacts
        <3>2. QED
            BY <1>1, <3>1 DEF TaskInv, RecordsSound, Sound, automatic, Advances, Advance
    <2>3. ASSUME NEW k \in Ids PROVE Sound(tasks[k].checkpoint)'
        <3> DEFINE c == tasks'[k].checkpoint
        <3>1. c \in Checkpoints /\ Sound(c)
            <4>1. CASE k = i
                BY <1>2, <4>1, RecordFields
            <4>2. CASE k # i
                BY <1>2, <4>2, TaskFields DEF TaskInv, RecordsSound
            <4>3. QED
                BY <4>1, <4>2
        <3>2. c.captureId # 0 => c.captureId \in Ids
            BY <3>1, CheckpointFields, IdFacts
        <3>3. QED
            BY <1>1, <3>1, <3>2 DEF Sound, automatic, Advances, Advance
    <2>4. QED
        BY <2>2, <2>3 DEF RecordsSound
<1>12. QED
    BY <1>1, <1>6, <1>7, <1>8, <1>9, <1>10, <1>11 DEF TaskInv
\* The types after a record was put.
LEMMA RecordPutType ==
    ASSUME TypeOfTasks, NEW i \in Ids, NEW r \in Records, putTask(i, r)
    PROVE  tasks' \in [Ids -> Records] /\ active' \in Admissions /\ view' \in 0..MaxTasks
<1>1. tasks' \in [Ids -> Records]
    BY DEF putTask, TypeOfTasks
<1>2. active' \in Admissions
    BY DEF putTask, TypeOfTasks, Admissions
<1>3. QED
    BY <1>1, <1>2, TasksAssumption DEF putTask, TypeOfTasks

\* What every step of the task runtime does.
TaskStep ==
    /\ TypeOfTasks' /\ TaskInv' /\ Advances
    /\ \A k \in Ids : at'[k] \in repositoryPlaces => at'[k] = at[k]

LEMMA PlaceFacts ==
    /\ {"register", "slot", "begin", "mark", "final", "leave"} \subseteq workerPlaces
    /\ {"none", "save"} \subseteq Places /\ workerPlaces \subseteq Places
    /\ operating \subseteq workerPlaces /\ repositoryPlaces \subseteq workerPlaces
    /\ {"none", "save", "register", "slot", "begin", "mark", "final", "leave"} \cap repositoryPlaces = {}
BY DEF workerPlaces, Places, operating, repositoryPlaces, retaining

LEMMA AdmitStep ==
    ASSUME TypeOfTasks, TaskInv, NEW i \in Ids, NEW c \in Checkpoints, Sound(c), Admit(i, c),
           troubles' \in Nat
    PROVE  TaskStep
<1>1. Advances
    BY NoRecordChanges DEF Admit
<1>2. TypeOfTasks'
    <2>1. starting' \in Starts
        BY IdFacts DEF Admit, TypeOfTasks, Starts
    <2>2. active' \in Admissions
        BY IdFacts DEF Admit, Admissions
    <2>3. at' \in [Ids -> Places]
        BY PlaceFacts DEF Admit, Goto, TypeOfTasks
    <2>4. QED
        BY <2>1, <2>2, <2>3 DEF Admit, TypeOfTasks
<1>3. Released'
    <2>1. starting'.previous = active /\ active'.final = FALSE
        BY DEF Admit
    <2>2. active.id # 0 => taskTerminal(active.id)
        BY DEF Admit, TaskInv, Released
    <2>3. QED
        BY <2>1, <2>2 DEF Released, taskTerminal, Admit
<1>4. OneOwner'
    <2>1. \A k \in Ids : at[k] # "none" => taskTerminal(k)
        BY IdFacts DEF Admit, TaskInv, OneOwner, Released
    <2>2. active'.id = i /\ tasks' = tasks /\ \A k \in Ids \ {i} : at'[k] = at[k]
        BY DEF Admit, Goto, TypeOfTasks
    <2>3. QED
        BY <2>1, <2>2 DEF OneOwner, taskTerminal
<1>5. Recorded'
    BY DEF Admit, Goto, Unused, TaskInv, Recorded, TypeOfTasks
<1>6. ViewCurrent'
    BY DEF Admit, TaskInv, ViewCurrent, taskStillActive
<1>7. OrphansEnded'
    <2>1. ~tasks[i].orphan
        BY DEF Admit, Unused, TaskInv, OrphansEnded, taskTerminal
    <2>2. QED
        BY <2>1 DEF Admit, Goto, TaskInv, OrphansEnded, taskTerminal, TypeOfTasks
<1>8. RecordsSound'
    <2>1. starting'.checkpoint = c /\ tasks' = tasks
        BY DEF Admit
    <2>2. QED
        BY <2>1 DEF TaskInv, RecordsSound, Sound, automatic
<1>9. \A k \in Ids : at'[k] \in repositoryPlaces => at'[k] = at[k]
    BY PlaceFacts DEF Admit, Goto, TypeOfTasks
<1>10. QED
    BY <1>1, <1>2, <1>3, <1>4, <1>5, <1>6, <1>7, <1>8, <1>9 DEF TaskStep, TaskInv

LEMMA QueuedFacts ==
    ASSUME TypeOfTasks, TaskInv
    PROVE  /\ queued \in Records /\ queued.status = "queued" /\ queued.orphan = FALSE
           /\ queued.checkpoint = starting.checkpoint /\ Sound(starting.checkpoint)
<1>1. starting.checkpoint \in Checkpoints
    BY DEF TypeOfTasks, Starts
<1>2. QED
    BY <1>1 DEF queued, Records, Statuses, TaskInv, RecordsSound

LEMMA SaveTaskStep ==
    ASSUME TypeOfTasks, TaskInv, NEW i \in Ids, SaveTask(i)
    PROVE  TaskStep
<1>1. tasks[i].status = "none"
    BY DEF SaveTask, TaskInv, Recorded
<1>2. ~taskTerminal(i) /\ at[i] = "save" /\ at' = [at EXCEPT ![i] = "register"] /\ putTask(i, queued)
    BY <1>1 DEF taskTerminal, SaveTask, Goto
<1>3. TaskInv' /\ Advances
    BY <1>1, <1>2, QueuedFacts, PlaceFacts, RecordPut DEF SaveTask
<1>4. TypeOfTasks'
    BY <1>2, QueuedFacts, RecordPutType, PlaceFacts DEF SaveTask, TypeOfTasks
<1>5. \A k \in Ids : at'[k] \in repositoryPlaces => at'[k] = at[k]
    BY <1>2, PlaceFacts DEF TypeOfTasks
<1>6. QED
    BY <1>3, <1>4, <1>5 DEF TaskStep

LEMMA SaveTaskFailsStep ==
    ASSUME TypeOfTasks, TaskInv, NEW i \in Ids, SaveTaskFails(i)
    PROVE  TaskStep
<1>1. tasks[i].status = "none" /\ active.id = i
    BY DEF SaveTaskFails, TaskInv, Recorded, OneOwner, taskTerminal
<1>2. at' = [at EXCEPT ![i] = "none"] /\ starting' = NoStart
    BY DEF SaveTaskFails, Goto
<1>3. \/ tasks' = tasks
      \/ tasks' = [tasks EXCEPT ![i] = queued]
    BY DEF SaveTaskFails
<1>4. Advances
    <2>1. CASE tasks' = tasks
        BY <2>1, NoRecordChanges
    <2>2. CASE tasks' = [tasks EXCEPT ![i] = queued]
        BY <1>1, <2>2, QueuedFacts, RecordWritten DEF taskTerminal
    <2>3. QED
        BY <1>3, <2>1, <2>2
<1>5. \A k \in Ids : k # i => tasks'[k] = tasks[k]
    BY <1>3, TaskFields
<1>6. tasks'[i] = tasks[i] \/ tasks'[i] = queued
    BY <1>3, TaskFields
<1>7. \A k \in Ids : taskTerminal(k) => taskTerminal(k)'
    BY <1>4 DEF Advances, Advance
<1>8. TypeOfTasks'
    <2>1. tasks' \in [Ids -> Records]
        BY <1>3, QueuedFacts DEF TypeOfTasks
    <2>2. active' \in Admissions
        BY InitialTypes DEF SaveTaskFails, TypeOfTasks, Starts
    <2>3. at' \in [Ids -> Places]
        BY <1>2, PlaceFacts DEF TypeOfTasks
    <2>4. troubles' \in Nat
        BY DEF SaveTaskFails, Trouble, TypeOfTasks
    <2>5. QED
        BY <1>2, <2>1, <2>2, <2>3, <2>4, InitialTypes DEF SaveTaskFails, TypeOfTasks
<1>9. Released'
    <2>1. starting.previous.id # 0 =>
             tasks'[starting.previous.id].status \in {"canceled", "failed", "succeeded"}
        BY <1>7, IdFacts DEF TypeOfTasks, Starts, Admissions, TaskInv, Released, taskTerminal
    <2>2. (active.final)' => (active.id)' # 0 /\ taskTerminal(active.id)'
        <3>1. CASE starting.previous.id \in cancels
            BY <2>1, <3>1, IdFacts DEF SaveTaskFails, TypeOfTasks, taskTerminal
        <3>2. CASE starting.previous.id \notin cancels
            BY <3>2 DEF SaveTaskFails, NoActive
        <3>3. QED
            BY <3>1, <3>2
    <2>3. (starting.previous.id)' = 0
        BY <1>2 DEF NoStart
    <2>4. QED
        BY <2>2, <2>3 DEF Released
<1>10. OneOwner'
    BY <1>1, <1>2, <1>7 DEF TaskInv, OneOwner, TypeOfTasks
<1>11. Recorded'
    BY <1>2, <1>5 DEF TaskInv, Recorded, TypeOfTasks
<1>12. ViewCurrent'
    <2>1. view' = view /\ (view # 0 => view \in Ids /\ view # i)
        BY <1>1, IdFacts DEF SaveTaskFails, TypeOfTasks, TaskInv, ViewCurrent, taskStillActive
    <2>2. QED
        BY <1>5, <2>1 DEF TaskInv, ViewCurrent, taskStillActive
<1>13. OrphansEnded'
    BY <1>1, <1>2, <1>5, <1>6, QueuedFacts DEF TaskInv, OrphansEnded, taskTerminal, TypeOfTasks
<1>14. RecordsSound'
    <2>1. Sound(starting.checkpoint)'
        BY <1>2 DEF NoStart, NewCheckpoint, Sound
    <2>2. ASSUME NEW k \in Ids PROVE Sound(tasks[k].checkpoint)'
        <3> DEFINE c == tasks'[k].checkpoint
        <3>1. c \in Checkpoints /\ Sound(c)
            BY <1>5, <1>6, QueuedFacts, TaskFields, RecordFields DEF TaskInv, RecordsSound
        <3>2. c.captureId # 0 => c.captureId \in Ids
            BY <3>1, CheckpointFields, IdFacts
        <3>3. QED
            BY <1>4, <3>1, <3>2 DEF Sound, automatic, Advances, Advance
    <2>3. QED
        BY <2>1, <2>2 DEF RecordsSound
<1>15. \A k \in Ids : at'[k] \in repositoryPlaces => at'[k] = at[k]
    BY <1>2, PlaceFacts DEF TypeOfTasks
<1>16. QED
    BY <1>4, <1>8, <1>9, <1>10, <1>11, <1>12, <1>13, <1>14, <1>15 DEF TaskStep, TaskInv
\* A worker goes on and leaves records, admission and views alone.
LEMMA WorkerStep ==
    ASSUME TypeOfTasks, TaskInv, NEW i \in Ids, at[i] \in workerPlaces,
           NEW p \in workerPlaces \ repositoryPlaces, at' = [at EXCEPT ![i] = p],
           UNCHANGED <<tasks, active, view, closing>>, starting' \in {starting, NoStart},
           outcome' \in [Ids -> {"ok", "err", "canceled"}], cancels' \subseteq Ids,
           signalled' \subseteq Ids, execution' \in 0..MaxTasks, troubles' \in Nat
    PROVE  TaskStep
<1>1. TaskInv' /\ Advances
    BY WorkerMoves
<1>2. TypeOfTasks'
    BY PlaceFacts, InitialTypes DEF TypeOfTasks
<1>3. \A k \in Ids : at'[k] \in repositoryPlaces => at'[k] = at[k]
    BY DEF TypeOfTasks
<1>4. QED
    BY <1>1, <1>2, <1>3 DEF TaskStep

LEMMA RegisterTaskCancelStep ==
    ASSUME TypeOfTasks, TaskInv, NEW i \in Ids, RegisterTaskCancel(i)
    PROVE  TaskStep
<1>1. at[i] \in workerPlaces /\ "slot" \in workerPlaces \ repositoryPlaces
    BY PlaceFacts DEF RegisterTaskCancel
<1>2. cancels' \subseteq Ids /\ signalled' \subseteq Ids
    BY DEF RegisterTaskCancel, TypeOfTasks
<1>3. QED
    BY <1>1, <1>2, WorkerStep DEF RegisterTaskCancel, Goto, TypeOfTasks

LEMMA AcquireStep ==
    ASSUME TypeOfTasks, TaskInv, NEW i \in Ids, Acquire(i)
    PROVE  TaskStep
<1>1. at[i] \in workerPlaces /\ "begin" \in workerPlaces \ repositoryPlaces
    BY PlaceFacts DEF Acquire
<1>2. QED
    BY <1>1, IdFacts, WorkerStep DEF Acquire, Goto, TypeOfTasks

\* The record of a task with a new status.
LEMMA StatusRecord ==
    ASSUME TypeOfTasks, TaskInv, NEW i \in Ids, NEW s \in Statuses \ {"none"}
    PROVE  LET r == [tasks[i] EXCEPT !.status = s]
           IN  /\ r \in Records /\ r.status = s /\ r.orphan = tasks[i].orphan
               /\ r.checkpoint = tasks[i].checkpoint /\ Sound(r.checkpoint)
<1>1. tasks[i] \in Records /\ Sound(tasks[i].checkpoint)
    BY TaskFields DEF TaskInv, RecordsSound
<1>2. QED
    BY <1>1, RecordFields DEF Records

\* A task that has not ended is not ownerless.
LEMMA NotOrphan ==
    ASSUME TypeOfTasks, TaskInv, NEW i \in Ids, ~taskTerminal(i)
    PROVE  tasks[i].orphan = FALSE
BY TaskFields DEF TaskInv, OrphansEnded

LEMMA SetStatus ==
    ASSUME TypeOfTasks, TaskInv, NEW i \in Ids, NEW s \in Statuses \ {"none"}, setStatus(i, s),
           ~taskTerminal(i), starting' = starting,
           \/ at' = at /\ at[i] # "save"
           \/ at[i] # "none" /\ \E p \in workerPlaces : at' = [at EXCEPT ![i] = p]
    PROVE  /\ TaskInv' /\ Advances
           /\ tasks' \in [Ids -> Records] /\ active' \in Admissions /\ view' \in 0..MaxTasks
<1> DEFINE r == [tasks[i] EXCEPT !.status = s]
<1>1. r \in Records /\ r.status # "none" /\ r.checkpoint = tasks[i].checkpoint /\ Sound(r.checkpoint)
    BY StatusRecord
<1>2. ~r.orphan
    BY StatusRecord, NotOrphan
<1>3. putTask(i, r)
    BY DEF setStatus
<1> HIDE DEF r
<1>4. TaskInv' /\ Advances
    BY <1>1, <1>2, <1>3, RecordPut
<1>5. QED
    BY <1>1, <1>3, <1>4, RecordPutType

LEMMA TrySaveTaskStep ==
    ASSUME TypeOfTasks, TaskInv, NEW i \in Ids, NEW s \in Statuses \ {"none"}, trySaveTask(i, s),
           at[i] \in workerPlaces, NEW p \in workerPlaces \ repositoryPlaces, Goto(i, p),
           UNCHANGED <<outcome, cancels, signalled, execution, starting, closing>>
    PROVE  TaskStep
<1>1. at' = [at EXCEPT ![i] = p] /\ at[i] # "none"
    BY DEF Goto, workerPlaces
<1>2. troubles' \in Nat
    BY DEF trySaveTask, Trouble, TypeOfTasks
<1>3. CASE UNCHANGED <<tasks, active, view>>
    BY <1>1, <1>2, <1>3, WorkerStep DEF TypeOfTasks
<1>4. CASE ~taskTerminal(i) /\ setStatus(i, s)
    <2>1. /\ TaskInv' /\ Advances
          /\ tasks' \in [Ids -> Records] /\ active' \in Admissions /\ view' \in 0..MaxTasks
        BY <1>1, <1>4, SetStatus
    <2>2. TypeOfTasks'
        BY <1>1, <1>2, <2>1, PlaceFacts DEF TypeOfTasks
    <2>3. \A k \in Ids : at'[k] \in repositoryPlaces => at'[k] = at[k]
        BY <1>1 DEF TypeOfTasks
    <2>4. QED
        BY <2>1, <2>2, <2>3 DEF TaskStep
<1>5. QED
    BY <1>3, <1>4 DEF trySaveTask

LEMMA DequeueStep ==
    ASSUME TypeOfTasks, TaskInv, NEW i \in Ids, Dequeue(i)
    PROVE  TaskStep
<1>1. at[i] \in workerPlaces /\ "leave" \in workerPlaces \ repositoryPlaces
    BY PlaceFacts DEF Dequeue
<1>2. QED
    BY <1>1, TrySaveTaskStep DEF Dequeue, Statuses

LEMMA BeginStep ==
    ASSUME TypeOfTasks, TaskInv, NEW i \in Ids, Begin(i)
    PROVE  TaskStep
<1>1. at[i] \in workerPlaces /\ {"mark", "leave"} \subseteq workerPlaces \ repositoryPlaces
    BY PlaceFacts DEF Begin
<1>2. CASE Goto(i, "leave") /\ UNCHANGED <<tasks, active, view, troubles>>
    BY <1>1, <1>2, WorkerStep DEF Begin, Goto, TypeOfTasks
<1>3. CASE Goto(i, "mark") /\ trySaveTask(i, "running")
    BY <1>1, <1>3, TrySaveTaskStep DEF Begin, Statuses
<1>4. QED
    BY <1>2, <1>3 DEF Begin

LEMMA FinishStep ==
    ASSUME TypeOfTasks, TaskInv, NEW i \in Ids, Finish(i)
    PROVE  TaskStep
<1>1. at[i] \in workerPlaces /\ "leave" \in workerPlaces \ repositoryPlaces
    BY PlaceFacts DEF Finish
<1>2. finalStatus(i) \in Statuses \ {"none"}
    BY DEF finalStatus, Statuses
<1>3. QED
    BY <1>1, <1>2, TrySaveTaskStep DEF Finish

LEMMA LeaveStep ==
    ASSUME TypeOfTasks, TaskInv, NEW i \in Ids, Leave(i)
    PROVE  TaskStep
<1>1. at' = [at EXCEPT ![i] = "none"] /\ UNCHANGED <<tasks, starting, view, closing, troubles>>
    BY DEF Leave, Goto
<1>2. Advances
    BY <1>1, NoRecordChanges
<1>3. active' \in {active, NoActive} /\ (active.id # i => active' = active)
    BY DEF Leave
<1>4. TypeOfTasks'
    <2>1. at' \in [Ids -> Places] /\ active' \in Admissions
        BY <1>1, <1>3, PlaceFacts, InitialTypes DEF TypeOfTasks
    <2>2. cancels' \subseteq Ids /\ signalled' \subseteq Ids
        BY DEF Leave, TypeOfTasks
    <2>3. outcome' \in [Ids -> {"ok", "err", "canceled"}] /\ execution' \in 0..MaxTasks
        BY TasksAssumption DEF Leave, TypeOfTasks
    <2>4. QED
        BY <1>1, <2>1, <2>2, <2>3 DEF TypeOfTasks
<1>5. Released'
    BY <1>1, <1>3 DEF TaskInv, Released, taskTerminal, NoActive
<1>6. OneOwner'
    BY <1>1, <1>3 DEF TaskInv, OneOwner, taskTerminal, TypeOfTasks
<1>7. Recorded'
    BY <1>1 DEF TaskInv, Recorded, TypeOfTasks
<1>8. ViewCurrent'
    BY <1>1 DEF TaskInv, ViewCurrent, taskStillActive
<1>9. OrphansEnded'
    BY <1>1 DEF TaskInv, OrphansEnded, taskTerminal, TypeOfTasks
<1>10. RecordsSound'
    BY <1>1 DEF TaskInv, RecordsSound, Sound, automatic
<1>11. \A k \in Ids : at'[k] \in repositoryPlaces => at'[k] = at[k]
    BY <1>1, PlaceFacts DEF TypeOfTasks
<1>12. QED
    BY <1>2, <1>4, <1>5, <1>6, <1>7, <1>8, <1>9, <1>10, <1>11 DEF TaskStep, TaskInv

LEMMA CancelTaskStep ==
    ASSUME TypeOfTasks, TaskInv, NEW i \in Ids, CancelTask(i)
    PROVE  TaskStep
<1>1. ~taskTerminal(i) /\ at' = at /\ at[i] # "save" /\ "canceled" \in Statuses \ {"none"}
    BY DEF CancelTask, taskStillActive, taskTerminal, TaskInv, Recorded, Statuses
<1>2. /\ TaskInv' /\ Advances
      /\ tasks' \in [Ids -> Records] /\ active' \in Admissions /\ view' \in 0..MaxTasks
    BY <1>1, SetStatus DEF CancelTask
<1>3. TypeOfTasks'
    BY <1>1, <1>2 DEF CancelTask, Trouble, TypeOfTasks
<1>4. QED
    BY <1>1, <1>2, <1>3 DEF TaskStep

LEMMA GetTaskStep ==
    ASSUME TypeOfTasks, TaskInv, NEW i \in Ids, GetTask(i)
    PROVE  TaskStep
<1>1. UNCHANGED <<tasks, at, active, starting>> /\ view' = i
    BY DEF GetTask
<1>2. Advances
    BY <1>1, NoRecordChanges
<1>3. TypeOfTasks'
    BY IdFacts DEF GetTask, TypeOfTasks
<1>4. ViewCurrent'
    BY DEF GetTask, ViewCurrent, taskStillActive
<1>5. Released' /\ OneOwner' /\ Recorded' /\ OrphansEnded'
    BY <1>1 DEF TaskInv, Released, OneOwner, Recorded, OrphansEnded, taskTerminal
<1>6. RecordsSound'
    BY <1>1 DEF TaskInv, RecordsSound, Sound, automatic
<1>7. QED
    BY <1>1, <1>2, <1>3, <1>4, <1>5, <1>6 DEF TaskStep, TaskInv
\* An unfinished task whose owner is gone has no worker, and is failed.
LEMMA OrphanStep ==
    ASSUME TypeOfTasks, TaskInv, NEW i \in Ids, taskStillActive(i), taskOwnerStopped(i),
           putTask(i, orphaned(tasks[i])),
           UNCHANGED <<at, outcome, cancels, signalled, execution, starting, closing, troubles>>
    PROVE  TaskStep
<1> DEFINE r == orphaned(tasks[i])
<1>1. tasks[i] \in Records /\ Sound(tasks[i].checkpoint)
    BY TaskFields DEF TaskInv, RecordsSound
<1>2. r \in Records /\ r.status = "failed" /\ r.checkpoint = tasks[i].checkpoint
    BY <1>1, RecordFields DEF orphaned, Records
<1>3. ~taskTerminal(i) /\ tasks[i].status # "none"
    BY DEF taskStillActive, taskTerminal
<1>4. at[i] = "none"
    BY <1>3 DEF TaskInv, OneOwner, taskOwnerStopped
<1> HIDE DEF r
<1>5. putTask(i, r) /\ Sound(r.checkpoint)
    BY <1>1, <1>2 DEF r
<1>6. TaskInv' /\ Advances
    BY <1>2, <1>3, <1>4, <1>5, RecordPut
<1>7. TypeOfTasks'
    BY <1>2, <1>5, RecordPutType DEF TypeOfTasks
<1>8. QED
    BY <1>6, <1>7 DEF TaskStep

LEMMA ReconcileInactiveTaskStep ==
    ASSUME TypeOfTasks, TaskInv, ReconcileInactiveTask
    PROVE  TaskStep
<1>1. view \in Ids /\ taskStillActive(view)
    BY IdFacts DEF ReconcileInactiveTask, TypeOfTasks, TaskInv, ViewCurrent
<1>2. CASE taskOwnerStopped(view)
    <2>1. putTask(view, orphaned(tasks[view]))
        BY <1>1, <1>2 DEF ReconcileInactiveTask, putTask, taskOwnerStopped
    <2>2. QED
        BY <1>1, <1>2, <2>1, OrphanStep DEF ReconcileInactiveTask
<1>3. CASE ~taskOwnerStopped(view)
    <2>1. UNCHANGED <<tasks, at, active, starting>> /\ view' = 0
        BY <1>3 DEF ReconcileInactiveTask
    <2>a. 0 \in 0..MaxTasks
        BY TasksAssumption
    <2>2. TypeOfTasks'
        BY <2>1, <2>a DEF ReconcileInactiveTask, TypeOfTasks
    <2>3. Released' /\ OneOwner' /\ Recorded' /\ OrphansEnded' /\ ViewCurrent'
        BY <2>1 DEF TaskInv, Released, OneOwner, Recorded, OrphansEnded, ViewCurrent, taskTerminal
    <2>4. RecordsSound'
        BY <2>1 DEF TaskInv, RecordsSound, Sound, automatic
    <2>5. QED
        BY <2>1, <2>2, <2>3, <2>4, NoRecordChanges DEF TaskStep, TaskInv
<1>4. QED
    BY <1>2, <1>3

\* Nothing of the runtime changes but who is told to stop.
LEMMA RuntimeStays ==
    ASSUME TypeOfTasks, TaskInv, UNCHANGED <<tasks, at, outcome, active, cancels, execution, starting, view>>,
           signalled' \subseteq Ids, closing' \in BOOLEAN, troubles' \in Nat
    PROVE  TaskStep
<1>1. TypeOfTasks'
    BY DEF TypeOfTasks
<1>2. Released' /\ OneOwner' /\ Recorded' /\ OrphansEnded' /\ ViewCurrent'
    BY DEF TaskInv, Released, OneOwner, Recorded, OrphansEnded, ViewCurrent, taskTerminal, taskStillActive
<1>3. RecordsSound'
    BY DEF TaskInv, RecordsSound, Sound, automatic
<1>4. QED
    BY <1>1, <1>2, <1>3, NoRecordChanges DEF TaskStep, TaskInv

\* After a crash or an orderly end only the records are left.
LEMMA ForgetStep ==
    ASSUME TypeOfTasks, TaskInv, forget, troubles' \in Nat
    PROVE  TaskStep
<1>1. /\ tasks' = tasks /\ \A i \in Ids : at'[i] = "none"
      /\ active' = NoActive /\ starting' = NoStart /\ view' = 0
    BY DEF forget
<1>2. TypeOfTasks'
    <2>1. at' \in [Ids -> Places] /\ outcome' \in [Ids -> {"ok", "err", "canceled"}]
        BY PlaceFacts DEF forget
    <2>2. 0 \in 0..MaxTasks
        BY TasksAssumption
    <2>3. QED
        BY <2>1, <2>2, InitialTypes DEF forget, TypeOfTasks
<1>3. Released' /\ OneOwner' /\ Recorded' /\ ViewCurrent' /\ OrphansEnded'
    BY <1>1 DEF TaskInv, Released, OneOwner, Recorded, ViewCurrent, OrphansEnded, taskTerminal, NoActive, NoStart
<1>4. RecordsSound'
    <2>1. Sound(starting.checkpoint)'
        BY <1>1 DEF Sound, NoStart, NewCheckpoint
    <2>2. QED
        BY <1>1, <2>1 DEF TaskInv, RecordsSound, Sound, automatic
<1>5. QED
    BY <1>1, <1>2, <1>3, <1>4, NoRecordChanges, PlaceFacts DEF TaskStep, TaskInv

-----------------------------------------------------------------------------
(* Backups.  Every action keeps the invariant, and only a deletion takes   *)
(* something off the list.                                                 *)

ListKept == listed # {} /\ ~overtaken' => listed' # {}

BackupStep == IInv' /\ ListKept

\* What is listed belongs to a recorded task, whose kind does not change.
LEMMA NothingUnlisted ==
    ASSUME RepositoryInv, Advances, \A b \in Ids : manifest[b] # 0 => manifest'[b] # 0
    PROVE  ListKept
<1>1. ASSUME NEW b \in listed PROVE b \in listed'
    BY <1>1 DEF listed, automatic, RepositoryInv, ListedComplete, Advances, Advance
<1>2. QED
    BY <1>1 DEF ListKept

\* A step of the task runtime with the backups left alone.
LEMMA RuntimeStep ==
    ASSUME IInv, TaskStep, UNCHANGED <<clock, file, manifest, payload, schedule, overtaken>>,
           tick' \in {tick, "idle"}, op' \in [Ids -> Operations],
           \A k \in Ids : at'[k] # "none" => op'[k] = op[k]
    PROVE  BackupStep
<1>1. Advances /\ TypeOfTasks' /\ TaskInv'
    BY DEF TaskStep
<1>2. TypeOfBackups'
    BY DEF IInv, TypeOK, TypeOfBackups
<1>3. ScheduleInv'
    BY <1>1, ScheduleStays DEF IInv, TypeOK
<1>4. RepositoryInv'
    <2>1. \A k \in Ids : at'[k] \in repositoryPlaces => at'[k] = at[k] /\ op'[k] = op[k]
        BY PlaceFacts DEF TaskStep
    <2>2. QED
        BY <1>1, <2>1, RepositoryStays DEF IInv
<1>5. ListKept
    BY <1>1, NothingUnlisted DEF IInv
<1>6. QED
    BY <1>1, <1>2, <1>3, <1>4, <1>5 DEF BackupStep, IInv, TypeOK

\* A step of the scheduler that starts nothing.
LEMMA SchedulerStep ==
    ASSUME IInv, UNCHANGED <<tasks, runtime, clock, manifest, payload, op, overtaken>>,
           troubles' \in Nat, file' \in [Ids -> Nat], schedule' \in Schedules,
           tick' \in {"idle", "clean", "plan", "launch", "reset"}, ScheduleInv'
    PROVE  BackupStep
<1>1. TaskStep
    BY RuntimeStays DEF IInv, TypeOK, TypeOfTasks, runtime
<1>2. Advances /\ TypeOfTasks' /\ TaskInv'
    BY <1>1 DEF TaskStep
<1>3. TypeOfBackups'
    BY DEF IInv, TypeOK, TypeOfBackups
<1>4. RepositoryInv'
    <2>1. \A k \in Ids : at'[k] \in repositoryPlaces => at'[k] = at[k] /\ op'[k] = op[k]
        BY DEF runtime
    <2>2. QED
        BY <1>2, <2>1, RepositoryStays DEF IInv
<1>5. ListKept
    BY <1>2, NothingUnlisted DEF IInv
<1>6. QED
    BY <1>2, <1>3, <1>4, <1>5 DEF BackupStep, IInv, TypeOK
\* A worker goes on at the repository and takes nothing from it.
LEMMA RepositoryArrives ==
    ASSUME TypeOK, TaskInv, RepositoryInv, Advances, NEW i \in Ids, at[i] \in operating,
           UNCHANGED <<manifest, overtaken>>, payload \subseteq payload',
           \A k \in Ids \ {i} : at'[k] = at[k] /\ op'[k] = op[k],
           at'[i] # "erase",
           at'[i] = "manifest" =>
              /\ [id |-> backupId(i), version |-> op'[i].version] \in payload'
              /\ ~deleting(backupId(i)),
           at'[i] \in retaining \cup {"verify"} => tasks[i].checkpoint.auto,
           at'[i] \in {"delete", "clear"} => op'[i].target # NoEntry /\ op'[i].target.id # backupId(i),
           ~overtaken /\ ~taskTerminal(i) /\ at'[i] \in retaining => manifest[backupId(i)] # 0
    PROVE  RepositoryInv'
<1>1. \A k \in Ids : (k = i \/ at[k] \in repositoryPlaces) => tasks[k].status # "none"
    BY DEF TaskInv, Recorded, repositoryPlaces, retaining, operating
<1>2. \A k \in Ids : tasks[k].status # "none" =>
         /\ backupId(k)' = backupId(k) /\ tasks'[k].checkpoint.auto = tasks[k].checkpoint.auto
         /\ taskTerminal(k) => taskTerminal(k)'
    BY DEF Advances, Advance
<1>3. ListedComplete'
    BY DEF RepositoryInv, ListedComplete, Advances, Advance
<1>4. UploadedFirst'
    BY <1>1, <1>2 DEF RepositoryInv, UploadedFirst, repositoryPlaces
<1>5. ErasedAlone'
    <2> SUFFICES ASSUME NEW j \in Ids, at'[j] = "erase"
                 PROVE  manifest[op[j].target.id] = 0 /\ op'[j] = op[j]
                        /\ \A k \in Ids : at'[k] = "manifest" => backupId(k)' # op[j].target.id
        BY DEF ErasedAlone, pinned
    <2>1. j # i /\ at[j] = "erase" /\ op'[j] = op[j]
        OBVIOUS
    <2>2. manifest[op[j].target.id] = 0 /\ ~pinned(op[j].target.id)
        BY <2>1 DEF RepositoryInv, ErasedAlone
    <2>3. ASSUME NEW k \in Ids, at'[k] = "manifest" PROVE backupId(k)' # op[j].target.id
        <3>1. CASE k = i
            BY <1>1, <1>2, <2>1, <2>3, <3>1 DEF deleting
        <3>2. CASE k # i
            BY <1>1, <1>2, <2>2, <2>3, <3>2 DEF pinned, repositoryPlaces
        <3>3. QED
            BY <3>1, <3>2
    <2>4. QED
        BY <2>1, <2>2, <2>3
<1>6. RetentionSpares'
    BY <1>1, <1>2 DEF RepositoryInv, RetentionSpares, repositoryPlaces, retaining
<1>7. VerifiedStays'
    BY <1>1, <1>2 DEF RepositoryInv, VerifiedStays, repositoryPlaces, retaining
<1>8. QED
    BY <1>3, <1>4, <1>5, <1>6, <1>7 DEF RepositoryInv

\* The task runtime when an operation goes on without a report.
LEMMA OperationMoves ==
    ASSUME TypeOfTasks, TaskInv, NEW i \in Ids, at[i] \in operating, stays,
           \/ (\E p \in operating : Goto(i, p)) /\ UNCHANGED outcome
           \/ \E result \in {"ok", "err", "canceled"} : End(i, result),
           UNCHANGED <<cancels, signalled, starting, closing>>, execution' \in 0..MaxTasks, troubles' \in Nat
    PROVE  /\ TypeOfTasks' /\ TaskInv' /\ Advances
           /\ \A k \in Ids \ {i} : at'[k] = at[k]
<1>1. PICK p \in workerPlaces : at' = [at EXCEPT ![i] = p]
    BY PlaceFacts DEF Goto, End
<1>2. outcome' \in [Ids -> {"ok", "err", "canceled"}]
    BY DEF End, TypeOfTasks
<1>3. TaskInv' /\ Advances
    BY <1>1, PlaceFacts, WorkerMoves DEF stays
<1>4. TypeOfTasks'
    BY <1>1, <1>2, PlaceFacts DEF stays, TypeOfTasks
<1>5. QED
    BY <1>1, <1>3, <1>4 DEF TypeOfTasks

\* The task runtime when an operation reports progress.
LEMMA ProgressMoves ==
    ASSUME TypeOfTasks, TaskInv, NEW i \in Ids, at[i] \in operating,
           NEW c \in Checkpoints, NEW p \in operating \cup {"final"}, progress(i, c, p),
           Sound(c), c.auto = tasks[i].checkpoint.auto,
           c.captureId = tasks[i].checkpoint.captureId \/ c.captureId = backupId(i),
           UNCHANGED <<cancels, signalled, starting, closing, troubles>>, execution' \in 0..MaxTasks
    PROVE  /\ TypeOfTasks' /\ TaskInv' /\ Advances
           /\ \A k \in Ids \ {i} : at'[k] = at[k]
           /\ at'[i] \in {"final", p} /\ (taskTerminal(i) => at'[i] = "final")
<1>1. CASE taskTerminal(i)
    <2>1. End(i, "canceled") /\ stays
        BY <1>1 DEF progress, stays
    <2>2. at'[i] = "final"
        BY <2>1 DEF End, Goto, TypeOfTasks
    <2>3. QED
        BY <2>1, <2>2, OperationMoves DEF TypeOfTasks
<1>2. CASE ~taskTerminal(i)
    <2> DEFINE r == [tasks[i] EXCEPT !.status = "running", !.checkpoint = c]
    <2>1. putTask(i, r) /\ at' = [at EXCEPT ![i] = p] /\ outcome' = outcome
        BY <1>2 DEF progress, Goto
    <2>2. r \in Records /\ r.status = "running" /\ r.checkpoint = c /\ r.orphan = FALSE
        <3>1. tasks[i] \in Records /\ tasks[i].orphan = FALSE
            BY <1>2, TaskFields, NotOrphan
        <3>2. QED
            BY <3>1 DEF Records, Statuses
    <2> HIDE DEF r
    <2>3. p \in workerPlaces /\ at[i] # "none"
        BY PlaceFacts DEF workerPlaces
    <2>4. TaskInv' /\ Advances
        BY <1>2, <2>1, <2>2, <2>3, RecordPut
    <2>5. TypeOfTasks'
        BY <2>1, <2>2, <2>3, RecordPutType, PlaceFacts DEF TypeOfTasks
    <2>6. QED
        BY <1>2, <2>1, <2>4, <2>5 DEF TypeOfTasks
<1>3. QED
    BY <1>1, <1>2
\* What an operation has to go by.
LEMMA OperationFacts ==
    ASSUME IInv, NEW i \in Ids, at[i] \in operating
    PROVE  /\ TypeOfTasks /\ TypeOfBackups /\ TypeOK /\ TaskInv /\ ScheduleInv /\ RepositoryInv
           /\ tasks[i].status # "none" /\ tasks[i].checkpoint \in Checkpoints
           /\ Sound(tasks[i].checkpoint) /\ backupId(i) \in Ids
           /\ tasks[backupId(i)].status # "none"
           /\ automatic(backupId(i)) = tasks[i].checkpoint.auto
           /\ op[i] \in Operations /\ manifest \in [Ids -> Nat]
           /\ execution \in 0..MaxTasks /\ 0 \in 0..MaxTasks /\ troubles \in Nat
<1>1. TypeOfTasks /\ TypeOfBackups /\ TaskInv
    BY DEF IInv, TypeOK
<1>2. tasks[i].status # "none" /\ Sound(tasks[i].checkpoint)
    BY <1>1, PlaceFacts DEF TaskInv, Recorded, RecordsSound, workerPlaces
<1>3. tasks[i].checkpoint \in Checkpoints /\ backupId(i) \in Ids
    BY <1>1, TaskFields
<1>4. tasks[backupId(i)].status # "none" /\ automatic(backupId(i)) = tasks[i].checkpoint.auto
    BY <1>2 DEF backupId, Sound, automatic
<1>5. QED
    BY <1>1, <1>2, <1>3, <1>4, TasksAssumption DEF IInv, TypeOK, TypeOfTasks, TypeOfBackups

\* The invariant after an operation went on, from its parts.
LEMMA OperationKeeps ==
    ASSUME IInv, TypeOfTasks', TypeOfBackups', TaskInv', Advances, RepositoryInv',
           UNCHANGED <<manifest, schedule, tick>>
    PROVE  BackupStep
BY ScheduleStays, NothingUnlisted DEF IInv, TypeOK, BackupStep

\* An operation reports progress and leaves the repository alone.
LEMMA ReportStep ==
    ASSUME IInv, NEW i \in Ids, at[i] \in operating,
           NEW c \in Checkpoints, NEW p \in operating \cup {"final"}, progress(i, c, p),
           Sound(c), c.auto = tasks[i].checkpoint.auto,
           c.captureId = tasks[i].checkpoint.captureId \/ c.captureId = backupId(i),
           UNCHANGED work, execution' \in 0..MaxTasks,
           UNCHANGED <<clock, file, repository, schedule, tick, overtaken>>,
           op' \in [Ids -> Operations], \A k \in Ids \ {i} : op'[k] = op[k],
           p \notin {"manifest", "erase"},
           p \in retaining \cup {"verify"} => tasks[i].checkpoint.auto,
           p \in {"delete", "clear"} => op'[i].target # NoEntry /\ op'[i].target.id # backupId(i),
           p \in retaining => at[i] \in retaining
    PROVE  BackupStep
<1>1. /\ TypeOfTasks' /\ TaskInv' /\ Advances
      /\ \A k \in Ids \ {i} : at'[k] = at[k]
      /\ at'[i] \in {"final", p} /\ (taskTerminal(i) => at'[i] = "final")
    BY OperationFacts, ProgressMoves DEF work, others
<1>2. TypeOfBackups'
    BY DEF IInv, TypeOK, TypeOfBackups, repository
<1>3. ~overtaken /\ ~taskTerminal(i) /\ at[i] \in retaining => manifest[backupId(i)] # 0
    BY DEF IInv, RepositoryInv, VerifiedStays
<1>4. RepositoryInv'
    <2>1. "final" \notin retaining \cup {"verify", "manifest", "erase", "delete", "clear"}
        BY DEF retaining
    <2>2. UNCHANGED <<manifest, overtaken>> /\ payload \subseteq payload'
        BY DEF repository
    <2>3. /\ at'[i] # "erase" /\ at'[i] # "manifest"
          /\ at'[i] \in retaining \cup {"verify"} => tasks[i].checkpoint.auto
          /\ at'[i] \in {"delete", "clear"} => op'[i].target # NoEntry /\ op'[i].target.id # backupId(i)
          /\ ~overtaken /\ ~taskTerminal(i) /\ at'[i] \in retaining => manifest[backupId(i)] # 0
        BY <1>1, <1>3, <2>1
    <2>4. QED
        BY <1>1, <2>2, <2>3, OperationFacts, RepositoryArrives
<1>5. QED
    BY <1>1, <1>2, <1>4, OperationKeeps DEF repository

LEMMA MarkStep ==
    ASSUME IInv, NEW i \in Ids, Mark(i)
    PROVE  BackupStep
<1>1. at[i] \in operating /\ "capture" \in operating
    BY DEF Mark, operating
<1> DEFINE c == [tasks[i].checkpoint EXCEPT !.captureId = backupId(i)]
<1>2. c \in Checkpoints
    BY <1>1, OperationFacts, CheckpointFields
<1>3. c.captureId = backupId(i) /\ c.auto = tasks[i].checkpoint.auto
    BY <1>1, OperationFacts DEF Checkpoints
<1>4. Sound(c)
    BY <1>1, <1>3, OperationFacts DEF Sound
<1>5. progress(i, c, "capture") /\ UNCHANGED work
    BY DEF Mark
<1> HIDE DEF c
<1>6. QED
    <2>1. op' \in [Ids -> Operations] /\ \A k \in Ids : op'[k] = op[k]
        BY DEF Mark, backupVars, IInv, TypeOK, TypeOfBackups
    <2>2. execution' \in 0..MaxTasks /\ UNCHANGED <<clock, file, repository, schedule, tick, overtaken>>
        BY DEF Mark, backupVars, IInv, TypeOK, TypeOfTasks
    <2>3. "capture" \notin retaining \cup {"verify", "manifest", "erase", "delete", "clear"}
        BY DEF retaining
    <2>4. QED
        BY <1>1, <1>2, <1>3, <1>4, <1>5, <2>1, <2>2, <2>3, ReportStep

LEMMA OpenStep ==
    ASSUME IInv, NEW i \in Ids, Open(i)
    PROVE  BackupStep
<1>1. at[i] \in operating /\ "upload" \in operating
    BY DEF Open, operating
<1> DEFINE c == [tasks[i].checkpoint EXCEPT !.captured = TRUE]
<1>2. c \in Checkpoints
    BY <1>1, OperationFacts, CheckpointFields
<1>3. c.captureId = tasks[i].checkpoint.captureId /\ c.auto = tasks[i].checkpoint.auto
    BY <1>1, OperationFacts DEF Checkpoints
<1>4. Sound(c)
    BY <1>1, <1>3, OperationFacts DEF Sound
<1>5. progress(i, c, "upload") /\ UNCHANGED work
    BY DEF Open
<1> HIDE DEF c
<1>6. op' \in [Ids -> Operations] /\ \A k \in Ids \ {i} : op'[k] = op[k]
    <2>1. file[backupId(i)] \in Nat /\ op \in [Ids -> Operations]
        BY <1>1, OperationFacts DEF TypeOfBackups
    <2>2. [op[i] EXCEPT !.version = file[backupId(i)]] \in Operations
        BY <2>1 DEF Operations
    <2>3. QED
        BY <2>1, <2>2 DEF Open
<1>7. execution' \in 0..MaxTasks /\ UNCHANGED <<clock, file, repository, schedule, tick, overtaken>>
    BY <1>1, OperationFacts DEF Open
<1>8. "upload" \notin retaining \cup {"verify", "manifest", "erase", "delete", "clear"}
    BY DEF retaining
<1>9. QED
    BY <1>1, <1>2, <1>3, <1>4, <1>5, <1>6, <1>7, <1>8, ReportStep

LEMMA PublishedStep ==
    ASSUME IInv, NEW i \in Ids, Published(i)
    PROVE  BackupStep
<1>1. at[i] \in operating /\ "verify" \in operating
    BY DEF Published, operating
<1> DEFINE p == IF tasks[i].checkpoint.auto THEN "verify" ELSE "final"
<1>2. progress(i, tasks[i].checkpoint, p) /\ UNCHANGED work
    BY DEF Published
<1>3. p \in operating \cup {"final"} /\ p \notin {"manifest", "erase", "delete", "clear"} /\ p \notin retaining
    BY <1>1 DEF retaining
<1>4. p = "verify" => tasks[i].checkpoint.auto
    OBVIOUS
<1> HIDE DEF p
<1>5. op' \in [Ids -> Operations] /\ \A k \in Ids : op'[k] = op[k]
    BY DEF Published, backupVars, IInv, TypeOK, TypeOfBackups
<1>6. execution' \in 0..MaxTasks /\ UNCHANGED <<clock, file, repository, schedule, tick, overtaken>>
    BY DEF Published, backupVars, IInv, TypeOK, TypeOfTasks
<1>7. QED
    BY <1>1, <1>2, <1>3, <1>4, <1>5, <1>6, OperationFacts, ReportStep

LEMMA ClearStep ==
    ASSUME IInv, NEW i \in Ids, Clear(i)
    PROVE  BackupStep
<1>1. at[i] \in operating /\ at[i] \in retaining /\ "retain" \in operating
    BY DEF Clear, operating, retaining
<1> DEFINE c == [tasks[i].checkpoint EXCEPT !.pending = NoEntry]
<1>2. c \in Checkpoints
    BY <1>1, OperationFacts, CheckpointFields, InitialTypes
<1>3. c.captureId = tasks[i].checkpoint.captureId /\ c.auto = tasks[i].checkpoint.auto
    BY <1>1, OperationFacts DEF Checkpoints
<1>4. Sound(c)
    BY <1>1, <1>3, OperationFacts DEF Sound
<1>5. progress(i, c, "retain") /\ UNCHANGED work
    BY DEF Clear
<1> HIDE DEF c
<1>6. op' \in [Ids -> Operations] /\ \A k \in Ids \ {i} : op'[k] = op[k]
    <2>1. op[i].target.id \in 0..MaxTasks
        <3>1. op[i].target \in OptionalEntries
            BY <1>1, OperationFacts DEF Operations
        <3>2. op[i].target # NoEntry
            BY DEF Clear, IInv, RepositoryInv, RetentionSpares
        <3>3. QED
            BY <3>1, <3>2, EntryFields, IdFacts
    <2>2. [op[i] EXCEPT !.seen = @ \cup {op[i].target.id}] \in Operations
        BY <1>1, <2>1, OperationFacts DEF Operations
    <2>3. op \in [Ids -> Operations]
        BY <1>1, OperationFacts DEF TypeOfBackups
    <2>4. QED
        BY <2>2, <2>3 DEF Clear
<1>7. execution' \in 0..MaxTasks /\ UNCHANGED <<clock, file, repository, schedule, tick, overtaken>>
    BY <1>1, OperationFacts DEF Clear
<1>8. tasks[i].checkpoint.auto
    BY <1>1, OperationFacts DEF RepositoryInv, RetentionSpares
<1>9. QED
    BY <1>1, <1>2, <1>3, <1>4, <1>5, <1>6, <1>7, <1>8, ReportStep
\* An operation goes on without a report, and takes nothing from the repository.
LEMMA QuietStep ==
    ASSUME IInv, NEW i \in Ids, at[i] \in operating, stays,
           \/ (\E p \in operating : Goto(i, p)) /\ UNCHANGED outcome
           \/ \E result \in {"ok", "err", "canceled"} : End(i, result),
           UNCHANGED others, troubles' \in Nat, execution' \in 0..MaxTasks,
           UNCHANGED <<manifest, schedule, tick, overtaken>>,
           clock' \in Nat, file' \in [Ids -> Nat], payload \subseteq payload', payload' \subseteq Entries,
           op' \in [Ids -> Operations], \A k \in Ids \ {i} : op'[k] = op[k],
           at'[i] \notin {"erase", "delete", "clear"},
           at'[i] = "manifest" =>
              /\ [id |-> backupId(i), version |-> op'[i].version] \in payload'
              /\ ~deleting(backupId(i)),
           at'[i] \in retaining \cup {"verify"} => tasks[i].checkpoint.auto,
           ~overtaken /\ ~taskTerminal(i) /\ at'[i] \in retaining => manifest[backupId(i)] # 0
    PROVE  BackupStep
<1>1. /\ TypeOfTasks' /\ TaskInv' /\ Advances
      /\ \A k \in Ids \ {i} : at'[k] = at[k]
    BY OperationFacts, OperationMoves DEF others
<1>2. TypeOfBackups'
    BY DEF IInv, TypeOK, TypeOfBackups
<1>3. RepositoryInv'
    BY <1>1, OperationFacts, RepositoryArrives
<1>4. QED
    BY <1>1, <1>2, <1>3, OperationKeeps

LEMMA CaptureStep ==
    ASSUME IInv, NEW i \in Ids, Capture(i)
    PROVE  BackupStep
<1>1. at[i] \in operating /\ "open" \in operating
    BY DEF Capture, operating
<1>2. \/ Goto(i, "open") /\ UNCHANGED outcome
      \/ End(i, "err")
    BY DEF Capture
<1>3. at'[i] \in {"open", "final"}
    BY <1>1, <1>2, OperationFacts DEF Goto, End, TypeOfTasks
<1>4. clock' \in Nat /\ file' \in [Ids -> Nat]
    BY <1>1, OperationFacts DEF Capture, TypeOfBackups
<1>5. /\ stays /\ UNCHANGED others /\ troubles' \in Nat /\ execution' \in 0..MaxTasks
      /\ UNCHANGED <<manifest, payload, op, schedule, tick, overtaken>>
    BY <1>1, OperationFacts DEF Capture, work, repository
<1>6. op \in [Ids -> Operations] /\ payload \subseteq Entries
    BY <1>1, OperationFacts DEF TypeOfBackups
<1>7. at'[i] \notin retaining \cup {"verify", "manifest", "erase", "delete", "clear"}
    BY <1>3 DEF retaining
<1>8. QED
    BY <1>1, <1>2, <1>4, <1>5, <1>6, <1>7, QuietStep

LEMMA UploadStep ==
    ASSUME IInv, NEW i \in Ids, Upload(i)
    PROVE  BackupStep
<1>1. at[i] \in operating /\ {"manifest", "published"} \subseteq operating
    BY DEF Upload, operating
<1>2. \/ (Goto(i, "manifest") \/ Goto(i, "published")) /\ UNCHANGED outcome
      \/ End(i, "err")
    BY DEF Upload
<1>3. at'[i] \in {"manifest", "published", "final"}
    BY <1>1, <1>2, OperationFacts DEF Goto, End, TypeOfTasks
<1>4. /\ stays /\ UNCHANGED others /\ troubles' \in Nat /\ execution' \in 0..MaxTasks
      /\ UNCHANGED <<clock, file, manifest, op, schedule, tick, overtaken>>
    BY <1>1, OperationFacts DEF Upload, work
<1>5. op \in [Ids -> Operations] /\ payload \subseteq Entries /\ clock \in Nat /\ file \in [Ids -> Nat]
    BY <1>1, OperationFacts DEF TypeOfBackups
<1>6. payload \subseteq payload' /\ payload' \subseteq Entries
    <2>1. [id |-> backupId(i), version |-> op[i].version] \in Entries
        BY <1>1, OperationFacts DEF Operations, Entries
    <2>2. QED
        BY <1>5, <2>1 DEF Upload
<1>7. at'[i] = "manifest" => /\ [id |-> backupId(i), version |-> op[i].version] \in payload'
                             /\ ~deleting(backupId(i))
    BY <1>1, OperationFacts DEF Upload, Goto, End, TypeOfTasks
<1>8. at'[i] \notin retaining \cup {"verify", "erase", "delete", "clear"}
    BY <1>3 DEF retaining
<1>9. QED
    BY <1>1, <1>2, <1>4, <1>5, <1>6, <1>7, <1>8, QuietStep

LEMMA VerifyStep ==
    ASSUME IInv, NEW i \in Ids, Verify(i)
    PROVE  BackupStep
<1>1. at[i] \in operating /\ "list" \in operating
    BY DEF Verify, operating
<1>2. \/ Goto(i, "list") /\ UNCHANGED outcome /\ manifest[backupId(i)] # 0
      \/ End(i, "err")
    BY DEF Verify
<1>3. at'[i] = "final" \/ (at'[i] = "list" /\ manifest[backupId(i)] # 0)
    BY <1>1, <1>2, OperationFacts DEF Goto, End, TypeOfTasks
<1>4. /\ stays /\ UNCHANGED others /\ troubles' \in Nat /\ execution' \in 0..MaxTasks
      /\ UNCHANGED <<clock, file, manifest, payload, op, schedule, tick, overtaken>>
    BY <1>1, OperationFacts DEF Verify, work, backupVars, repository
<1>5. op \in [Ids -> Operations] /\ payload \subseteq Entries /\ clock \in Nat /\ file \in [Ids -> Nat]
    BY <1>1, OperationFacts DEF TypeOfBackups
<1>6. tasks[i].checkpoint.auto
    BY <1>1, OperationFacts DEF Verify, RepositoryInv, RetentionSpares
<1>7. /\ at'[i] \notin {"erase", "delete", "clear", "manifest"}
      /\ at'[i] \in retaining => manifest[backupId(i)] # 0
    BY <1>3 DEF retaining
<1>8. QED
    BY <1>1, <1>2, <1>4, <1>5, <1>6, <1>7, QuietStep

LEMMA ListStep ==
    ASSUME IInv, NEW i \in Ids, List(i)
    PROVE  BackupStep
<1>1. at[i] \in operating /\ at[i] \in retaining /\ "retain" \in operating
    BY DEF List, operating, retaining
<1>2. \/ Goto(i, "retain") /\ UNCHANGED outcome
      \/ End(i, "err")
    BY DEF List
<1>3. at'[i] \in {"retain", "final"}
    BY <1>1, <1>2, OperationFacts DEF Goto, End, TypeOfTasks
<1>4. /\ stays /\ UNCHANGED others /\ troubles' \in Nat /\ execution' \in 0..MaxTasks
      /\ UNCHANGED <<clock, file, manifest, payload, schedule, tick, overtaken>>
    BY <1>1, OperationFacts DEF List, work, repository
<1>5. op \in [Ids -> Operations] /\ payload \subseteq Entries /\ clock \in Nat /\ file \in [Ids -> Nat]
    BY <1>1, OperationFacts DEF TypeOfBackups
<1>6. op' \in [Ids -> Operations] /\ \A k \in Ids \ {i} : op'[k] = op[k]
    <2>1. CASE UNCHANGED op
        BY <1>5, <2>1
    <2>2. CASE \E top \in newest(1) :
                 op' = [op EXCEPT ![i].newest = top, ![i].retained = newest(KeepCount)]
        <3>1. newest(1) \subseteq Ids /\ newest(KeepCount) \subseteq Ids
            BY DEF newest, listed
        <3>2. PICK top \in Ids : op' = [op EXCEPT ![i].newest = top, ![i].retained = newest(KeepCount)]
            BY <2>2, <3>1
        <3>3. top \in 0..MaxTasks /\ op[i] \in Operations
            BY <1>5, IdFacts
        <3>4. [op[i] EXCEPT !.newest = top, !.retained = newest(KeepCount)] \in Operations
            BY <3>1, <3>3 DEF Operations
        <3>5. QED
            BY <1>5, <3>2, <3>4
    <2>3. QED
        BY <2>1, <2>2 DEF List
<1>7. tasks[i].checkpoint.auto /\ (~overtaken /\ ~taskTerminal(i) => manifest[backupId(i)] # 0)
    BY <1>1, OperationFacts DEF RepositoryInv, RetentionSpares, VerifiedStays
<1>8. at'[i] \notin {"erase", "delete", "clear", "manifest"}
    BY <1>3
<1>9. QED
    BY <1>1, <1>2, <1>4, <1>5, <1>6, <1>7, <1>8, QuietStep

LEMMA FailStep ==
    ASSUME IInv, NEW i \in Ids, Fail(i)
    PROVE  BackupStep
<1>1. at[i] \in operating
    BY DEF Fail
<1>2. End(i, "err") /\ at'[i] = "final"
    BY <1>1, OperationFacts DEF Fail, End, Goto, TypeOfTasks
<1>3. /\ stays /\ UNCHANGED others /\ troubles' \in Nat /\ execution' \in 0..MaxTasks
      /\ UNCHANGED <<clock, file, manifest, payload, op, schedule, tick, overtaken>>
    BY <1>1, OperationFacts DEF Fail, Trouble, backupVars, repository
<1>4. op \in [Ids -> Operations] /\ payload \subseteq Entries /\ clock \in Nat /\ file \in [Ids -> Nat]
    BY <1>1, OperationFacts DEF TypeOfBackups
<1>5. at'[i] \notin retaining \cup {"verify", "manifest", "erase", "delete", "clear"}
    BY <1>2 DEF retaining
<1>6. QED
    BY <1>1, <1>2, <1>3, <1>4, <1>5, QuietStep
LEMMA RetainStep ==
    ASSUME IInv, NEW i \in Ids, Retain(i)
    PROVE  BackupStep
<1>1. at[i] \in operating /\ at[i] \in retaining /\ "delete" \in operating
    BY DEF Retain, operating, retaining
<1>2. /\ UNCHANGED work /\ execution' \in 0..MaxTasks
      /\ UNCHANGED <<clock, file, repository, schedule, tick, overtaken>>
    BY <1>1, OperationFacts DEF Retain
<1>3. op \in [Ids -> Operations] /\ payload \subseteq Entries /\ clock \in Nat /\ file \in [Ids -> Nat]
    BY <1>1, OperationFacts DEF TypeOfBackups
<1>4. tasks[i].checkpoint.auto /\ (~overtaken /\ ~taskTerminal(i) => manifest[backupId(i)] # 0)
    BY <1>1, OperationFacts DEF RepositoryInv, RetentionSpares, VerifiedStays
<1>5. ASSUME NEW entry \in Entries, removable(i, entry.id),
             op' = [op EXCEPT ![i].target = entry],
             progress(i, [tasks[i].checkpoint EXCEPT !.pending = entry], "delete")
      PROVE  BackupStep
    <2> DEFINE c == [tasks[i].checkpoint EXCEPT !.pending = entry]
    <2>1. entry \in OptionalEntries /\ entry # NoEntry
        BY InitialTypes DEF OptionalEntries
    <2>2. c \in Checkpoints
        BY <1>1, <2>1, OperationFacts, CheckpointFields
    <2>3. c.captureId = tasks[i].checkpoint.captureId /\ c.auto = tasks[i].checkpoint.auto
        BY <1>1, OperationFacts DEF Checkpoints
    <2>4. Sound(c)
        BY <1>1, <2>3, OperationFacts DEF Sound
    <2>5. progress(i, c, "delete")
        BY <1>5
    <2> HIDE DEF c
    <2>6. [op[i] EXCEPT !.target = entry] \in Operations /\ entry.id # backupId(i)
        BY <1>1, <1>5, <2>1, OperationFacts DEF Operations, removable
    <2>7. /\ op' \in [Ids -> Operations] /\ (\A k \in Ids \ {i} : op'[k] = op[k])
          /\ op'[i].target = entry
        BY <1>3, <1>5, <2>6 DEF Operations
    <2>8. QED
        BY <1>1, <1>2, <1>4, <2>1, <2>2, <2>3, <2>4, <2>5, <2>6, <2>7, ReportStep
<1>6. CASE End(i, "ok") /\ stays /\ UNCHANGED op
    <2>1. at'[i] = "final"
        BY <1>1, <1>6, OperationFacts DEF End, Goto, TypeOfTasks
    <2>2. at'[i] \notin retaining \cup {"verify", "manifest", "erase", "delete", "clear"}
        BY <2>1 DEF retaining
    <2>3. troubles' \in Nat /\ UNCHANGED <<others, manifest, payload>>
        BY <1>1, <1>2, OperationFacts DEF work, repository
    <2>4. QED
        BY <1>1, <1>2, <1>3, <1>6, <2>2, <2>3, QuietStep
<1>7. ASSUME tasks[i].checkpoint.pending # NoEntry PROVE tasks[i].checkpoint.pending \in Entries
    BY <1>1, <1>7, OperationFacts, CheckpointFields, EntryFields
<1>8. ASSUME NEW b \in listed PROVE [id |-> b, version |-> manifest[b]] \in Entries
    BY <1>1, OperationFacts DEF listed, Entries
<1>9. QED
    BY <1>5, <1>6, <1>7, <1>8 DEF Retain

LEMMA PutManifestStep ==
    ASSUME IInv, NEW i \in Ids, PutManifest(i)
    PROVE  BackupStep
<1>1. at[i] \in operating /\ "published" \in operating /\ at[i] = "manifest"
    BY DEF PutManifest, operating
<1>2. /\ stays /\ UNCHANGED others /\ troubles' \in Nat /\ execution' \in 0..MaxTasks
      /\ UNCHANGED <<clock, file, payload, op, schedule, tick, overtaken>>
    BY <1>1, OperationFacts DEF PutManifest, work
<1>3. op \in [Ids -> Operations] /\ payload \subseteq Entries /\ clock \in Nat /\ file \in [Ids -> Nat]
    BY <1>1, OperationFacts DEF TypeOfBackups
<1>4. CASE End(i, "err") /\ UNCHANGED manifest
    <2>1. at'[i] = "final"
        BY <1>1, <1>4, OperationFacts DEF End, Goto, TypeOfTasks
    <2>2. at'[i] \notin retaining \cup {"verify", "manifest", "erase", "delete", "clear"}
        BY <2>1 DEF retaining
    <2>3. QED
        BY <1>1, <1>2, <1>3, <1>4, <2>2, QuietStep
<1>5. ASSUME manifest[backupId(i)] \in {0, op[i].version},
             manifest' = [manifest EXCEPT ![backupId(i)] = op[i].version],
             Goto(i, "published"), UNCHANGED outcome
      PROVE  BackupStep
    <2>1. /\ TypeOfTasks' /\ TaskInv' /\ Advances
          /\ \A k \in Ids \ {i} : at'[k] = at[k]
        BY <1>1, <1>2, <1>5, OperationFacts, OperationMoves DEF others
    <2>2. at'[i] = "published" /\ tasks' = tasks
        BY <1>1, <1>2, <1>5, OperationFacts DEF Goto, stays, TypeOfTasks
    <2>3. op[i].version \in Nat
        BY <1>1, OperationFacts DEF Operations
    <2>4. TypeOfBackups'
        BY <1>2, <1>5, <2>3 DEF IInv, TypeOK, TypeOfBackups
    <2>5. ScheduleInv'
        BY <1>1, <1>2, <2>1, OperationFacts, ScheduleStays
    <2>6. \A b \in Ids : /\ manifest[b] # 0 => manifest'[b] = manifest[b]
                         /\ b # backupId(i) => manifest'[b] = manifest[b]
                         /\ b = backupId(i) => manifest'[b] = op[i].version
        BY <1>1, <1>5, OperationFacts
    <2>7. \A k \in Ids : backupId(k)' = backupId(k) /\ (taskTerminal(k)' <=> taskTerminal(k))
        BY <2>2 DEF backupId, taskTerminal
    <2>8. ListedComplete'
        BY <1>1, <1>2, <2>2, <2>6, OperationFacts DEF RepositoryInv, ListedComplete, UploadedFirst
    <2>9. UploadedFirst'
        BY <1>2, <2>1, <2>2, <2>7 DEF IInv, RepositoryInv, UploadedFirst
    <2>10. ErasedAlone'
        <3> SUFFICES ASSUME NEW j \in Ids, at'[j] = "erase"
                     PROVE  manifest'[op[j].target.id] = 0 /\ \A k \in Ids : at'[k] = "manifest" => backupId(k) # op[j].target.id
            BY <1>2, <2>7 DEF ErasedAlone, pinned
        <3>1. at[j] = "erase" /\ manifest[op[j].target.id] = 0 /\ ~pinned(op[j].target.id)
            BY <2>1, <2>2 DEF IInv, RepositoryInv, ErasedAlone
        <3>2. op[j].target \in OptionalEntries /\ op[j].target # NoEntry
            BY <3>1, <1>3 DEF IInv, RepositoryInv, RetentionSpares, Operations
        <3>3. op[j].target.id \in Ids /\ op[j].target.id # backupId(i)
            BY <1>1, <3>1, <3>2, EntryFields DEF pinned
        <3>4. QED
            BY <2>1, <2>2, <2>6, <3>1, <3>3 DEF pinned
    <2>11. RetentionSpares'
        BY <1>2, <2>1, <2>2, <2>7 DEF IInv, RepositoryInv, RetentionSpares, retaining
    <2>12. VerifiedStays'
        <3>1. \A k \in Ids : backupId(k) \in Ids
            BY <1>1, OperationFacts, TaskFields
        <3>2. QED
            BY <1>2, <2>1, <2>2, <2>6, <2>7, <3>1 DEF IInv, RepositoryInv, VerifiedStays, retaining
    <2>13. ListKept
        BY <1>1, <2>1, <2>6, OperationFacts, NothingUnlisted
    <2>14. QED
        BY <2>1, <2>4, <2>5, <2>8, <2>9, <2>10, <2>11, <2>12, <2>13 DEF BackupStep, IInv, TypeOK, RepositoryInv
<1>6. QED
    BY <1>4, <1>5 DEF PutManifest
\* A deletion spares the backup of its own task.  Another unfinished task at
\* work would be admitted beside it, so only a cancelled task can delete what
\* an unfinished one has verified; that is what overtaken records.
LEMMA DeleteStep ==
    ASSUME IInv, NEW i \in Ids, Delete(i)
    PROVE  BackupStep
<1> DEFINE t == op[i].target.id
<1>1. at[i] \in operating /\ at[i] = "delete" /\ at[i] \in retaining /\ {"retain", "erase"} \subseteq operating
    BY DEF Delete, operating, retaining
<1>2. /\ stays /\ UNCHANGED others /\ troubles' \in Nat /\ execution' \in 0..MaxTasks
      /\ UNCHANGED <<clock, file, payload, schedule, tick>>
    BY <1>1, OperationFacts DEF Delete, work
<1>3. op \in [Ids -> Operations] /\ payload \subseteq Entries /\ clock \in Nat /\ file \in [Ids -> Nat]
    BY <1>1, OperationFacts DEF TypeOfBackups
<1>4. tasks[i].checkpoint.auto /\ (~overtaken /\ ~taskTerminal(i) => manifest[backupId(i)] # 0)
    BY <1>1, OperationFacts DEF RepositoryInv, RetentionSpares, VerifiedStays
<1>5. t \in Ids /\ t # backupId(i)
    <2>1. op[i].target \in OptionalEntries /\ op[i].target # NoEntry /\ t # backupId(i)
        BY <1>1, <1>3, OperationFacts DEF RepositoryInv, RetentionSpares, Operations
    <2>2. QED
        BY <2>1, EntryFields
<1>6. ASSUME op' = [op EXCEPT ![i].seen = @ \cup {t}], Goto(i, "retain"),
             UNCHANGED <<outcome, manifest, overtaken>>
      PROVE  BackupStep
    <2>1. [op[i] EXCEPT !.seen = @ \cup {t}] \in Operations
        BY <1>1, <1>5, IdFacts, OperationFacts DEF Operations
    <2>2. op' \in [Ids -> Operations] /\ \A k \in Ids \ {i} : op'[k] = op[k]
        BY <1>3, <1>6, <2>1
    <2>3. at'[i] = "retain"
        BY <1>1, <1>6, OperationFacts DEF Goto, TypeOfTasks
    <2>4. QED
        BY <1>1, <1>2, <1>3, <1>4, <1>6, <2>2, <2>3, QuietStep
<1>7. CASE End(i, "err") /\ UNCHANGED <<op, manifest, overtaken>>
    <2>1. at'[i] = "final"
        BY <1>1, <1>7, OperationFacts DEF End, Goto, TypeOfTasks
    <2>2. at'[i] \notin retaining \cup {"verify", "manifest", "erase", "delete", "clear"}
        BY <2>1 DEF retaining
    <2>3. QED
        BY <1>1, <1>2, <1>3, <1>7, <2>2, QuietStep
<1>8. ASSUME ~pinned(t), UNCHANGED <<op, outcome>>, manifest' = [manifest EXCEPT ![t] = 0],
             overtaken' = (overtaken \/ (taskTerminal(i) /\ manifest[t] # 0)), Goto(i, "erase")
      PROVE  BackupStep
    <2>1. /\ TypeOfTasks' /\ TaskInv' /\ Advances
          /\ \A k \in Ids \ {i} : at'[k] = at[k]
        BY <1>1, <1>2, <1>8, OperationFacts, OperationMoves DEF others
    <2>2. at'[i] = "erase" /\ tasks' = tasks
        BY <1>1, <1>2, <1>8, OperationFacts DEF Goto, stays, TypeOfTasks
    <2>3. TypeOfBackups'
        BY <1>2, <1>5, <1>8 DEF IInv, TypeOK, TypeOfBackups
    <2>4. ScheduleInv'
        BY <1>1, <1>2, <2>1, OperationFacts, ScheduleStays
    <2>5. manifest'[t] = 0 /\ \A b \in Ids \ {t} : manifest'[b] = manifest[b]
        BY <1>1, <1>5, <1>8, OperationFacts
    <2>6. \A k \in Ids : backupId(k)' = backupId(k) /\ (taskTerminal(k)' <=> taskTerminal(k))
        BY <2>2 DEF backupId, taskTerminal
    <2>7. ListedComplete'
        BY <1>2, <2>2, <2>5 DEF IInv, RepositoryInv, ListedComplete
    <2>8. UploadedFirst'
        BY <1>2, <1>8, <2>1, <2>2, <2>6 DEF IInv, RepositoryInv, UploadedFirst
    <2>9. ErasedAlone'
        <3> SUFFICES ASSUME NEW j \in Ids, at'[j] = "erase"
                     PROVE  manifest'[op[j].target.id] = 0 /\ \A k \in Ids : at'[k] = "manifest" => backupId(k) # op[j].target.id
            BY <1>8, <2>6 DEF ErasedAlone, pinned
        <3>1. ~pinned(op[j].target.id) /\ (j # i => at[j] = "erase" /\ manifest[op[j].target.id] = 0)
            BY <1>8, <2>1 DEF IInv, RepositoryInv, ErasedAlone
        <3>2. op[j].target.id \in Ids
            <4>1. CASE j = i
                BY <1>5, <4>1
            <4>2. CASE j # i
                <5>1. op[j].target \in OptionalEntries /\ op[j].target # NoEntry
                    BY <1>3, <3>1, <4>2 DEF IInv, RepositoryInv, RetentionSpares, Operations
                <5>2. QED
                    BY <5>1, EntryFields
            <4>3. QED
                BY <4>1, <4>2
        <3>3. QED
            BY <2>1, <2>2, <2>5, <3>1, <3>2 DEF pinned
    <2>10. RetentionSpares'
        BY <1>1, <1>8, <2>1, <2>2, <2>6 DEF IInv, RepositoryInv, RetentionSpares, retaining
    <2>11. VerifiedStays'
        <3> SUFFICES ASSUME ~overtaken', NEW k \in Ids, ~taskTerminal(k), at'[k] \in retaining
                     PROVE  manifest'[backupId(k)] # 0
            BY <2>6 DEF VerifiedStays
        <3>1. ~overtaken /\ at[k] \in retaining /\ backupId(k) \in Ids /\ at[k] # "none"
            BY <1>1, <1>8, <2>1, <2>2, OperationFacts, TaskFields DEF retaining
        <3>2. manifest[backupId(k)] # 0
            BY <3>1 DEF IInv, RepositoryInv, VerifiedStays
        <3>3. backupId(k) # t
            <4> SUFFICES ASSUME backupId(k) = t PROVE FALSE
                OBVIOUS
            <4>1. ~taskTerminal(i)
                BY <1>8, <3>2
            <4>2. active.id = i /\ active.id = k
                BY <1>1, <3>1, <4>1 DEF IInv, TaskInv, OneOwner
            <4>3. QED
                BY <1>5, <4>2
        <3>4. QED
            BY <2>5, <3>1, <3>2, <3>3
    <2>12. ListKept
        <3>1. CASE manifest[t] = 0
            BY <1>1, <2>1, <2>5, <3>1, OperationFacts, NothingUnlisted
        <3>2. CASE manifest[t] # 0
            <4> SUFFICES ASSUME ~overtaken' PROVE listed' # {}
                BY DEF ListKept
            <4>1. manifest[backupId(i)] # 0 /\ backupId(i) \in Ids
                BY <1>1, <1>4, <1>8, <3>2, OperationFacts
            <4>2. automatic(backupId(i))
                BY <1>1, <1>4, OperationFacts
            <4>3. manifest'[backupId(i)] # 0
                BY <1>5, <2>5, <4>1
            <4>4. backupId(i) \in listed'
                BY <2>2, <4>1, <4>2, <4>3 DEF listed, automatic
            <4>5. QED
                BY <4>4
        <3>3. QED
            BY <3>1, <3>2
    <2>13. QED
        BY <2>1, <2>3, <2>4, <2>7, <2>8, <2>9, <2>10, <2>11, <2>12 DEF BackupStep, IInv, TypeOK, RepositoryInv
<1>9. QED
    BY <1>6, <1>7, <1>8 DEF Delete

\* Nobody lists or publishes what is erased.
LEMMA EraseStep ==
    ASSUME IInv, NEW i \in Ids, Erase(i)
    PROVE  BackupStep
<1>1. at[i] \in operating /\ at[i] = "erase" /\ at[i] \in retaining /\ "clear" \in operating
    BY DEF Erase, operating, retaining
<1>2. /\ stays /\ UNCHANGED others /\ troubles' \in Nat /\ execution' \in 0..MaxTasks
      /\ UNCHANGED <<outcome, clock, file, manifest, op, schedule, tick, overtaken>>
      /\ payload' = payload \ {op[i].target} /\ Goto(i, "clear")
    BY <1>1, OperationFacts DEF Erase, work
<1>3. /\ TypeOfTasks' /\ TaskInv' /\ Advances
      /\ \A k \in Ids \ {i} : at'[k] = at[k]
    BY <1>1, <1>2, OperationFacts, OperationMoves DEF others
<1>4. at'[i] = "clear" /\ tasks' = tasks
    BY <1>1, <1>2, OperationFacts DEF Goto, stays, TypeOfTasks
<1>5. TypeOfBackups'
    BY <1>2 DEF IInv, TypeOK, TypeOfBackups
<1>6. \A k \in Ids : backupId(k)' = backupId(k) /\ (taskTerminal(k)' <=> taskTerminal(k))
    BY <1>4 DEF backupId, taskTerminal
<1>7. manifest[op[i].target.id] = 0 /\ ~pinned(op[i].target.id)
    BY <1>1 DEF IInv, RepositoryInv, ErasedAlone
<1>8. ListedComplete'
    <2>1. ASSUME NEW b \in Ids, manifest[b] # 0 PROVE [id |-> b, version |-> manifest[b]] # op[i].target
        BY <1>7, <2>1
    <2>2. QED
        BY <1>2, <1>4, <2>1 DEF IInv, RepositoryInv, ListedComplete
<1>9. UploadedFirst'
    <2>1. ASSUME NEW k \in Ids, at[k] = "manifest"
          PROVE  [id |-> backupId(k), version |-> op[k].version] # op[i].target
        BY <1>7, <2>1 DEF pinned
    <2>2. QED
        BY <1>2, <1>3, <1>4, <1>6, <2>1 DEF IInv, RepositoryInv, UploadedFirst
<1>10. ErasedAlone'
    BY <1>2, <1>3, <1>4, <1>6 DEF IInv, RepositoryInv, ErasedAlone, pinned
<1>11. RetentionSpares'
    BY <1>1, <1>2, <1>3, <1>4, <1>6 DEF IInv, RepositoryInv, RetentionSpares, retaining
<1>12. VerifiedStays'
    BY <1>1, <1>2, <1>3, <1>4, <1>6 DEF IInv, RepositoryInv, VerifiedStays, retaining
<1>13. RepositoryInv'
    BY <1>8, <1>9, <1>10, <1>11, <1>12 DEF RepositoryInv
<1>14. QED
    BY <1>2, <1>3, <1>5, <1>13, OperationKeeps
-----------------------------------------------------------------------------
(* Clients, the scheduler and the rest of the next-state relation.         *)

LEMMA InvFacts ==
    ASSUME IInv
    PROVE  /\ TypeOfTasks /\ TypeOfBackups /\ TaskInv /\ ScheduleInv /\ RepositoryInv
           /\ op \in [Ids -> Operations] /\ file \in [Ids -> Nat] /\ schedule \in Schedules
           /\ schedule.task \in 0..MaxTasks /\ schedule.observed \in 0..MaxTasks
           /\ schedule.failures \in Nat /\ schedule.plan \in Plans
           /\ schedule.plan.checkpoint \in Checkpoints /\ troubles \in Nat
<1>1. TypeOfTasks /\ TypeOfBackups /\ TaskInv /\ ScheduleInv /\ RepositoryInv
    BY DEF IInv, TypeOK
<1>2. schedule \in Schedules /\ op \in [Ids -> Operations] /\ file \in [Ids -> Nat] /\ troubles \in Nat
    BY <1>1 DEF TypeOfBackups, TypeOfTasks
<1>3. schedule.plan \in Plans
    BY <1>2 DEF Schedules
<1>4. QED
    BY <1>1, <1>2, <1>3 DEF Schedules, Plans

LEMMA BackupsAlone ==
    ASSUME IInv, TaskStep, UNCHANGED backupVars
    PROVE  BackupStep
BY InvFacts, RuntimeStep DEF backupVars, repository

LEMMA StartTaskStep ==
    ASSUME IInv, NEW i \in Ids, StartTask(i)
    PROVE  BackupStep
<1>1. NewCheckpoint(FALSE) \in Checkpoints /\ Sound(NewCheckpoint(FALSE))
    BY InitialTypes DEF Sound, NewCheckpoint
<1>2. troubles' \in Nat
    BY InvFacts DEF StartTask, Trouble
<1>3. TaskStep
    BY <1>1, <1>2, InvFacts, AdmitStep DEF StartTask
<1>4. QED
    BY <1>3, BackupsAlone DEF StartTask

LEMMA RetryTaskStep ==
    ASSUME IInv, NEW i \in Ids, NEW old \in Ids, RetryTask(i, old)
    PROVE  BackupStep
<1>1. tasks[old].checkpoint \in Checkpoints /\ Sound(tasks[old].checkpoint)
    BY InvFacts, TaskFields DEF TaskInv, RecordsSound
<1>2. TaskStep
    BY <1>1, InvFacts, AdmitStep DEF RetryTask
<1>3. QED
    BY <1>2, BackupsAlone DEF RetryTask

LEMMA LaunchStep ==
    ASSUME IInv, Launch
    PROVE  BackupStep
<1>1. schedule.task \in Ids
    BY InvFacts, IdFacts DEF Launch, ScheduleInv
<1>2. Sound(schedule.plan.checkpoint)
    BY InvFacts DEF ScheduleInv
<1>3. TaskStep
    <2>1. CASE Admit(schedule.task, schedule.plan.checkpoint) /\ UNCHANGED troubles
        BY <1>1, <1>2, <2>1, InvFacts, AdmitStep
    <2>2. CASE UNCHANGED taskVars
        BY <2>2, InvFacts, RuntimeStays DEF taskVars, runtime, TypeOfTasks
    <2>3. QED
        BY <2>1, <2>2 DEF Launch
<1>4. QED
    BY <1>3, InvFacts, RuntimeStep DEF Launch, repository

LEMMA ReconcileScheduledStep ==
    ASSUME IInv, ReconcileScheduled
    PROVE  BackupStep
<1>1. previous \in Ids
    BY InvFacts, IdFacts DEF ReconcileScheduled, previousExists, previous
<1>2. TaskStep
    BY <1>1, InvFacts, OrphanStep DEF ReconcileScheduled, work, others
<1>3. QED
    BY <1>2, BackupsAlone DEF ReconcileScheduled

LEMMA ObserveStep ==
    ASSUME IInv, Observe
    PROVE  BackupStep
<1>1. previous # 0 /\ previous = schedule.task /\ previous \in 0..MaxTasks
    BY InvFacts DEF Observe, previousExists, previous
<1>2. NoPlan \in Plans /\ NoPlan.checkpoint.captureId = 0
    BY InitialTypes DEF NoPlan, Plans, NewCheckpoint
<1>3. /\ schedule' \in Schedules /\ schedule'.task = schedule.task
      /\ schedule'.plan \in {schedule.plan, NoPlan}
    <2>1. CASE schedule.observed = previous
        BY <2>1, InvFacts DEF Observe
    <2>2. CASE schedule.observed # previous
        <3> DEFINE n == IF tasks[previous].status = "succeeded" THEN 0 ELSE schedule.failures + 1
        <3>1. schedule' = [schedule EXCEPT !.plan = NoPlan, !.observed = previous, !.failures = n]
            BY <2>2 DEF Observe
        <3>2. n \in Nat
            BY InvFacts
        <3> HIDE DEF n
        <3>3. QED
            BY <1>1, <1>2, <3>1, <3>2, InvFacts DEF Schedules
    <2>3. QED
        BY <2>1, <2>2
<1>4. tasks' = tasks /\ tick' \in {"clean", "plan"}
    BY DEF Observe, taskVars
<1>5. Sound(schedule.plan.checkpoint)'
    <2>1. CASE schedule'.plan = schedule.plan
        BY <1>4, <2>1, InvFacts DEF ScheduleInv, Sound, automatic
    <2>2. CASE schedule'.plan = NoPlan
        BY <1>2, <2>2 DEF Sound
    <2>3. QED
        BY <1>3, <2>1, <2>2
<1>6. ScheduleInv'
    BY <1>1, <1>3, <1>5 DEF ScheduleInv
<1>7. QED
    BY <1>3, <1>4, <1>6, InvFacts, SchedulerStep DEF Observe, taskVars, repository

\* A tick that only looks.
LEMMA LookStep ==
    ASSUME IInv, FirstRun \/ Resume \/ NotDue
    PROVE  BackupStep
<1>1. /\ UNCHANGED <<tasks, runtime, troubles, clock, file, manifest, payload, op, schedule, overtaken>>
      /\ tick' \in {"idle", "plan", "launch"} /\ (tick' = "launch" => schedule.task # 0)
    BY DEF FirstRun, Resume, NotDue, taskVars, repository, previous
<1>2. ScheduleInv'
    BY <1>1, InvFacts DEF ScheduleInv, Sound, automatic
<1>3. QED
    BY <1>1, <1>2, InvFacts, SchedulerStep

LEMMA CaptureRemoved ==
    ASSUME IInv, previous \in Ids, removeCapture
    PROVE  file' \in [Ids -> Nat]
BY InvFacts DEF removeCapture

LEMMA CleanCaptureStep ==
    ASSUME IInv, CleanCapture
    PROVE  BackupStep
<1>1. previous \in Ids
    BY InvFacts, IdFacts DEF CleanCapture, ScheduleInv, previous
<1>2. file' \in [Ids -> Nat]
    BY <1>1, CaptureRemoved DEF CleanCapture
<1>3. ScheduleInv'
    BY InvFacts DEF CleanCapture, taskVars, ScheduleInv, Sound, automatic
<1>4. QED
    BY <1>2, <1>3, InvFacts, SchedulerStep DEF CleanCapture, taskVars, repository

LEMMA ResetCaptureStep ==
    ASSUME IInv, ResetCapture
    PROVE  BackupStep
<1>1. file' \in [Ids -> Nat]
    <2>1. CASE previousExists /\ taskTerminal(previous) /\ removeCapture
        <3>1. previous \in Ids
            BY <2>1, InvFacts, IdFacts DEF previousExists, previous
        <3>2. QED
            BY <2>1, <3>1, CaptureRemoved
    <2>2. CASE UNCHANGED file
        BY <2>2, InvFacts
    <2>3. QED
        BY <2>1, <2>2 DEF ResetCapture
<1>2. ScheduleInv'
    BY InvFacts DEF ResetCapture, ScheduleInv, Sound, automatic
<1>3. troubles' \in Nat
    BY InvFacts DEF ResetCapture, Trouble
<1>4. QED
    BY <1>1, <1>2, <1>3, InvFacts, SchedulerStep DEF ResetCapture, repository

LEMMA ResetScheduleStep ==
    ASSUME IInv, ResetSchedule
    PROVE  BackupStep
<1>1. ScheduleInv'
    BY DEF ResetSchedule, NoSchedule, NoPlan, NewCheckpoint, ScheduleInv, Sound
<1>2. QED
    BY <1>1, InvFacts, InitialTypes, SchedulerStep DEF ResetSchedule, taskVars, repository

LEMMA PlanStep ==
    ASSUME IInv, NEW i \in Ids, Plan(i)
    PROVE  BackupStep
<1>1. PICK c : /\ schedule' = [schedule EXCEPT !.task = i, !.plan = [made |-> TRUE, checkpoint |-> c]]
               /\ \/ c = NewCheckpoint(TRUE)
                  \/ schedule.failures > 0 /\ c = tasks[previous].checkpoint
    BY DEF Plan
<1>2. c \in Checkpoints /\ Sound(c)
    <2>1. CASE c = NewCheckpoint(TRUE)
        BY <2>1, InitialTypes DEF Sound, NewCheckpoint
    <2>2. CASE schedule.failures > 0 /\ c = tasks[previous].checkpoint
        <3>1. previous \in Ids
            BY <2>2, InvFacts, IdFacts DEF ScheduleInv, previous
        <3>2. QED
            BY <2>2, <3>1, InvFacts, TaskFields DEF TaskInv, RecordsSound
    <2>3. QED
        BY <1>1, <2>1, <2>2
<1>3. schedule' \in Schedules /\ schedule'.task = i /\ schedule'.plan.checkpoint = c
    <2>1. [made |-> TRUE, checkpoint |-> c] \in Plans
        BY <1>2 DEF Plans
    <2>2. QED
        BY <1>1, <2>1, IdFacts, InvFacts DEF Schedules
<1>4. tasks' = tasks /\ tick' = "launch" /\ i # 0
    BY IdFacts DEF Plan, taskVars
<1>5. ScheduleInv'
    BY <1>2, <1>3, <1>4 DEF ScheduleInv, Sound, automatic
<1>6. QED
    BY <1>3, <1>4, <1>5, InvFacts, SchedulerStep DEF Plan, taskVars, repository

LEMMA TickStep == ASSUME IInv, Tick PROVE BackupStep
BY ReconcileScheduledStep, ObserveStep, LookStep, CleanCaptureStep, LaunchStep, ResetScheduleStep DEF Tick

LEMMA LaunchingStep == ASSUME IInv, NEW i \in Ids, Launching(i) PROVE BackupStep
BY InvFacts, SaveTaskStep, SaveTaskFailsStep, RegisterTaskCancelStep, BackupsAlone DEF Launching

LEMMA OperateStep == ASSUME IInv, NEW i \in Ids, Operate(i) PROVE BackupStep
BY MarkStep, CaptureStep, OpenStep, UploadStep, PutManifestStep, PublishedStep, VerifyStep,
   ListStep, RetainStep, DeleteStep, EraseStep, ClearStep DEF Operate

LEMMA BackupLeaveStep == ASSUME IInv, NEW i \in Ids, BackupLeave(i) PROVE BackupStep
<1>1. TaskStep
    BY InvFacts, LeaveStep DEF BackupLeave
<1>2. at'[i] = "none"
    BY InvFacts DEF BackupLeave, Leave, Goto, TypeOfTasks
<1>3. op' \in [Ids -> Operations] /\ \A k \in Ids : at'[k] # "none" => op'[k] = op[k]
    BY <1>2, InvFacts, InitialTypes DEF BackupLeave
<1>4. QED
    BY <1>1, <1>3, RuntimeStep DEF BackupLeave, repository

LEMMA WorkingStep == ASSUME IInv, NEW i \in Ids, Working(i) PROVE BackupStep
BY InvFacts, AcquireStep, DequeueStep, BeginStep, FinishStep, BackupsAlone,
   OperateStep, FailStep, BackupLeaveStep DEF Working

LEMMA PollingStep == ASSUME IInv, Polling PROVE BackupStep
BY InvFacts, ReconcileInactiveTaskStep, GetTaskStep, BackupsAlone DEF Polling

LEMMA StopStep == ASSUME IInv, Stop, UNCHANGED backupVars PROVE BackupStep
<1>1. signalled' \subseteq Ids /\ closing' \in BOOLEAN /\ troubles' \in Nat
    BY InvFacts DEF Stop, Trouble, TypeOfTasks
<1>2. TaskStep
    BY <1>1, InvFacts, RuntimeStays DEF Stop
<1>3. QED
    BY <1>2, BackupsAlone

LEMMA BackupExitStep == ASSUME IInv, BackupExit PROVE BackupStep
BY InvFacts, ForgetStep, BackupsAlone DEF BackupExit, Exit

LEMMA BackupCrashStep == ASSUME IInv, BackupCrash PROVE BackupStep
<1>1. TaskStep
    BY InvFacts, ForgetStep DEF BackupCrash, Crash, Trouble
<1>2. op' \in [Ids -> Operations] /\ \A k \in Ids : at'[k] = "none"
    BY InitialTypes DEF BackupCrash, Crash, forget
<1>3. QED
    BY <1>1, <1>2, RuntimeStep DEF BackupCrash, repository

LEMMA StutterStep == ASSUME IInv, UNCHANGED vars PROVE BackupStep
<1>1. TaskStep
    BY InvFacts, RuntimeStays DEF vars, taskVars, runtime, TypeOfTasks
<1>2. QED
    BY <1>1, BackupsAlone DEF vars

LEMMA NextStep == ASSUME IInv, [Next]_vars PROVE BackupStep
<1>1. ASSUME NEW i \in Ids, CancelTask(i), UNCHANGED backupVars PROVE BackupStep
    BY <1>1, InvFacts, CancelTaskStep, BackupsAlone
<1>2. CASE Next
    BY <1>1, <1>2, StartTaskStep, RetryTaskStep, LaunchingStep, WorkingStep, PlanStep, PollingStep,
       TickStep, ResetCaptureStep, StopStep, BackupExitStep, BackupCrashStep DEF Next
<1>3. QED
    BY <1>2, StutterStep

LEMMA InitInv == Init => IInv
<1> SUFFICES ASSUME Init PROVE IInv
    OBVIOUS
<1>1. /\ \A i \in Ids : tasks[i] = NoTask /\ at[i] = "none" /\ manifest[i] = 0
      /\ active = NoActive /\ starting = NoStart /\ view = 0 /\ schedule = NoSchedule /\ tick = "idle"
    BY DEF Init, InitTasks
<1>2. TypeOfTasks
    <2>1. tasks \in [Ids -> Records] /\ at \in [Ids -> Places] /\ outcome \in [Ids -> {"ok", "err", "canceled"}]
        BY InitialTypes, PlaceFacts DEF Init, InitTasks
    <2>2. 0 \in 0..MaxTasks
        BY TasksAssumption
    <2>3. QED
        BY <2>1, <2>2, InitialTypes DEF Init, InitTasks, TypeOfTasks
<1>3. TypeOfBackups
    BY InitialTypes DEF Init, TypeOfBackups
<1>4. Released /\ OneOwner /\ Recorded /\ ViewCurrent /\ OrphansEnded
    BY <1>1 DEF Released, OneOwner, Recorded, ViewCurrent, OrphansEnded, NoActive, NoStart, NoTask
<1>5. RecordsSound
    BY <1>1 DEF RecordsSound, Sound, NoTask, NoStart, NewCheckpoint
<1>6. ScheduleInv
    BY <1>1 DEF ScheduleInv, Sound, NoSchedule, NoPlan, NewCheckpoint
<1>7. RepositoryInv
    BY <1>1 DEF RepositoryInv, ListedComplete, UploadedFirst, ErasedAlone, RetentionSpares, VerifiedStays, retaining
<1>8. QED
    BY <1>2, <1>3, <1>4, <1>5, <1>6, <1>7 DEF IInv, TypeOK, TaskInv

-----------------------------------------------------------------------------
(* Theorems.                                                               *)

\* The inductive invariant holds of every reachable state.
LEMMA Invariance == Spec => []IInv
<1>1. IInv /\ [Next]_vars => IInv'
    BY NextStep DEF BackupStep
<1>2. QED
    BY InitInv, <1>1, PTL DEF Spec

\* Every variable has its type in every reachable state.
THEOREM TypeCorrect == Spec => []TypeOK
<1>1. IInv => TypeOK
    BY DEF IInv
<1>2. QED
    BY <1>1, Invariance, PTL

\* What the repository lists is complete, and the last automatic backup is
\* not deleted unless a cancelled task has deleted one: retainObjectBackups
\* spares the backup it has just verified, and DeleteAutomatic removes the
\* manifest before the snapshot, while no publication has the backup pinned.
THEOREM RestorableBackups == Spec => BackupsStayRestorable
<1> DEFINE Complete == \A b \in Ids : manifest[b] # 0 => [id |-> b, version |-> manifest[b]] \in payload
<1>1. IInv => Complete
    BY DEF IInv, RepositoryInv, ListedComplete
<1>2. IInv /\ [Next]_vars => [listed # {} /\ ~overtaken' => listed' # {}]_vars
    BY NextStep DEF BackupStep, ListKept
<1> HIDE DEF Complete
<1>3. Spec => []Complete
    BY <1>1, Invariance, PTL
<1>4. Spec => [][listed # {} /\ ~overtaken' => listed' # {}]_vars
    BY <1>2, Invariance, PTL DEF Spec
<1>5. QED
    BY <1>3, <1>4 DEF BackupsStayRestorable, Complete

\* A task is failed as ownerless only when it has no worker, and it gets none
\* afterwards: reconcileInactiveTask never ends a task that may still publish.
THEOREM OrphansHaveNoWorker == Spec => [](\A i \in Ids : tasks[i].orphan => at[i] = "none")
<1>1. IInv => \A i \in Ids : tasks[i].orphan => at[i] = "none"
    BY DEF IInv, TaskInv, OrphansEnded
<1>2. QED
    BY <1>1, Invariance, PTL
=============================================================================
