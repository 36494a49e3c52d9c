------------------------ MODULE ReplicatedApplyProofs ------------------------
(***************************************************************************)
(* ReplicatedApply keeps its checkpoint and its objects together for every *)
(* log, every batch width and any number of faults: type correctness, the  *)
(* safety invariants and the refinement of AppliedPrefix.                  *)
(***************************************************************************)
EXTENDS ReplicatedApply, TLAPS

\* The position and the objects that a crash at this moment would recover.
Index == IF marker > 0 THEN marker ELSE checkpoint
Content(k) == IF marker = 0 /\ before[k] # NoImage THEN before[k] ELSE live[k]

JournalShape ==
    /\ ~ open => marker = 0 /\ \A k \in Keys : before[k] = NoImage
    /\ stage \in {"idle", "rejected"} => ~ open
    /\ stage \in {"run", "undo", "synced", "publish", "unlink"} => open
    /\ stage \in {"run", "undo", "synced"} => marker = 0
    /\ stage \in {"publish", "unlink"} => marker > 0
    /\ stage = "unlink" => checkpoint = marker
    /\ checkpoint <= Len(log) /\ marker <= Len(log)
    /\ marker > 0 => checkpoint <= marker

Recoverable == \A k \in Keys : Content(k) = Outcome(log, Index)[k]

\* What is not journaled, or is committed, does not depend on a power loss.
Durable == \A k \in Keys : before[k] = NoImage \/ marker > 0 => disk[k] = {live[k]}

\* The command being applied, or the one that was rejected.
Position ==
    /\ job.first = checkpoint + 1
    /\ job.first <= job.at /\ job.at <= job.last /\ job.last <= Len(log)

RunningCommand ==
    /\ Position
    /\ job.todo \subseteq Touches(log, job.at)
    /\ job.aim = Written(log, job.at)
    /\ \A k \in Keys : live[k] = IF k \in Touches(log, job.at) /\ k \notin job.todo
                                 THEN Written(log, job.at)[k] ELSE Outcome(log, job.at - 1)[k]

RunningSnapshot ==
    /\ job.last = job.at /\ checkpoint < job.last /\ job.last <= Len(log)
    /\ job.aim = Outcome(log, job.last)
    /\ \A k \in Keys : k \notin job.todo => live[k] = Outcome(log, job.last)[k]

Running == stage = "run" => IF job.snapshot THEN RunningSnapshot ELSE RunningCommand

Undoing ==
    stage = "undo" =>
        /\ job.why \in {"reject", "error", "restart"}
        /\ job.todo \subseteq Imaged
        /\ \A k \in Imaged : k \notin job.todo => live[k] = before[k] /\ disk[k] = {before[k]}

Rejected ==
    stage \in {"undo", "rejected"} =>
        /\ job.why = "reject" => Position /\ log[job.at].rejects
        /\ stage = "rejected" => job.why = "reject" /\ job.first = job.last

Synced ==
    stage = "synced" =>
        /\ checkpoint < job.last /\ job.last <= Len(log)
        /\ \A k \in Keys : live[k] = Outcome(log, job.last)[k] /\ disk[k] = {live[k]}

Committed(i) == log[i].op[Catalog] = "put"

CacheShape ==
    cache # NoCache =>
        /\ stage \in {"idle", "run", "synced", "publish", "unlink"}
        /\ stage = "idle" \/ (~ job.snapshot /\ job.why = "none" /\ job.first > 0 /\ job.last <= Len(log))
        /\ stage \in {"synced", "publish"} => job.first = checkpoint + 1
        /\ stage = "publish" => job.last = marker
        /\ stage # "unlink" => cache = Outcome(log, checkpoint)[Catalog]
        /\ stage = "unlink" => \/ cache = Outcome(log, checkpoint)[Catalog]
                               \/ \E i \in job.first..job.last : Committed(i)

Consistent ==
    /\ JournalShape /\ Recoverable /\ Durable
    /\ Running /\ Undoing /\ Rejected /\ Synced /\ CacheShape

Inv == TypeOK /\ Consistent

-----------------------------------------------------------------------------
\* The commands of a log prefix that write object k decide its content.
LEMMA WritersEqual ==
    ASSUME NEW l, NEW m, NEW n, NEW j, NEW k \in Keys,
           Writers(l, n, k) = Writers(j, m, k),
           \A i \in Writers(l, n, k) : Written(l, i) = Written(j, i)
    PROVE  Outcome(l, n)[k] = Outcome(j, m)[k]
<1>1. LastWriter(l, n, k) = LastWriter(j, m, k)
  BY DEF LastWriter
<1>2. CASE LastWriter(l, n, k) = {}
  BY <1>1, <1>2 DEF Outcome
<1>3. CASE LastWriter(l, n, k) # {}
  <2> DEFINE w == CHOOSE i \in LastWriter(l, n, k) : TRUE
  <2>1. w \in Writers(l, n, k)
    BY <1>3 DEF LastWriter
  <2>2. w = CHOOSE i \in LastWriter(j, m, k) : TRUE
    BY <1>1
  <2>3. Written(l, w)[k] = Written(j, w)[k]
    BY <2>1
  <2> QED BY <1>1, <1>3, <2>2, <2>3 DEF Outcome
<1> QED BY <1>2, <1>3

\* Nothing has been written before the first command.
LEMMA OutcomeZero == ASSUME NEW l PROVE Outcome(l, 0) = [k \in Keys |-> Absent]
<1>1. \A k \in Keys : LastWriter(l, 0, k) = {}
  BY DEF LastWriter, Writers
<1> QED BY <1>1 DEF Outcome

\* One more command writes what it touches, unless it is rejected.
LEMMA OutcomeStep ==
    ASSUME NEW l, NEW n \in Nat \ {0}, NEW k \in Keys
    PROVE  Outcome(l, n)[k] = IF ~ l[n].rejects /\ k \in Touches(l, n)
                              THEN Written(l, n)[k] ELSE Outcome(l, n - 1)[k]
<1>1. CASE ~ l[n].rejects /\ k \in Touches(l, n)
  <2>1. n \in Writers(l, n, k)
    BY <1>1 DEF Writers
  <2>2. LastWriter(l, n, k) = {n}
    BY <2>1 DEF LastWriter, Writers
  <2>3. (CHOOSE i \in LastWriter(l, n, k) : TRUE) = n
    BY <2>2
  <2> QED BY <1>1, <2>2, <2>3 DEF Outcome
<1>2. CASE ~ (~ l[n].rejects /\ k \in Touches(l, n))
  <2>1. \A i : i \in Writers(l, n, k) <=> i \in Writers(l, n - 1, k)
    BY <1>2 DEF Writers
  <2>2. Writers(l, n, k) = Writers(l, n - 1, k)
    BY <2>1
  <2>3. Outcome(l, n)[k] = Outcome(l, n - 1)[k]
    BY <2>2, WritersEqual
  <2> QED BY <1>2, <2>3
<1> QED BY <1>1, <1>2

\* Commands that do not touch an object leave it alone.
LEMMA OutcomeRange ==
    ASSUME NEW l, NEW m \in Nat, NEW n \in Nat, m <= n, NEW k \in Keys,
           \A i \in m + 1 .. n : k \notin Touches(l, i)
    PROVE  Outcome(l, n)[k] = Outcome(l, m)[k]
<1>1. \A i : i \in Writers(l, n, k) <=> i \in Writers(l, m, k)
  BY DEF Writers
<1>2. Writers(l, n, k) = Writers(l, m, k)
  BY <1>1
<1> QED BY <1>2, WritersEqual

\* A longer log has the same outcome at the positions it already had.
LEMMA OutcomeAppend ==
    ASSUME NEW l \in Seq(Commands), NEW c \in Commands, NEW n \in 0..Len(l)
    PROVE  /\ Outcome(Append(l, c), n) = Outcome(l, n)
           /\ n > 0 => /\ Append(l, c)[n] = l[n]
                       /\ Touches(Append(l, c), n) = Touches(l, n)
                       /\ Written(Append(l, c), n) = Written(l, n)
<1>1. \A i \in 1..Len(l) : Append(l, c)[i] = l[i]
  OBVIOUS
<1>2. \A i \in 1..Len(l) : Touches(Append(l, c), i) = Touches(l, i) /\ Written(Append(l, c), i) = Written(l, i)
  BY <1>1 DEF Touches, Written
<1>3. ASSUME NEW k \in Keys PROVE Outcome(Append(l, c), n)[k] = Outcome(l, n)[k]
  <2>1. \A i : i \in Writers(Append(l, c), n, k) <=> i \in Writers(l, n, k)
    BY <1>1, <1>2 DEF Writers
  <2>2. Writers(Append(l, c), n, k) = Writers(l, n, k)
    BY <2>1
  <2>3. \A i \in Writers(Append(l, c), n, k) : Written(Append(l, c), i) = Written(l, i)
    BY <1>2, <2>2 DEF Writers
  <2> QED BY <2>2, <2>3, WritersEqual
<1>4. Outcome(Append(l, c), n) = Outcome(l, n)
  BY <1>3 DEF Outcome
<1> QED BY <1>1, <1>2, <1>4

\* What commands write, and what a prefix of them leaves, are contents.
LEMMA WrittenType ==
    ASSUME NEW l, NEW i \in 1..MaxLog
    PROVE  Written(l, i) \in [Keys -> Values] /\ \A k \in Keys : Written(l, i)[k] # Torn /\ Written(l, i)[k] # NoImage
BY CommandsAssumption DEF Written, Values, Absent, Torn, NoImage

LEMMA OutcomeType ==
    ASSUME NEW l, NEW n \in 0..MaxLog
    PROVE  /\ Outcome(l, n) \in [Keys -> Values]
           /\ DOMAIN Outcome(l, n) = Keys
           /\ \A k \in Keys : Outcome(l, n)[k] \in Values
<1>1. ASSUME NEW k \in Keys PROVE Outcome(l, n)[k] \in Values
  <2>1. CASE LastWriter(l, n, k) = {}
    BY <2>1 DEF Outcome, Values
  <2>2. CASE LastWriter(l, n, k) # {}
    <3> DEFINE w == CHOOSE i \in LastWriter(l, n, k) : TRUE
    <3>1. w \in 1..MaxLog
      BY <2>2, CommandsAssumption DEF LastWriter, Writers
    <3>2. Written(l, w)[k] \in Values
      BY <3>1, WrittenType
    <3> QED BY <2>2, <3>2 DEF Outcome
  <2> QED BY <2>1, <2>2
<1>2. DOMAIN Outcome(l, n) = Keys /\ Outcome(l, n) = [k \in Keys |-> Outcome(l, n)[k]]
  BY DEF Outcome
<1> QED BY <1>1, <1>2

-----------------------------------------------------------------------------
\* Facts about the constants and literals that most steps use.
LEMMA Contents ==
    /\ Absent \in Values /\ Torn \in Values /\ NoImage \notin Values /\ NoCache \notin Values
    /\ MaxLog \in Nat /\ MaxBatch \in Nat /\ MaxFaults \in Nat /\ Catalog \in Keys
BY CommandsAssumption DEF Values, Absent, Torn, NoImage, NoCache

JobType == [first : 0..MaxLog, last : 0..MaxLog, at : 0..MaxLog, todo : SUBSET Keys,
            aim : [Keys -> Values], snapshot : BOOLEAN, why : Reasons, single : BOOLEAN]

LEMMA IdleType ==
    /\ Idle \in JobType
    /\ [Idle EXCEPT !.single = TRUE] \in JobType
    /\ \A j \in JobType, s \in SUBSET Keys, w \in Reasons : [j EXCEPT !.todo = s, !.why = w] \in JobType
<1>1. Idle \in JobType
  <2>1. [k \in Keys |-> Absent] \in [Keys -> Values]
    BY Contents
  <2>2. 0 \in 0..MaxLog
    BY Contents
  <2> QED BY <2>1, <2>2 DEF Idle, JobType, Reasons
<1>2. [Idle EXCEPT !.single = TRUE] \in JobType
  BY <1>1 DEF JobType
<1>3. ASSUME NEW j \in JobType, NEW s \in SUBSET Keys, NEW w \in Reasons
      PROVE  [j EXCEPT !.todo = s, !.why = w] \in JobType
  BY DEF JobType
<1> QED BY <1>1, <1>2, <1>3

LEMMA JobUpdates ==
    ASSUME NEW j \in JobType
    PROVE  /\ \A s \in SUBSET Keys : [j EXCEPT !.todo = s] \in JobType
           /\ \A a \in 0..MaxLog, s \in SUBSET Keys, g \in [Keys -> Values] :
                 [j EXCEPT !.at = a, !.todo = s, !.aim = g] \in JobType
<1>1. ASSUME NEW s \in SUBSET Keys PROVE [j EXCEPT !.todo = s] \in JobType
  BY DEF JobType
<1>2. ASSUME NEW a \in 0..MaxLog, NEW s \in SUBSET Keys, NEW g \in [Keys -> Values]
      PROVE  [j EXCEPT !.at = a, !.todo = s, !.aim = g] \in JobType
  BY DEF JobType
<1> QED BY <1>1, <1>2

\* Every step keeps the variables in their types.
LEMMA TypeStep == TypeOK /\ Running /\ Undoing /\ [Next]_vars => TypeOK'
<1> SUFFICES ASSUME TypeOK, Running, Undoing, [Next]_vars PROVE TypeOK'
  OBVIOUS
<1> USE Contents
<1> USE DEF TypeOK, journalVars
<1>0. job \in JobType
  BY DEF JobType
<1>1. ASSUME NEW c \in Commands, Choose(c) PROVE TypeOK'
  BY <1>1 DEF Choose
<1>2. ASSUME NEW n \in 1..MaxBatch, ApplyBatch(n) PROVE TypeOK'
  <2>1. checkpoint + 1 \in 1..MaxLog /\ checkpoint + n \in 0..MaxLog
    BY <1>2 DEF ApplyBatch
  <2>2. Written(log, checkpoint + 1) \in [Keys -> Values] /\ Touches(log, checkpoint + 1) \subseteq Keys
    BY <2>1, WrittenType DEF Touches
  <2> QED BY <1>2, <2>1, <2>2 DEF ApplyBatch, Stages, Reasons
<1>3. ASSUME NEW n \in 1..MaxLog, InstallReplicationSnapshot(n) PROVE TypeOK'
  <2>1. Outcome(log, n) \in [Keys -> Values]
    BY OutcomeType
  <2> QED BY <1>3, <2>1 DEF InstallReplicationSnapshot, cacheOnRestore, Stages, Reasons
<1>4. ASSUME NEW k \in Keys, journalObject(k) PROVE TypeOK'
  BY <1>4 DEF journalObject
<1>5. ASSUME NEW k \in Keys, writeObject(k) PROVE TypeOK'
  <2>1. job.aim[k] \in Values
    OBVIOUS
  <2>2. live' \in [Keys -> Values]
    BY <1>5, <2>1 DEF writeObject
  <2>3. disk' \in [Keys -> SUBSET Values]
    BY <1>5, <2>1 DEF writeObject
  <2> QED BY <1>5, <2>2, <2>3 DEF writeObject
<1>6. CASE NextCommand
  <2>1. ~ job.snapshot
    BY <1>6 DEF NextCommand, Completed, Running, RunningSnapshot
  <2>2. job.at + 1 \in 1..MaxLog
    BY <1>6, <2>1 DEF NextCommand, Completed, Running, RunningCommand, Position
  <2>3. Written(log, job.at + 1) \in [Keys -> Values] /\ Touches(log, job.at + 1) \subseteq Keys
    BY <2>2, WrittenType DEF Touches
  <2> DEFINE a == job.at + 1
             s == Touches(log, job.at + 1)
             g == Written(log, job.at + 1)
  <2>4. a \in 0..MaxLog /\ s \in SUBSET Keys /\ g \in [Keys -> Values]
    BY <2>2, <2>3
  <2>5. job' = [job EXCEPT !.at = a, !.todo = s, !.aim = g]
    BY <1>6 DEF NextCommand
  <2> HIDE DEF a, s, g
  <2>6. job' \in JobType
    BY <1>0, <2>4, <2>5, JobUpdates
  <2> QED BY <1>6, <2>6 DEF NextCommand, JobType
<1>7. CASE Reject
  BY <1>7 DEF Reject, Imaged, Stages, Reasons
<1>8. CASE ApplyError
  <2>1. job \in JobType /\ Imaged \in SUBSET Keys /\ "error" \in Reasons
    BY DEF JobType, Imaged, Reasons
  <2>2. job' \in JobType
    BY <1>8, <2>1, IdleType DEF ApplyError
  <2> QED BY <1>8, <2>2 DEF ApplyError, JobType, Stages
<1>9. CASE SyncBarrier
  BY <1>9 DEF SyncBarrier, syncedObjects, Stages
<1>10. CASE CommitMarker
  BY <1>10 DEF CommitMarker, Stages
<1>11. CASE PublishCheckpoint
  BY <1>11 DEF PublishCheckpoint, Stages
<1>12. CASE RemoveJournal
  <2>1. job' \in JobType
    BY <1>12, IdleType DEF RemoveJournal
  <2>2. cache' \in Values \cup {NoCache}
    BY <1>12 DEF RemoveJournal, catalogStatePending
  <2>3. before' \in [Keys -> Values \cup {NoImage}]
    BY <1>12 DEF RemoveJournal
  <2>4. marker' \in 0..MaxLog /\ stage' \in Stages /\ UNCHANGED <<log, live, disk, checkpoint, faults>>
    BY <1>12 DEF RemoveJournal, Stages
  <2>5. open' \in BOOLEAN
    BY <1>12, Zenon DEF RemoveJournal
  <2> QED BY <2>1, <2>2, <2>3, <2>4, <2>5 DEF JobType
<1>13. ASSUME NEW k \in Keys, RestoreImage(k) PROVE TypeOK'
  <2>1. before[k] \in Values
    BY <1>13 DEF RestoreImage, Undoing, Imaged
  <2>2. job' \in JobType
    BY <1>0, <1>13, JobUpdates DEF RestoreImage, JobType
  <2>3. disk' \in [Keys -> SUBSET Values]
    BY <1>13, <2>1 DEF RestoreImage
  <2> QED BY <1>13, <2>1, <2>2, <2>3 DEF RestoreImage, JobType
<1>14. CASE RolledBack
  <2>1. job' \in JobType
    BY <1>0, <1>14, IdleType DEF RolledBack
  <2>2. stage' \in Stages
    BY <1>14 DEF RolledBack, Stages
  <2>3. before' \in [Keys -> Values \cup {NoImage}]
    BY <1>14 DEF RolledBack
  <2>4. marker' \in 0..MaxLog /\ UNCHANGED <<log, live, disk, checkpoint, cache, faults>>
    BY <1>14 DEF RolledBack
  <2>5. open' \in BOOLEAN
    BY <1>14, Zenon DEF RolledBack
  <2> QED BY <2>1, <2>2, <2>3, <2>4, <2>5 DEF JobType
<1>15. CASE RecordRejection
  BY <1>15 DEF RecordRejection, Stages
<1>16. CASE StopOnError
  BY <1>16 DEF StopOnError, Idle, Stages, Reasons
<1>17. CASE Crash
  BY <1>17 DEF Crash, Idle, Stages, Reasons
<1>18. CASE Stop
  BY <1>18 DEF Stop, Idle, Stages, Reasons
<1>19. CASE Restart
  <2>1. job' \in JobType
    <3>1. (IF restartStage = "undo" THEN Imaged ELSE {}) \in SUBSET Keys
      BY DEF Imaged
    <3>2. (IF restartStage = "idle" THEN "none" ELSE "restart") \in Reasons
      BY DEF Reasons
    <3> QED BY <1>19, <3>1, <3>2, IdleType DEF Restart
  <2>2. stage' \in Stages
    BY <1>19 DEF Restart, restartStage, Stages
  <2> QED BY <1>19, <2>1, <2>2 DEF Restart, JobType
<1>20. CASE ReadCatalog
  BY <1>20 DEF ReadCatalog
<1>21. CASE UNCHANGED vars
  BY <1>21 DEF vars
<1> QED
  BY <1>1, <1>2, <1>3, <1>4, <1>5, <1>6, <1>7, <1>8, <1>9, <1>10, <1>11, <1>12, <1>13, <1>14,
     <1>15, <1>16, <1>17, <1>18, <1>19, <1>20, <1>21 DEF Next, Application

-----------------------------------------------------------------------------
(***************************************************************************)
(* Each action keeps Consistent.                                           *)
(***************************************************************************)
\* The type invariant in the form the steps below use it.
Typed ==
    /\ checkpoint \in Nat /\ marker \in Nat /\ Len(log) \in 0..MaxLog /\ log \in Seq(Commands)
    /\ job.first \in Nat /\ job.at \in Nat /\ job.last \in Nat /\ job.todo \subseteq Keys
    /\ live \in [Keys -> Values] /\ disk \in [Keys -> SUBSET Values]
    /\ before \in [Keys -> Values \cup {NoImage}]

LEMMA InvTyped == TypeOK => Typed
BY Contents DEF TypeOK, Typed

LEMMA ChooseKeeps == ASSUME Inv, NEW c \in Commands, Choose(c) PROVE Consistent'
<1> USE DEF Inv, Consistent, Choose, journalVars
<1>1. Typed /\ Len(log') = Len(log) + 1 /\ log' = Append(log, c)
  BY InvTyped DEF Typed
<1>2. \A n \in 0..Len(log) : Outcome(log', n) = Outcome(log, n)
  BY <1>1, OutcomeAppend DEF Typed
<1>3. \A n \in 1..Len(log) : /\ log'[n] = log[n]
                             /\ Touches(log', n) = Touches(log, n)
                             /\ Written(log', n) = Written(log, n)
  BY <1>1, OutcomeAppend DEF Typed
<1>4. JournalShape'
  BY <1>1 DEF JournalShape, Typed
<1>5. Recoverable'
  <2>1. Index \in 0..Len(log)
    BY <1>1 DEF JournalShape, Typed, Index
  <2> QED BY <1>2, <2>1 DEF Recoverable, Index, Content
<1>6. Durable'
  BY DEF Durable
<1>7. Running'
  <2>1. CASE stage = "run" /\ job.snapshot
    BY <1>1, <1>2, <2>1 DEF Running, RunningSnapshot, Typed
  <2>2. CASE stage = "run" /\ ~ job.snapshot
    <3>1. job.at \in 1..Len(log) /\ job.at - 1 \in 0..Len(log)
      BY <1>1, <2>2 DEF Running, RunningCommand, Position, Typed
    <3> QED BY <1>1, <1>2, <1>3, <2>2, <3>1 DEF Running, RunningCommand, Position, Typed
  <2> QED BY <2>1, <2>2 DEF Running
<1>8. Undoing'
  BY DEF Undoing, Imaged
<1>9. Rejected'
  BY <1>1, <1>3 DEF Rejected, Position, Typed
<1>10. Synced'
  BY <1>1, <1>2 DEF Synced, Typed
<1>11. CacheShape'
  <2>1. ASSUME job.first > 0, job.last <= Len(log), \E i \in job.first..job.last : Committed(i)
        PROVE  (\E i \in job.first..job.last : Committed(i))'
    BY <1>1, <1>3, <2>1 DEF Committed, Typed
  <2>2. checkpoint \in 0..Len(log)
    BY <1>1 DEF JournalShape, Typed
  <2> QED BY <1>1, <1>2, <2>1, <2>2 DEF CacheShape, Typed
<1> QED BY <1>4, <1>5, <1>6, <1>7, <1>8, <1>9, <1>10, <1>11

LEMMA ApplyBatchKeeps == ASSUME Inv, NEW n \in 1..MaxBatch, ApplyBatch(n) PROVE Consistent'
<1> USE DEF Inv, Consistent, ApplyBatch
<1>1. Typed /\ marker = 0 /\ (\A k \in Keys : before[k] = NoImage) /\ n \in Nat
  BY InvTyped, Contents DEF JournalShape
<1>2. JournalShape'
  BY <1>1 DEF JournalShape
<1>3. Recoverable'
  BY DEF Recoverable, Index, Content
<1>4. Durable'
  BY DEF Durable
<1>5. Running'
  <2>1. RunningCommand'
    <3>1. Position'
      BY <1>1 DEF Position, Typed
    <3>2. \A k \in Keys : live[k] = Outcome(log, checkpoint)[k]
      BY <1>1 DEF Recoverable, Index, Content
    <3>3. checkpoint = (checkpoint + 1) - 1
      BY <1>1 DEF Typed
    <3> QED BY <3>1, <3>2, <3>3 DEF RunningCommand
  <2> QED BY <2>1 DEF Running
<1>6. Undoing' /\ Rejected' /\ Synced'
  BY DEF Undoing, Rejected, Synced
<1>7. CacheShape'
  BY <1>1 DEF CacheShape, Typed
<1> QED BY <1>2, <1>3, <1>4, <1>5, <1>6, <1>7

LEMMA SnapshotKeeps == ASSUME Inv, NEW n \in 1..MaxLog, InstallReplicationSnapshot(n) PROVE Consistent'
<1> USE DEF Inv, Consistent, InstallReplicationSnapshot
<1>1. Typed /\ marker = 0 /\ (\A k \in Keys : before[k] = NoImage) /\ n \in 0..MaxLog
  BY InvTyped, Contents DEF JournalShape
<1>2. JournalShape'
  BY <1>1 DEF JournalShape
<1>3. Recoverable' /\ Durable'
  BY DEF Recoverable, Durable, Index, Content
<1>4. Running'
  BY <1>1 DEF Running, RunningSnapshot
<1>5. Undoing' /\ Rejected' /\ Synced'
  BY DEF Undoing, Rejected, Synced
<1>6. CacheShape'
  BY DEF CacheShape, cacheOnRestore
<1> QED BY <1>2, <1>3, <1>4, <1>5, <1>6

LEMMA JournalKeeps == ASSUME Inv, NEW k \in Keys, journalObject(k) PROVE Consistent'
<1> USE DEF Inv, Consistent, journalObject
<1>1. Typed /\ marker = 0 /\ open
  BY InvTyped DEF JournalShape
<1>2. JournalShape'
  BY <1>1 DEF JournalShape
<1>3. Recoverable'
  BY <1>1, Contents DEF Recoverable, Index, Content, Typed
<1>4. Durable'
  BY <1>1, Contents DEF Durable, Typed
<1>5. Running'
  BY DEF Running, RunningCommand, RunningSnapshot, Position
<1>6. Undoing' /\ Rejected' /\ Synced'
  BY DEF Undoing, Rejected, Synced
<1>7. CacheShape'
  BY DEF CacheShape, Committed
<1> QED BY <1>2, <1>3, <1>4, <1>5, <1>6, <1>7

LEMMA WriteKeeps == ASSUME Inv, NEW k \in Keys, writeObject(k) PROVE Consistent'
<1> USE DEF Inv, Consistent, writeObject, journalVars
<1>1. Typed /\ marker = 0 /\ open /\ stage = "run" /\ stage' = "run"
  BY InvTyped DEF JournalShape
<1>2. JournalShape'
  BY <1>1 DEF JournalShape
<1>3. Recoverable'
  BY <1>1, Contents DEF Recoverable, Index, Content, Typed, journaled
<1>4. Durable'
  BY <1>1, Contents DEF Durable, Typed, journaled
<1>5. job'.todo = job.todo \ {k} /\ UNCHANGED <<job.first, job.at, job.last, job.aim, job.snapshot, job.why>>
  BY DEF TypeOK
<1>6. live'[k] = job.aim[k] /\ \A q \in Keys \ {k} : live'[q] = live[q]
  BY <1>1 DEF Typed
<1>7. Running'
  <2>1. CASE job.snapshot
    BY <1>1, <1>5, <1>6, <2>1 DEF Running, RunningSnapshot
  <2>2. CASE ~ job.snapshot
    BY <1>1, <1>5, <1>6, <2>2 DEF Running, RunningCommand, Position
  <2> QED BY <2>1, <2>2
<1>8. Undoing' /\ Rejected' /\ Synced'
  BY <1>1 DEF Undoing, Rejected, Synced
<1>9. CacheShape'
  BY <1>1, <1>5 DEF CacheShape
<1> QED BY <1>2, <1>3, <1>4, <1>7, <1>8, <1>9

\* A command all of whose writes are made leaves the outcome of the log up to it.
LEMMA CompletedOutcome ==
    ASSUME Inv, Completed
    PROVE  \A k \in Keys : live[k] = Outcome(log, job.at)[k]
<1> USE DEF Inv, Consistent, Completed
<1>1. CASE job.snapshot
  BY <1>1 DEF Running, RunningSnapshot
<1>2. CASE ~ job.snapshot
  <2>1. Typed /\ RunningCommand /\ job.at \in Nat \ {0}
    BY <1>2, InvTyped DEF Running, RunningCommand, Position, Typed
  <2>2. \A k \in Keys : live[k] = IF k \in Touches(log, job.at)
                                  THEN Written(log, job.at)[k] ELSE Outcome(log, job.at - 1)[k]
    BY <2>1 DEF RunningCommand
  <2>3. ASSUME NEW k \in Keys PROVE live[k] = Outcome(log, job.at)[k]
    <3>1. Outcome(log, job.at)[k] = IF ~ log[job.at].rejects /\ k \in Touches(log, job.at)
                                    THEN Written(log, job.at)[k] ELSE Outcome(log, job.at - 1)[k]
      BY <2>1, OutcomeStep
    <3> QED BY <1>2, <2>2, <3>1
  <2> QED BY <2>3
<1> QED BY <1>1, <1>2

LEMMA NextCommandKeeps == ASSUME Inv, NextCommand PROVE Consistent'
<1> USE DEF Inv, Consistent, NextCommand, journalVars
<1>1. Typed /\ stage = "run" /\ stage' = "run" /\ Completed
  BY InvTyped DEF Completed
<1>2. JournalShape' /\ Durable' /\ Undoing' /\ Rejected' /\ Synced'
  BY <1>1 DEF JournalShape, Durable, Undoing, Rejected, Synced
<1>3. Recoverable'
  BY DEF Recoverable, Index, Content
<1>4. ~ job.snapshot
  BY <1>1 DEF Running, RunningSnapshot, Typed
<1>5. /\ job'.at = job.at + 1 /\ job'.todo = Touches(log, job.at + 1)
      /\ job'.aim = Written(log, job.at + 1)
      /\ UNCHANGED <<job.first, job.last, job.snapshot, job.why>>
  BY DEF TypeOK
<1>6. Running'
  <2>1. job'.at - 1 = job.at
    BY <1>1, <1>5 DEF Typed
  <2>2. Position'
    BY <1>1, <1>4, <1>5 DEF Running, RunningCommand, Position, Typed
  <2>3. RunningCommand'
    BY <1>1, <1>5, <2>1, <2>2, CompletedOutcome DEF RunningCommand
  <2> QED BY <2>3, <1>4, <1>5 DEF Running
<1>7. CacheShape'
  BY <1>1, <1>5 DEF CacheShape
<1> QED BY <1>2, <1>3, <1>6, <1>7

LEMMA RejectKeeps == ASSUME Inv, Reject PROVE Consistent'
<1> USE DEF Inv, Consistent, Reject, journalVars
<1>1. Typed /\ stage = "run" /\ stage' = "undo" /\ marker = 0 /\ open
  BY InvTyped DEF JournalShape
<1>2. job'.todo = Imaged /\ job'.why = "reject" /\ UNCHANGED <<job.first, job.at, job.last, job.snapshot>>
  BY DEF TypeOK
<1>3. JournalShape' /\ Durable' /\ Running' /\ Synced'
  BY <1>1 DEF JournalShape, Durable, Running, Synced
<1>4. Recoverable'
  BY DEF Recoverable, Index, Content
<1>5. Undoing'
  BY <1>1, <1>2 DEF Undoing, Imaged
<1>6. Rejected'
  BY <1>1, <1>2 DEF Rejected, Running, RunningCommand, Position
<1>7. CacheShape'
  BY DEF CacheShape
<1> QED BY <1>3, <1>4, <1>5, <1>6, <1>7

LEMMA ApplyErrorKeeps == ASSUME Inv, ApplyError PROVE Consistent'
<1> USE DEF Inv, Consistent, ApplyError, journalVars
<1>1. Typed /\ stage = "run" /\ stage' = "undo" /\ marker = 0 /\ open
  BY InvTyped DEF JournalShape
<1>2. job'.todo = Imaged /\ job'.why = "error"
  BY DEF TypeOK
<1>3. JournalShape' /\ Durable' /\ Running' /\ Synced'
  BY <1>1 DEF JournalShape, Durable, Running, Synced
<1>4. Recoverable'
  BY DEF Recoverable, Index, Content
<1>5. Undoing' /\ Rejected'
  BY <1>1, <1>2 DEF Undoing, Rejected, Imaged
<1>6. CacheShape'
  BY DEF CacheShape
<1> QED BY <1>3, <1>4, <1>5, <1>6

LEMMA SyncKeeps == ASSUME Inv, SyncBarrier PROVE Consistent'
<1> USE DEF Inv, Consistent, SyncBarrier, journalVars
<1>1. Typed /\ Completed /\ stage = "run" /\ stage' = "synced" /\ marker = 0 /\ open
  BY InvTyped DEF JournalShape, Completed
<1>2. JournalShape' /\ Running' /\ Undoing' /\ Rejected'
  BY <1>1 DEF JournalShape, Running, Undoing, Rejected
<1>3. Recoverable'
  BY DEF Recoverable, Index, Content
<1>4. \A k \in Keys : disk'[k] = {live[k]}
  BY <1>1 DEF Durable, syncedObjects, Typed
<1>5. Durable'
  BY <1>4 DEF Durable
<1>6. checkpoint < job.last /\ job.last <= Len(log)
  BY <1>1 DEF Running, RunningSnapshot, RunningCommand, Position, Typed
<1>7. Synced'
  BY <1>1, <1>4, <1>6, CompletedOutcome DEF Synced
<1>8. CacheShape'
  BY <1>1 DEF CacheShape, Running, RunningCommand, Position
<1> QED BY <1>2, <1>3, <1>5, <1>7, <1>8

LEMMA CommitKeeps == ASSUME Inv, CommitMarker PROVE Consistent'
<1> USE DEF Inv, Consistent, CommitMarker
<1>1. /\ Typed /\ stage' = "publish" /\ marker' = job.last /\ marker' > 0 /\ open
      /\ marker' <= Len(log) /\ checkpoint < marker'
  BY InvTyped DEF JournalShape, Synced, Typed
<1>2. JournalShape' /\ Running' /\ Undoing' /\ Rejected' /\ Synced'
  BY <1>1 DEF JournalShape, Running, Undoing, Rejected, Synced, Typed
<1>3. Recoverable' /\ Durable'
  BY <1>1 DEF Recoverable, Durable, Index, Content, Synced
<1>4. CacheShape'
  BY <1>1 DEF CacheShape
<1> QED BY <1>2, <1>3, <1>4

LEMMA PublishKeeps == ASSUME Inv, PublishCheckpoint PROVE Consistent'
<1> USE DEF Inv, Consistent, PublishCheckpoint, journalVars
<1>1. Typed /\ stage = "publish" /\ stage' = "unlink" /\ checkpoint' = marker /\ marker > 0 /\ open
  BY InvTyped DEF JournalShape
<1>2. JournalShape' /\ Durable' /\ Running' /\ Undoing' /\ Rejected' /\ Synced'
  BY <1>1 DEF JournalShape, Durable, Running, Undoing, Rejected, Synced, Typed
<1>3. Recoverable'
  BY <1>1 DEF Recoverable, Index, Content
<1>4. CacheShape'
  <2> SUFFICES ASSUME cache # NoCache,
                      ~ \E i \in job.first..job.last : Committed(i)
               PROVE  cache = Outcome(log, marker)[Catalog]
    BY <1>1 DEF CacheShape, Committed
  <2>1. cache = Outcome(log, checkpoint)[Catalog] /\ job.first = checkpoint + 1 /\ job.last = marker
    BY <1>1 DEF CacheShape
  <2>2. \A i \in checkpoint + 1 .. marker : log[i] \in Commands
    BY <1>1 DEF JournalShape, Typed
  <2>3. \A i \in checkpoint + 1 .. marker : Catalog \notin Touches(log, i)
    BY <2>1, <2>2, CommandsAssumption DEF Touches, Committed
  <2>4. checkpoint \in Nat /\ marker \in Nat /\ checkpoint <= marker
    BY <1>1 DEF JournalShape, Typed
  <2> QED BY <2>1, <2>3, <2>4, OutcomeRange, Contents
<1> QED BY <1>2, <1>3, <1>4

LEMMA RemoveKeeps == ASSUME Inv, RemoveJournal PROVE Consistent'
<1> USE DEF Inv, Consistent, RemoveJournal
<1>1. Typed /\ stage' = "idle" /\ marker > 0 /\ checkpoint = marker
  BY InvTyped DEF JournalShape
<1>2. ~ open' /\ marker' = 0 /\ \A k \in Keys : before'[k] = NoImage
  BY Zenon
<1>3. JournalShape'
  BY <1>1, <1>2 DEF JournalShape, Typed
<1>4. Recoverable'
  BY <1>1, <1>2 DEF Recoverable, Index, Content
<1>5. Durable'
  BY <1>1 DEF Durable
<1>6. Running' /\ Undoing' /\ Rejected' /\ Synced'
  BY <1>1 DEF Running, Undoing, Rejected, Synced
<1>7. CacheShape'
  <2>1. live[Catalog] = Outcome(log, checkpoint)[Catalog]
    BY <1>1, Contents DEF Recoverable, Index, Content
  <2>2. CASE cache = NoCache
    BY <1>1, <2>1, <2>2 DEF CacheShape, catalogStatePending
  <2>3. CASE cache # NoCache
    BY <1>1, <2>1, <2>3 DEF CacheShape, catalogStatePending, Committed
  <2> QED BY <2>2, <2>3
<1> QED BY <1>3, <1>4, <1>5, <1>6, <1>7

LEMMA RestoreKeeps == ASSUME Inv, NEW k \in Keys, RestoreImage(k) PROVE Consistent'
<1> USE DEF Inv, Consistent, RestoreImage, journalVars
<1>1. /\ Typed /\ stage = "undo" /\ stage' = "undo" /\ marker = 0 /\ open
      /\ before[k] # NoImage
  BY InvTyped DEF JournalShape, Undoing, Imaged
<1>2. job'.todo = job.todo \ {k} /\ UNCHANGED <<job.first, job.at, job.last, job.why, job.snapshot>>
  BY DEF TypeOK
<1>3. /\ live'[k] = before[k] /\ disk'[k] = {before[k]}
      /\ \A q \in Keys \ {k} : live'[q] = live[q] /\ disk'[q] = disk[q]
  BY <1>1 DEF Typed
<1>4. JournalShape' /\ Running' /\ Synced'
  BY <1>1 DEF JournalShape, Running, Synced
<1>5. Recoverable'
  BY <1>1, <1>3 DEF Recoverable, Index, Content
<1>6. Durable'
  BY <1>1, <1>3 DEF Durable
<1>7. Undoing'
  BY <1>1, <1>2, <1>3 DEF Undoing, Imaged
<1>8. Rejected'
  BY <1>1, <1>2 DEF Rejected, Position
<1>9. CacheShape'
  BY <1>1 DEF CacheShape
<1> QED BY <1>4, <1>5, <1>6, <1>7, <1>8, <1>9

LEMMA RolledBackKeeps == ASSUME Inv, RolledBack PROVE Consistent'
<1> USE DEF Inv, Consistent, RolledBack
<1>1. /\ Typed /\ stage = "undo" /\ stage' \in {"idle", "failed", "rejected"} /\ marker = 0
      /\ stage' = "rejected" => job.why = "reject" /\ job.first = job.last /\ job' = job
  BY InvTyped DEF JournalShape
<1>2. ~ open' /\ marker' = 0 /\ \A k \in Keys : before'[k] = NoImage
  BY Zenon
<1>3. \A k \in Keys : before[k] # NoImage => live[k] = before[k] /\ disk[k] = {before[k]}
  BY <1>1 DEF Undoing, Imaged
<1>4. JournalShape'
  BY <1>1, <1>2 DEF JournalShape, Typed
<1>5. Recoverable'
  BY <1>1, <1>2, <1>3 DEF Recoverable, Index, Content
<1>6. Durable'
  BY <1>1, <1>2, <1>3 DEF Durable
<1>7. Running' /\ Undoing' /\ Synced'
  BY <1>1 DEF Running, Undoing, Synced
<1>8. Rejected'
  BY <1>1 DEF Rejected, Position
<1>9. CacheShape'
  BY <1>1 DEF CacheShape
<1> QED BY <1>4, <1>5, <1>6, <1>7, <1>8, <1>9

LEMMA RecordKeeps == ASSUME Inv, RecordRejection PROVE Consistent'
<1> USE DEF Inv, Consistent, RecordRejection
<1>1. /\ Typed /\ stage = "rejected" /\ stage' = "synced" /\ marker = 0
      /\ \A k \in Keys : before[k] = NoImage
  BY InvTyped DEF JournalShape
<1>2. open'
  BY Zenon
<1>3. JournalShape'
  BY <1>1, <1>2 DEF JournalShape, Typed
<1>4. Recoverable' /\ Durable' /\ Running' /\ Undoing' /\ Rejected'
  BY <1>1 DEF Recoverable, Index, Content, Durable, Running, Undoing, Rejected
<1>5. Synced'
  <2>1. /\ job.last = checkpoint + 1 /\ job.last <= Len(log) /\ log[job.last].rejects
        /\ job.last \in Nat \ {0} /\ job.last - 1 = checkpoint
    BY <1>1 DEF Rejected, Position, Typed
  <2>2. ASSUME NEW k \in Keys PROVE live[k] = Outcome(log, job.last)[k] /\ disk[k] = {live[k]}
    <3>1. Outcome(log, job.last)[k] = Outcome(log, checkpoint)[k]
      BY <2>1, OutcomeStep
    <3> QED BY <1>1, <3>1 DEF Recoverable, Index, Content, Durable
  <2> QED BY <1>1, <2>1, <2>2 DEF Synced, Typed
<1>6. CacheShape'
  BY <1>1 DEF CacheShape
<1> QED BY <1>3, <1>4, <1>5, <1>6

\* The steps that stop or start the process.
LEMMA ProcessKeeps == ASSUME Inv, StopOnError \/ Crash \/ Stop \/ Restart PROVE Consistent'
<1> USE DEF Inv, Consistent, journalVars
<1>1. Typed
  BY InvTyped
<1>2. CASE StopOnError \/ Stop
  <2>1. stage' \in {"failed", "down"} /\ cache' = NoCache
    BY <1>2 DEF StopOnError, Stop
  <2>2. UNCHANGED <<log, live, disk, before, marker, open, checkpoint>>
    BY <1>2 DEF StopOnError, Stop
  <2> QED BY <2>1, <2>2 DEF JournalShape, Recoverable, Index, Content, Durable, Running,
             Undoing, Rejected, Synced, CacheShape
<1>3. CASE Crash
  <2>1. stage' = "down" /\ cache' = NoCache /\ UNCHANGED <<log, before, marker, open, checkpoint>>
    BY <1>3 DEF Crash
  <2>2. PICK lost \in [Keys -> Values] :
            /\ \A k \in Keys : lost[k] \in disk[k]
            /\ live' = lost /\ disk' = [k \in Keys |-> {lost[k]}]
    BY <1>3 DEF Crash
  <2>3. \A k \in Keys : disk'[k] = {live'[k]} /\ live'[k] \in disk[k]
    BY <2>2
  <2>4. \A k \in Keys : before[k] = NoImage \/ marker # 0 => live'[k] = live[k]
    BY <1>1, <2>3 DEF Durable, Typed
  <2>5. Recoverable'
    BY <2>1, <2>4 DEF Recoverable, Index, Content
  <2> QED BY <2>1, <2>3, <2>5 DEF JournalShape, Durable, Running, Undoing, Rejected, Synced, CacheShape
<1>4. CASE Restart
  <2>1. UNCHANGED <<log, live, disk, before, marker, open, checkpoint, cache>> /\ cache = NoCache
    BY <1>4 DEF Restart, CacheShape
  <2>2. stage' = IF ~ open THEN "idle" ELSE IF marker > 0 THEN "publish" ELSE "undo"
    BY <1>4 DEF Restart, restartStage
  <2>3. JournalShape' /\ Recoverable' /\ Durable' /\ CacheShape'
    BY <1>1, <2>1, <2>2 DEF JournalShape, Recoverable, Index, Content, Durable, CacheShape, Typed
  <2>4. stage' = "undo" => job'.todo = Imaged /\ job'.why = "restart"
    BY <1>4, <2>2 DEF Restart, restartStage, Idle
  <2> QED BY <2>1, <2>2, <2>3, <2>4 DEF Running, Undoing, Rejected, Synced, Imaged
<1> QED BY <1>2, <1>3, <1>4

LEMMA ReadCatalogKeeps == ASSUME Inv, ReadCatalog PROVE Consistent'
<1> USE DEF Inv, Consistent, ReadCatalog, journalVars
<1>1. JournalShape' /\ Recoverable' /\ Durable'
  BY DEF JournalShape, Recoverable, Index, Content, Durable
<1>2. Running' /\ Undoing' /\ Rejected' /\ Synced'
  BY DEF Running, Undoing, Rejected, Synced
<1>3. live[Catalog] = Outcome(log, checkpoint)[Catalog]
  BY InvTyped, Contents DEF JournalShape, Recoverable, Index, Content
<1>4. CacheShape'
  BY <1>3 DEF CacheShape
<1> QED BY <1>1, <1>2, <1>4

-----------------------------------------------------------------------------
LEMMA InvInit == Init => Inv
<1> SUFFICES ASSUME Init PROVE Inv
  OBVIOUS
<1> USE DEF Init
<1>1. Idle \in JobType
  BY IdleType
<1>2. TypeOK
  <2>1. log \in Seq(Commands) /\ Len(log) = 0
    OBVIOUS
  <2>2. open \in BOOLEAN
    BY Zenon
  <2> QED BY <1>1, <2>1, <2>2, Contents DEF TypeOK, JobType, Stages
<1>3. ~ open
  BY Zenon
<1>4. JournalShape
  BY <1>3 DEF JournalShape
<1>5. Recoverable
  BY OutcomeZero DEF Recoverable, Index, Content
<1>6. Durable /\ Running /\ Undoing /\ Rejected /\ Synced /\ CacheShape
  BY DEF Durable, Running, Undoing, Rejected, Synced, CacheShape
<1> QED BY <1>2, <1>4, <1>5, <1>6 DEF Inv, Consistent

LEMMA InvStep == Inv /\ [Next]_vars => Inv'
<1> SUFFICES ASSUME Inv, [Next]_vars PROVE Inv'
  OBVIOUS
<1>1. TypeOK'
  BY TypeStep DEF Inv, Consistent
<1>2. CASE Next
  <2>1. ASSUME NEW c \in Commands, Choose(c) PROVE Consistent'
    BY <2>1, ChooseKeeps
  <2>2. ASSUME NEW n \in 1..MaxBatch, ApplyBatch(n) PROVE Consistent'
    BY <2>2, ApplyBatchKeeps
  <2>3. ASSUME NEW n \in 1..MaxLog, InstallReplicationSnapshot(n) PROVE Consistent'
    BY <2>3, SnapshotKeeps
  <2>4. ASSUME NEW k \in Keys, journalObject(k) \/ writeObject(k) \/ RestoreImage(k) PROVE Consistent'
    BY <2>4, JournalKeeps, WriteKeeps, RestoreKeeps
  <2>5. ASSUME NextCommand \/ Reject \/ ApplyError \/ SyncBarrier \/ CommitMarker \/ PublishCheckpoint
        PROVE  Consistent'
    BY <2>5, NextCommandKeeps, RejectKeeps, ApplyErrorKeeps, SyncKeeps, CommitKeeps, PublishKeeps
  <2>6. ASSUME RemoveJournal \/ RolledBack \/ RecordRejection \/ ReadCatalog PROVE Consistent'
    BY <2>6, RemoveKeeps, RolledBackKeeps, RecordKeeps, ReadCatalogKeeps
  <2>7. ASSUME StopOnError \/ Crash \/ Stop \/ Restart PROVE Consistent'
    BY <2>7, ProcessKeeps
  <2>8. Consistent'
    BY <1>2, <2>1, <2>2, <2>3, <2>4, <2>5, <2>6, <2>7 DEF Next, Application
  <2> QED BY <1>1, <2>8 DEF Inv
<1>3. CASE UNCHANGED vars
  BY <1>1, <1>3 DEF Inv, Consistent, vars, JournalShape, Recoverable, Index, Content, Durable, Running,
     RunningCommand, RunningSnapshot, Position, Undoing, Imaged, Rejected, Synced, CacheShape, Committed
<1> QED BY <1>2, <1>3

THEOREM Invariance == Spec => []Inv
BY InvInit, InvStep, PTL DEF Spec

(***************************************************************************)
(* The variables of the apply path of ApplyReplicated and                  *)
(* recoverReplication keep their types.                                    *)
(***************************************************************************)
THEOREM TypeCorrect == Spec => []TypeOK
<1>1. Inv => TypeOK
  BY DEF Inv
<1> QED BY <1>1, Invariance, PTL

(***************************************************************************)
(* Whenever ApplyReplicated can run or a reader is admitted, the objects   *)
(* are the outcome of the commands up to checkpoint.json, for every log,   *)
(* batch width and number of crashes and failures.                         *)
(***************************************************************************)
THEOREM CheckpointConsistent == Spec => []CheckpointMatchesObjects
<1>1. Inv => CheckpointMatchesObjects
  <2> SUFFICES ASSUME Inv, stage = "idle" PROVE ~ open /\ live = Outcome(log, checkpoint)
    BY DEF CheckpointMatchesObjects
  <2>1. Typed /\ ~ open /\ marker = 0 /\ \A k \in Keys : before[k] = NoImage
    BY InvTyped DEF Inv, Consistent, JournalShape
  <2>2. Index = checkpoint /\ \A k \in Keys : Content(k) = live[k]
    BY <2>1 DEF Index, Content
  <2>4. \A k \in Keys : live[k] = Outcome(log, checkpoint)[k]
    BY <2>2 DEF Inv, Consistent, Recoverable
  <2>3. Outcome(log, checkpoint) \in [Keys -> Values]
    BY <2>1, OutcomeType DEF Inv, TypeOK
  <2> QED BY <2>1, <2>3, <2>4 DEF Typed
<1> QED BY <1>1, Invariance, PTL

(***************************************************************************)
(* catalogState is the committed catalog whenever Application.catalog      *)
(* answers from it.                                                        *)
(***************************************************************************)
THEOREM CatalogCacheCorrect == Spec => []CatalogCacheCurrent
<1>1. Inv => CatalogCacheCurrent
  BY DEF Inv, Consistent, CacheShape, CatalogCacheCurrent
<1> QED BY <1>1, Invariance, PTL

\* Both specifications read the outcome of a log the same way.
LEMMA SameOutcome == \A l, n : Applied!Outcome(l, n) = Outcome(l, n)
BY DEF Outcome, LastWriter, Writers, Touches, Written, Absent,
       Applied!Outcome, Applied!LastWriter, Applied!Writers, Applied!Touches, Applied!Written, Applied!Absent

(***************************************************************************)
(* The journaled application implements AppliedPrefix: what a crash would  *)
(* recover moves from one prefix of the log to a longer one in one step,   *)
(* the one that writes the commit marker.                                  *)
(***************************************************************************)
THEOREM Refinement == Spec => AppliesAtomically
<1> DEFINE prefix == <<log, IF marker > 0 THEN marker ELSE checkpoint,
                       [k \in Keys |-> IF marker = 0 /\ before[k] # NoImage THEN before[k] ELSE live[k]]>>
<1>1. Init => Applied!Init
  BY DEF Init, Applied!Init, Absent, Applied!Absent
<1>2. Inv /\ Inv' /\ [Next]_vars => [Applied!Next]_prefix
  <2> SUFFICES ASSUME Inv, Inv', [Next]_vars PROVE Applied!Next \/ UNCHANGED prefix
    OBVIOUS
  <2>1. /\ Typed
        /\ \A k \in Keys : Content(k) = Outcome(log, Index)[k]
        /\ \A k \in Keys : Content(k)' = Outcome(log', Index')[k]
    BY InvTyped DEF Inv, Consistent, Recoverable
  <2>2. CASE UNCHANGED log /\ Index' = Index
    <3>1. \A k \in Keys : Content(k)' = Content(k)
      BY <2>1, <2>2
    <3> QED BY <2>2, <3>1 DEF Content, Index
  <2>3. ASSUME NEW c \in Commands, Choose(c) PROVE Applied!Next
    BY <2>3 DEF Choose, journalVars, Applied!Next, Applied!Extend
  <2>4. CASE CommitMarker
    <3>1. Index = checkpoint /\ Index' = job.last /\ job.last \in checkpoint + 1 .. Len(log) /\ log' = log
      BY <2>1, <2>4 DEF CommitMarker, Inv, Consistent, JournalShape, Synced, Index, Typed
    <3>2. [k \in Keys |-> Content(k)'] = Outcome(log, job.last)
      BY <2>1, <3>1 DEF Outcome
    <3>3. Applied!Advance
      BY <3>1, <3>2, SameOutcome DEF Applied!Advance, Content, Index
    <3> QED BY <3>3 DEF Applied!Next
  <2>5. CASE PublishCheckpoint \/ RemoveJournal
    BY <2>1, <2>2, <2>5 DEF PublishCheckpoint, RemoveJournal, journalVars, Inv, Consistent, JournalShape, Index
  <2>6. CASE RolledBack
    BY <2>1, <2>2, <2>6 DEF RolledBack, Inv, Consistent, JournalShape, Index
  <2>7. CASE UNCHANGED <<log, marker, checkpoint>>
    BY <2>2, <2>7 DEF Index
  <2>8. ASSUME NEW n \in 1..MaxBatch, ApplyBatch(n) PROVE UNCHANGED <<log, marker, checkpoint>>
    BY <2>8 DEF ApplyBatch
  <2>9. ASSUME NEW n \in 1..MaxLog, InstallReplicationSnapshot(n) PROVE UNCHANGED <<log, marker, checkpoint>>
    BY <2>9 DEF InstallReplicationSnapshot
  <2>10. ASSUME NEW k \in Keys, journalObject(k) \/ writeObject(k) \/ RestoreImage(k)
         PROVE  UNCHANGED <<log, marker, checkpoint>>
    BY <2>10 DEF journalObject, writeObject, RestoreImage, journalVars
  <2>11. ASSUME NextCommand \/ Reject \/ ApplyError \/ SyncBarrier \/ RecordRejection \/ StopOnError
                \/ Crash \/ Stop \/ Restart \/ ReadCatalog
         PROVE  UNCHANGED <<log, marker, checkpoint>>
    BY <2>11 DEF NextCommand, Reject, ApplyError, SyncBarrier, RecordRejection, StopOnError,
                 Crash, Stop, Restart, ReadCatalog, journalVars
  <2>12. CASE UNCHANGED vars
    BY <2>7, <2>12 DEF vars
  <2> QED BY <2>3, <2>4, <2>5, <2>6, <2>7, <2>8, <2>9, <2>10, <2>11, <2>12 DEF Next, Application
<1> QED BY <1>1, <1>2, Invariance, PTL DEF Spec, AppliesAtomically, Applied!Spec
=============================================================================
