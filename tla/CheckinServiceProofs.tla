------------------------ MODULE CheckinServiceProofs ------------------------
(* Theorems about CheckinService for every value of its constants. *)
EXTENDS CheckinService, TLAPS

\* next_run_for yields an occurrence or nothing.
LEMMA NextRunForType ==
  ASSUME now \in 0 .. MaxOcc, NEW after \in Occ \cup {None}
  PROVE  NextRunFor(after) \in Occ \cup {None}
BY ConstAssumption DEF NextRunFor, Occ

\* update_task with a well-typed row.
LEMMA WriteType ==
  ASSUME TypeOK, NEW t \in Tasks, NEW new \in TaskRow, Write(t, new)
  PROVE  task' \in [Tasks -> TaskRow]
BY DEF Write, TypeOK

\* _sync_schedule arms a timer for an occurrence or removes it.
LEMMA SyncType ==
  ASSUME TypeOK, NEW t \in Tasks, task' \in [Tasks -> TaskRow], SyncSchedule(t)
  PROVE  job' \in [Tasks -> Occ \cup {None}]
<1>1. Arm(task'[t]) \in Occ \cup {None}
  BY DEF Arm, TaskRow
<1>. QED
  BY <1>1 DEF SyncSchedule, TypeOK

\* A new revision changes coroutines in one Boolean field only.
LEMMA BumpType ==
  ASSUME TypeOK, NEW t \in Tasks, BumpRevision(t)
  PROVE  co' \in [Runs -> Coroutine]
<1>1. \A c \in Coroutine : [c EXCEPT !.stale = TRUE] \in Coroutine
  BY DEF Coroutine
<1>. QED
  BY <1>1 DEF BumpRevision, TypeOK


\* _update_after_run writes a well-typed task row.
LEMMA RowAfterRunType ==
  ASSUME TypeOK, NEW r \in Runs, row[r].task \in Tasks
  PROVE  RowAfterRun(r) \in TaskRow
<1>. DEFINE t == task[row[r].task]
            n == NextRunFor(t.next)
<1>1. t \in TaskRow /\ t.next \in Occ \cup {None}
  BY DEF TypeOK, TaskRow
<1>2. n \in Occ \cup {None}
  BY <1>1, NextRunForType DEF TypeOK
<1>3. [t EXCEPT !.next = n] \in TaskRow
  BY <1>1, <1>2 DEF TaskRow
<1>. QED
  BY <1>1, <1>3 DEF RowAfterRun

\* update_run and _finalize_run_progress write a well-typed run row.
LEMMA FinalizedType ==
  ASSUME TypeOK, NEW r \in Runs, NEW status \in Status
  PROVE  Finalized(r, status) \in [Runs -> RunRow]
<1>. DEFINE old == row[r]
            shown == IF tracked[old.task] = r THEN status ELSE old.shown
            new == [old EXCEPT !.status = status, !.shown = shown]
<1>1. old \in RunRow /\ shown \in Status \cup {None}
  BY DEF TypeOK, RunRow
<1>2. new \in RunRow
  <2>. HIDE DEF shown
  <2>. QED
    BY <1>1 DEF RunRow
<1>3. Finalized(r, status) = [row EXCEPT ![r] = new]
  BY DEF Finalized
<1>. QED
  BY <1>2, <1>3 DEF TypeOK

\* Settling a task keeps rows and timers well typed.
LEMMA SettleTaskType ==
  ASSUME TypeOK, NEW r \in Runs, row[r].task \in Tasks, SettleTask(r)
  PROVE  task' \in [Tasks -> TaskRow] /\ job' \in [Tasks -> Occ \cup {None}]
<1>1. CASE UpdateAfterRun(r)
  <2>1. task' \in [Tasks -> TaskRow]
    BY <1>1, RowAfterRunType DEF UpdateAfterRun, TypeOK
  <2>. QED
    BY <1>1, <2>1, SyncType DEF UpdateAfterRun
<1>2. CASE UNCHANGED <<task, job>>
  BY <1>2 DEF TypeOK
<1>. QED
  BY <1>1, <1>2 DEF SettleTask

\* A run that exists belongs to a task and, unless an administrator's skip
\* recorded it, to a key.
RowsComplete ==
  \A r \in Runs : row[r].status # None =>
    /\ row[r].task \in Tasks
    /\ row[r].kind # "skip" => row[r].key \in Keys

\* Only rows that exist have coroutines.
LiveRuns ==
  \A r \in Runs :
    /\ Live(r) => row[r].status # None /\ row[r].kind # "skip"
    /\ co[r].phase = "skipping" => row[r].kind = "scheduled"

\* A live run has its task and its key.
LEMMA LiveRow ==
  ASSUME TypeOK, RowsComplete, LiveRuns, NEW r \in Runs, Live(r)
  PROVE  row[r].task \in Tasks /\ row[r].key \in Keys
BY DEF RowsComplete, LiveRuns

\* The outcome of a run, recorded on any path, keeps every type.
LEMMA SettleType ==
  ASSUME TypeOK, RowsComplete, LiveRuns, NEW r \in Runs, Live(r),
         NEW status \in Status, NEW phase \in Phase, Settle(r, status, phase)
  PROVE  TypeOK'
<1>1. row' \in [Runs -> RunRow]
  BY FinalizedType DEF Settle
<1>2. task' \in [Tasks -> TaskRow] /\ job' \in [Tasks -> Occ \cup {None}]
  BY LiveRow, SettleTaskType DEF Settle
<1>3. co' \in [Runs -> Coroutine]
  <2>. DEFINE new == [co[r] EXCEPT !.phase = phase, !.sig = Delivered(r)]
  <2>1. co[r] \in Coroutine /\ Delivered(r) \in {"no", "pending", "seen"}
    BY DEF TypeOK, Coroutine, Delivered
  <2>2. new \in Coroutine
    BY <2>1 DEF Coroutine
  <2>3. co' = [co EXCEPT ![r] = new]
    BY DEF Settle
  <2>. QED
    BY <2>2, <2>3 DEF TypeOK
<1>. QED
  BY <1>1, <1>2, <1>3 DEF Settle, TypeOK, shared

\* The administrator's operations keep every type.
LEMMA TaskAdminType ==
  ASSUME TypeOK, NEW t \in Tasks,
         \/ \E k \in Keys : CreateTask(t, k) \/ EditTask(t, k)
         \/ EnableTask(t) \/ PublishTask(t)
         \/ DisableTask(t) \/ ArchiveTask(t) \/ RestoreTask(t)
  PROVE  TypeOK'
<1>1. ASSUME NEW k \in Keys, CreateTask(t, k) PROVE TypeOK'
  BY <1>1 DEF CreateTask, Write, NoTask, TypeOK, TaskRow, shared, timers
<1>2. ASSUME NEW new \in TaskRow, Write(t, new), SyncSchedule(t) \/ UNCHANGED job,
             BumpRevision(t), UNCHANGED <<now, up, row, cb, shared>>
      PROVE  TypeOK'
  <2>1. task' \in [Tasks -> TaskRow]
    BY <1>2, WriteType
  <2>2. job' \in [Tasks -> Occ \cup {None}]
    BY <1>2, <2>1, SyncType DEF TypeOK
  <2>3. co' \in [Runs -> Coroutine]
    BY <1>2, BumpType
  <2>. QED
    BY <1>2, <2>1, <2>2, <2>3 DEF TypeOK, shared
<1>3. task[t] \in TaskRow /\ NextRunFor(None) \in Occ \cup {None}
  BY NextRunForType DEF TypeOK
<1>4. ASSUME NEW k \in Keys, EditTask(t, k) PROVE TypeOK'
  <2>1. /\ [task[t] EXCEPT !.draft = k] \in TaskRow
        /\ [task[t] EXCEPT !.draft = k, !.next = None] \in TaskRow
    BY <1>3 DEF TaskRow
  <2>. QED
    BY <1>2, <1>4, <2>1 DEF EditTask
<1>5. CASE EnableTask(t)
  <2>1. [task[t] EXCEPT !.enabled = TRUE, !.next = NextRunFor(None)] \in TaskRow
    BY <1>3 DEF TaskRow
  <2>. QED
    BY <1>2, <1>5, <2>1 DEF EnableTask
<1>6. CASE PublishTask(t)
  <2>. DEFINE next == IF task[t].enabled THEN NextRunFor(None) ELSE None
              new == [task[t] EXCEPT !.version = task[t].draft, !.next = next]
  <2>1. next \in Occ \cup {None} /\ task[t].draft \in Keys \cup {None}
    BY <1>3 DEF TaskRow
  <2>2. new \in TaskRow
    <3>. HIDE DEF next
    <3>. QED
      BY <1>3, <2>1 DEF TaskRow
  <2>3. Write(t, new)
    BY <1>6 DEF PublishTask
  <2>. QED
    BY <1>2, <1>6, <2>2, <2>3 DEF PublishTask
<1>7. CASE DisableTask(t)
  <2>1. [task[t] EXCEPT !.enabled = FALSE, !.next = None] \in TaskRow
    BY <1>3 DEF TaskRow
  <2>. QED
    BY <1>2, <1>7, <2>1 DEF DisableTask
<1>8. CASE ArchiveTask(t)
  <2>1. [task[t] EXCEPT !.enabled = FALSE, !.archived = TRUE, !.next = None]
          \in TaskRow
    BY <1>3 DEF TaskRow
  <2>. QED
    BY <1>2, <1>8, <2>1 DEF ArchiveTask
<1>9. CASE RestoreTask(t)
  <2>1. [task[t] EXCEPT !.archived = FALSE, !.enabled = FALSE, !.next = None]
          \in TaskRow
    BY <1>3 DEF TaskRow
  <2>. QED
    BY <1>2, <1>9, <2>1 DEF RestoreTask
<1>. QED
  BY <1>1, <1>4, <1>5, <1>6, <1>7, <1>8, <1>9

\* So do the operations that add a run ...
LEMMA NewRunType ==
  ASSUME TypeOK, NEW t \in Tasks, NEW r \in Runs,
         \/ SkipNextTask(t, r)
         \/ StartManual(t, r)
         \/ \E k \in Keys : StartTest(t, r, k)
         \/ SkipBusy(t, r)
         \/ StartScheduled(t, r)
  PROVE  TypeOK'
<1>1. /\ task[t] \in TaskRow
      /\ task[t].next \in Occ \cup {None}
      /\ task[t].version \in Keys \cup {None}
      /\ task[t].draft \in Keys \cup {None}
      /\ NextRunFor(task[t].next) \in Occ \cup {None}
  <2>1. task[t] \in TaskRow
    BY DEF TypeOK
  <2>2. task[t].next \in Occ \cup {None}
    BY <2>1 DEF TaskRow
  <2>. QED
    BY <2>1, <2>2, NextRunForType DEF TaskRow, TypeOK
<1>2. ASSUME NEW n \in Occ \cup {None}
      PROVE  /\ [task[t] EXCEPT !.next = n] \in TaskRow
             /\ [task[t] EXCEPT !.cancel = FALSE] \in TaskRow
  BY <1>1 DEF TaskRow
<1>3. ASSUME NEW k \in Keys, NEW kind \in Kind, NEW n \in Occ \cup {None}
      PROVE  NewRow(t, k, kind, n) \in RunRow
  BY DEF NewRow, RunRow, Status
<1>4. ASSUME NEW snap \in Keys \cup {None}, NEW w \in BOOLEAN,
             NEW phase \in Phase
      PROVE  [Idle EXCEPT !.phase = phase, !.watch = w, !.snap = snap]
               \in Coroutine
  BY DEF Idle, Coroutine
<1>5. CASE SkipNextTask(t, r)
  <2>. DEFINE new == [NoRow EXCEPT !.task = t, !.kind = "skip",
                        !.status = "skipped", !.planned = task[t].next]
  <2>1. new \in RunRow
    BY <1>1 DEF NoRow, RunRow, Kind, Status
  <2>2. row' \in [Runs -> RunRow]
    BY <1>5, <2>1 DEF SkipNextTask, TypeOK
  <2>3. task' \in [Tasks -> TaskRow]
    BY <1>1, <1>2, <1>5, WriteType DEF SkipNextTask
  <2>4. job' \in [Tasks -> Occ \cup {None}] /\ co' \in [Runs -> Coroutine]
    BY <1>5, <2>3, SyncType, BumpType DEF SkipNextTask
  <2>. QED
    BY <1>5, <2>2, <2>3, <2>4 DEF SkipNextTask, TypeOK, shared
<1>6. ASSUME NEW k \in Keys, NEW kind \in Kind, StartBackground(t, r, k, kind),
             task' \in [Tasks -> TaskRow]
      PROVE  TypeOK'
  <2>1. row' \in [Runs -> RunRow]
    BY <1>3, <1>6 DEF StartBackground, TypeOK
  <2>2. [Idle EXCEPT !.phase = "created", !.snap = task[t].draft] \in Coroutine
    BY <1>1 DEF Idle, Coroutine, Phase
  <2>. QED
    BY <1>6, <2>1, <2>2 DEF StartBackground, TypeOK, timers
<1>7. CASE StartManual(t, r)
  <2>1. task' \in [Tasks -> TaskRow]
    BY <1>2, <1>7 DEF StartManual, TypeOK
  <2>. QED
    BY <1>1, <1>6, <1>7, <2>1 DEF StartManual, Kind
<1>8. CASE \E k \in Keys : StartTest(t, r, k)
  BY <1>6, <1>8 DEF StartTest, Kind, TypeOK
<1>9. CASE SkipBusy(t, r)
  <2>. DEFINE new == [NewRow(t, task[t].version, "scheduled", task[t].next)
                        EXCEPT !.status = "skipped", !.shown = "skipped"]
  <2>1. task[t].version \in Keys
    BY <1>1, <1>9 DEF SkipBusy, Runnable
  <2>2. new \in RunRow
    BY <1>1, <2>1 DEF NewRow, RunRow, Status, Kind
  <2>3. row' \in [Runs -> RunRow]
    BY <1>9, <2>2 DEF SkipBusy, TypeOK
  <2>4. task' \in [Tasks -> TaskRow]
    BY <1>1, <1>2, <1>9 DEF SkipBusy, TypeOK
  <2>5. job' \in [Tasks -> Occ \cup {None}]
    BY <1>9, <2>4, SyncType DEF SkipBusy
  <2>6. [Idle EXCEPT !.phase = "skipping"] \in Coroutine
    BY DEF Idle, Coroutine, Phase
  <2>. QED
    BY <1>9, <2>3, <2>4, <2>5, <2>6 DEF SkipBusy, TypeOK
<1>10. CASE StartScheduled(t, r)
  <2>1. task[t].version \in Keys
    BY <1>1, <1>10 DEF StartScheduled, Runnable
  <2>2. row' \in [Runs -> RunRow]
    BY <1>1, <1>3, <1>10, <2>1 DEF StartScheduled, Kind, TypeOK
  <2>3. /\ [Idle EXCEPT !.phase = "acquiring", !.watch = TRUE,
                        !.snap = task[t].draft] \in Coroutine
        /\ [Idle EXCEPT !.phase = "waiting", !.snap = task[t].draft] \in Coroutine
    BY <1>1 DEF Idle, Coroutine, Phase, Holding
  <2>4. co' \in [Runs -> Coroutine]
    BY <1>10, <2>3 DEF StartScheduled, TypeOK
  <2>5. /\ task' \in [Tasks -> TaskRow]
        /\ lock' \in [Keys -> Runs \cup {None}]
        /\ running' \in [Tasks -> Runs \cup {None}]
    BY <1>2, <1>10 DEF StartScheduled, EnterRun, TypeOK
  <2>. QED
    BY <1>10, <2>2, <2>4, <2>5 DEF StartScheduled, TypeOK
<1>. QED
  BY <1>5, <1>7, <1>8, <1>9, <1>10

\* What a step of a run may write into its own coroutine.
LEMMA CoroutineUpdates ==
  ASSUME NEW c \in Coroutine, NEW phase \in Phase,
         NEW g \in {"no", "pending", "seen"}
  PROVE  /\ Idle \in Coroutine
         /\ [Idle EXCEPT !.phase = phase] \in Coroutine
         /\ [c EXCEPT !.sig = g] \in Coroutine
         /\ [c EXCEPT !.stale = TRUE] \in Coroutine
         /\ [c EXCEPT !.phase = phase] \in Coroutine
         /\ [c EXCEPT !.phase = phase, !.lease = TRUE] \in Coroutine
         /\ [c EXCEPT !.phase = phase, !.sig = g] \in Coroutine
         /\ [c EXCEPT !.watch = FALSE, !.sig = g] \in Coroutine
         /\ [c EXCEPT !.phase = phase, !.watch = FALSE, !.sig = g] \in Coroutine
         /\ [c EXCEPT !.phase = phase, !.watch = FALSE, !.lease = FALSE]
              \in Coroutine
         /\ [c EXCEPT !.phase = phase, !.watch = TRUE, !.stale = FALSE]
              \in Coroutine
BY DEF Coroutine, Idle, Phase

\* ... the steps of its coroutine ...
LEMMA RunStepType ==
  ASSUME TypeOK, RowsComplete, LiveRuns, NEW r \in Runs,
         \/ RunStep(r) \/ WatcherPoll(r) \/ ExecutorReturned(r) \/ FlagObserved(r)
  PROVE  TypeOK'
<1>. DEFINE Signals == {"no", "pending", "seen"}
<1>1. co[r] \in Coroutine /\ co[r].sig \in Signals /\ Delivered(r) \in Signals
  BY DEF TypeOK, Coroutine, Delivered
<1>2. /\ {"executing", "joining", "releasing", "acquiring", "waiting", "ended",
          "reporting", "handling"} \subseteq Phase
      /\ {"success", "failed", "canceled"} \subseteq Status
      /\ "skipping" \in Phase
  BY DEF Phase, Holding, Status
<1>3. Live(r) => row[r].task \in Tasks /\ row[r].key \in Keys
  BY LiveRow
<1>4. ASSUME NEW c \in Coroutine, co' = [co EXCEPT ![r] = c]
      PROVE  co' \in [Runs -> Coroutine]
  BY <1>4 DEF TypeOK
<1>5. CASE SkipNotified(r)
  BY <1>1, <1>2, <1>4, <1>5, CoroutineUpdates
     DEF SkipNotified, TypeOK, db, timers, shared
<1>6. ASSUME EnterRun(r, row[r].task, row[r].key), Live(r)
      PROVE  /\ task' \in [Tasks -> TaskRow]
             /\ lock' \in [Keys -> Runs \cup {None}]
             /\ running' \in [Tasks -> Runs \cup {None}]
  <2>1. \A old \in TaskRow : [old EXCEPT !.cancel = FALSE] \in TaskRow
    BY DEF TaskRow
  <2>. QED
    BY <1>3, <1>6, <2>1 DEF EnterRun, TypeOK
<1>7. CASE BeginBackground(r)
  <2>1. co' \in [Runs -> Coroutine]
    BY <1>1, <1>2, <1>4, <1>7, CoroutineUpdates DEF BeginBackground, Step
  <2>2. /\ task' \in [Tasks -> TaskRow]
        /\ lock' \in [Keys -> Runs \cup {None}]
        /\ running' \in [Tasks -> Runs \cup {None}]
    BY <1>6, <1>7 DEF BeginBackground, TypeOK, Live
  <2>. QED
    BY <1>7, <2>1, <2>2 DEF BeginBackground, TypeOK, timers
<1>8. CASE LockGranted(r)
  <2>1. co' \in [Runs -> Coroutine]
    BY <1>1, <1>2, <1>4, <1>8, CoroutineUpdates DEF LockGranted
  <2>. QED
    BY <1>6, <1>8, <2>1 DEF LockGranted, TypeOK, timers, Live
<1>9. CASE CancelledBeforeTry(r)
  <2>1. co' \in [Runs -> Coroutine]
    BY <1>1, <1>2, <1>4, <1>9, CoroutineUpdates DEF CancelledBeforeTry
  <2>. QED
    BY <1>9, <2>1 DEF CancelledBeforeTry, TypeOK, timers, db
<1>10. CASE ClientAcquired(r)
  <2>1. co' \in [Runs -> Coroutine]
    BY <1>1, <1>2, <1>4, <1>10, CoroutineUpdates DEF ClientAcquired
  <2>. QED
    BY <1>10, <2>1 DEF ClientAcquired, TypeOK, timers, db, shared
<1>11. CASE AcquireFailed(r)
  BY <1>2, <1>11, SettleType DEF AcquireFailed, Live
<1>12. CASE Interrupted(r)
  BY <1>2, <1>12, SettleType DEF Interrupted, Live
<1>13. CASE ExecutorReturned(r)
  BY <1>2, <1>13, SettleType DEF ExecutorReturned, Live
<1>14. CASE FlagObserved(r)
  BY <1>2, <1>14, SettleType DEF FlagObserved, Live
<1>15. CASE Notified(r)
  <2>1. co' \in [Runs -> Coroutine]
    BY <1>1, <1>2, <1>4, <1>15, CoroutineUpdates DEF Notified, Leave
  <2>. QED
    BY <1>15, <2>1 DEF Notified, TypeOK, timers, db, shared
<1>16. CASE ClientReleased(r)
  <2>1. co' \in [Runs -> Coroutine]
    BY <1>1, <1>2, <1>4, <1>16, CoroutineUpdates DEF ClientReleased
  <2>. QED
    BY <1>16, <2>1 DEF ClientReleased, TypeOK, timers, db, shared
<1>17. ASSUME Return(r)
       PROVE  /\ co' \in [Runs -> Coroutine]
              /\ lock' \in [Keys -> Runs \cup {None}]
              /\ reserved' \in SUBSET Keys
  <2>1. co' \in [Runs -> Coroutine]
    BY <1>1, <1>2, <1>4, <1>17, CoroutineUpdates DEF Return
  <2>. QED
    BY <1>17, <2>1 DEF Return, TypeOK
<1>18. CASE ReleaseInterrupted(r)
  BY <1>17, <1>18 DEF ReleaseInterrupted, TypeOK, timers, db
<1>19. CASE JoinWatcher(r)
  <2>1. \A old \in TaskRow : [old EXCEPT !.cancel = FALSE] \in TaskRow
    BY DEF TaskRow
  <2>2. task' \in [Tasks -> TaskRow] /\ running' \in [Tasks -> Runs \cup {None}]
    BY <1>3, <1>19, <2>1 DEF JoinWatcher, TypeOK, Live
  <2>. QED
    BY <1>17, <1>19, <2>2 DEF JoinWatcher, TypeOK, timers
<1>20. CASE Cleanup(r)
  <2>1. co' \in [Runs -> Coroutine]
    BY <1>1, <1>2, <1>4, <1>20, CoroutineUpdates DEF Cleanup
  <2>2. /\ row' \in [Runs -> RunRow]
        /\ task' \in [Tasks -> TaskRow]
        /\ job' \in [Tasks -> Occ \cup {None}]
    BY <1>2, <1>3, <1>20, FinalizedType, SettleTaskType DEF Cleanup, TypeOK, Live
  <2>3. running' \in [Tasks -> Runs \cup {None}]
    BY <1>20 DEF Cleanup, TypeOK
  <2>. QED
    BY <1>20, <2>1, <2>2, <2>3 DEF Cleanup, TypeOK
<1>21. CASE WatcherPoll(r)
  <2>1. co' \in [Runs -> Coroutine]
    BY <1>1, <1>2, <1>4, <1>21, CoroutineUpdates DEF WatcherPoll
  <2>. QED
    BY <1>21, <2>1 DEF WatcherPoll, TypeOK, timers, db, shared
<1>. QED
  BY <1>5, <1>7, <1>8, <1>9, <1>10, <1>11, <1>12, <1>13, <1>14, <1>15, <1>16,
     <1>18, <1>19, <1>20, <1>21 DEF RunStep

\* ... and what the process and the timers do.
LEMMA ProcessType ==
  ASSUME TypeOK,
         \/ Tick \/ Close \/ Stop \/ Crash \/ Start
         \/ \E r \in Runs : LoopCancel(r)
         \/ \E t \in Tasks : CancelTask(t) \/ Fire(t) \/ StaleCallback(t)
  PROVE  TypeOK'
<1>1. \A c \in Coroutine : Signalled(c) \in Coroutine
  BY DEF Signalled, Coroutine
<1>2. CASE Tick
  BY <1>2, ConstAssumption DEF Tick, TypeOK, db, timers, shared
<1>3. CASE Close
  BY <1>1, <1>3 DEF Close, TypeOK, db, shared
<1>4. ASSUME Forget PROVE TypeOK'
  <2>1. Idle \in Coroutine
    BY DEF Idle, Coroutine, Phase
  <2>. QED
    BY <1>4, <2>1 DEF Forget, TypeOK, db
<1>5. CASE Start
  <2>. DEFINE scheduled(t) == /\ task[t].enabled /\ ~task[t].archived
                              /\ task[t].version # None
              expired(t)   == task[t].next = None \/ task[t].next <= now
              fresh(t)     == IF expired(t) THEN NextRunFor(None) ELSE task[t].next
  <2>1. ASSUME NEW t \in Tasks
        PROVE  /\ task[t] \in TaskRow /\ task[t].next \in Occ \cup {None}
               /\ fresh(t) \in Occ \cup {None}
    <3>1. task[t] \in TaskRow
      BY DEF TypeOK
    <3>2. task[t].next \in Occ \cup {None}
      BY <3>1 DEF TaskRow
    <3>. QED
      BY <3>1, <3>2, NextRunForType DEF TypeOK
  <2>2. ASSUME NEW t \in Tasks
        PROVE  [task[t] EXCEPT !.next = fresh(t)] \in TaskRow
    <3>. HIDE DEF fresh
    <3>. QED
      BY <2>1 DEF TaskRow
  <2>3. /\ task' = [t \in Tasks |-> IF scheduled(t)
                                    THEN [task[t] EXCEPT !.next = fresh(t)]
                                    ELSE task[t]]
        /\ job' = [t \in Tasks |->
                     IF ~scheduled(t) THEN None
                     ELSE IF fresh(t) = None THEN task[t].next ELSE fresh(t)]
        /\ UNCHANGED <<now, row, cb, co, shared>>
        /\ up' = "up"
    BY <1>5 DEF Start
  <2>. HIDE DEF scheduled, fresh
  <2>. QED
    BY <2>1, <2>2, <2>3 DEF TypeOK, shared
<1>6. ASSUME NEW r \in Runs, LoopCancel(r) PROVE TypeOK'
  BY <1>1, <1>6 DEF LoopCancel, TypeOK, db, timers, shared
<1>7. ASSUME NEW t \in Tasks, CancelTask(t) PROVE TypeOK'
  <2>1. \A old \in TaskRow : [old EXCEPT !.cancel = TRUE] \in TaskRow
    BY DEF TaskRow
  <2>. QED
    BY <1>1, <1>7, <2>1 DEF CancelTask, TypeOK, timers, shared
<1>8. ASSUME NEW t \in Tasks, Fire(t) \/ StaleCallback(t) PROVE TypeOK'
  BY <1>8 DEF Fire, StaleCallback, TypeOK, db, shared
<1>. QED
  BY <1>2, <1>3, <1>4, <1>5, <1>6, <1>7, <1>8 DEF Stop, Crash

-----------------------------------------------------------------------------
(* Rows and coroutines *)

\* A step keeps the identity of every run in the history ...
RowsKept ==
  \A r \in Runs : row[r].status # None =>
    /\ row'[r].status # None
    /\ row'[r].task = row[r].task /\ row'[r].key = row[r].key
    /\ row'[r].kind = row[r].kind /\ row'[r].planned = row[r].planned

\* ... adds complete rows only, scheduled ones for due occurrences ...
RowsAdded ==
  \A r \in Runs : (row[r].status = None /\ row'[r].status # None) =>
    /\ row'[r].task \in Tasks
    /\ row'[r].kind # "skip" => row'[r].key \in Keys
    /\ row'[r].kind = "scheduled" => row'[r].planned \in 1 .. now

\* ... and brings coroutines to life for the rows it adds.
RunsStarted ==
  \A r \in Runs :
    /\ Live(r)' => \/ Live(r)
                   \/ /\ row[r].status = None /\ row'[r].status # None
                      /\ row'[r].kind # "skip"
    /\ co'[r].phase = "skipping" =>
         \/ co[r].phase = "skipping"
         \/ row[r].status = None /\ row'[r].kind = "scheduled"

RunFrame == RowsKept /\ RowsAdded /\ RunsStarted

\* A timer callback waits only for an occurrence that is due.
DueCallbacks == \A t \in Tasks : cb[t] # None => cb[t] <= now

\* A step that adds no row and no coroutine is framed.
LEMMA UnchangedRows ==
  ASSUME UNCHANGED row, \A r \in Runs : Live(r)' => Live(r),
         \A r \in Runs : co'[r].phase = "skipping" => co[r].phase = "skipping"
  PROVE  RunFrame
BY DEF RunFrame, RowsKept, RowsAdded, RunsStarted

\* So is one that records an outcome.
LEMMA FinalizedFrame ==
  ASSUME TypeOK, NEW r \in Runs, NEW status \in Status, row[r].status # None,
         row' = Finalized(r, status),
         \A s \in Runs : Live(s)' => Live(s),
         \A s \in Runs : co'[s].phase = "skipping" => co[s].phase = "skipping"
  PROVE  RunFrame
<1>. DEFINE shown == IF tracked[row[r].task] = r THEN status ELSE row[r].shown
<1>1. row' = [row EXCEPT ![r] = [@ EXCEPT !.status = status, !.shown = shown]]
  BY DEF Finalized
<1>2. row[r] \in RunRow /\ status # None
  BY ConstAssumption DEF TypeOK, Status
<1>. HIDE DEF shown
<1>3. RowsKept /\ RowsAdded
  BY <1>1, <1>2 DEF RowsKept, RowsAdded, TypeOK, RunRow
<1>. QED
  BY <1>3 DEF RunFrame, RunsStarted, RowsKept

Typed == TypeOK /\ RowsComplete /\ LiveRuns

\* The operations that add a run are framed.
LEMMA AddedFrame ==
  ASSUME TypeOK, DueCallbacks, NEW t \in Tasks, NEW r \in Runs,
         \/ SkipNextTask(t, r)
         \/ StartManual(t, r)
         \/ \E k \in Keys : StartTest(t, r, k)
         \/ SkipBusy(t, r)
         \/ StartScheduled(t, r)
  PROVE  RunFrame
<1>. DEFINE Same(s) == /\ row'[s] = row[s]
                       /\ Live(s)' = Live(s)
                       /\ co'[s].phase = "skipping" => co[s].phase = "skipping"
<1>1. ASSUME \A s \in Runs \ {r} : Same(s), row[r].status = None,
             row'[r].task = t,
             row'[r].kind # "skip" => row'[r].key \in Keys,
             row'[r].kind = "scheduled" => row'[r].planned \in 1 .. now,
             row'[r].status # None,
             Live(r)' => row'[r].kind # "skip" \/ Live(r),
             co'[r].phase = "skipping" =>
               co[r].phase = "skipping" \/ row'[r].kind = "scheduled"
      PROVE  RunFrame
  <2>1. RowsKept /\ RowsAdded
    BY <1>1 DEF RowsKept, RowsAdded
  <2>. QED
    BY <1>1, <2>1 DEF RunFrame, RunsStarted
<1>2. /\ "skipped" # None /\ "running" # None
      /\ task[t].version \in Keys \cup {None}
  BY ConstAssumption DEF TypeOK, Status, TaskRow
<1>3. CASE SkipNextTask(t, r)
  <2>1. /\ row[r].status = None
        /\ \A s \in Runs \ {r} : row'[s] = row[s]
        /\ row'[r].task = t /\ row'[r].kind = "skip"
        /\ row'[r].status # None
    BY <1>2, <1>3 DEF SkipNextTask, Unused, NoRow, TypeOK
  <2>2. \A s \in Runs : co'[s].phase = co[s].phase
    BY <1>3 DEF SkipNextTask, BumpRevision, TypeOK, Coroutine, Live
  <2>. QED
    BY <1>1, <2>1, <2>2 DEF Live
<1>4. ASSUME NEW k \in Keys, NEW kind \in {"manual", "test"},
             StartBackground(t, r, k, kind)
      PROVE  RunFrame
  <2>1. /\ row[r].status = None
        /\ \A s \in Runs \ {r} : row'[s] = row[s] /\ co'[s] = co[s]
        /\ row'[r].task = t /\ row'[r].kind = kind /\ row'[r].key = k
        /\ row'[r].status # None
        /\ co'[r].phase = "created"
    BY <1>2, <1>4 DEF StartBackground, Unused, NewRow, TypeOK, Idle
  <2>. QED
    BY <1>1, <2>1 DEF Live
<1>5. CASE StartManual(t, r)
  BY <1>2, <1>4, <1>5 DEF StartManual
<1>6. CASE \E k \in Keys : StartTest(t, r, k)
  BY <1>4, <1>6 DEF StartTest
<1>7. CASE SkipBusy(t, r)
  <2>1. task[t].next \in 1 .. now /\ task[t].version \in Keys
    BY <1>2, <1>7 DEF SkipBusy, Runnable, DueCallbacks, TypeOK, Occ
  <2>2. /\ row[r].status = None
        /\ \A s \in Runs \ {r} : row'[s] = row[s] /\ co'[s] = co[s]
        /\ row'[r].task = t /\ row'[r].kind = "scheduled"
        /\ row'[r].key = task[t].version /\ row'[r].planned = task[t].next
        /\ row'[r].status # None
    BY <1>2, <1>7 DEF SkipBusy, Unused, NewRow, TypeOK
  <2>. QED
    BY <1>1, <2>1, <2>2 DEF Live
<1>8. CASE StartScheduled(t, r)
  <2>1. task[t].next \in 1 .. now /\ task[t].version \in Keys
    BY <1>2, <1>8 DEF StartScheduled, Runnable, DueCallbacks, TypeOK, Occ
  <2>2. /\ row[r].status = None
        /\ \A s \in Runs \ {r} : row'[s] = row[s] /\ co'[s] = co[s]
        /\ row'[r].task = t /\ row'[r].kind = "scheduled"
        /\ row'[r].key = task[t].version /\ row'[r].planned = task[t].next
        /\ row'[r].status # None
    BY <1>2, <1>8 DEF StartScheduled, Unused, NewRow, TypeOK
  <2>. QED
    BY <1>1, <2>1, <2>2 DEF Live
<1>. QED
  BY <1>3, <1>5, <1>6, <1>7, <1>8

\* Settling a run is framed.
LEMMA SettleFrame ==
  ASSUME Typed, NEW r \in Runs, Live(r), NEW status \in Status,
         NEW phase \in {"handling", "reporting"}, Settle(r, status, phase)
  PROVE  RunFrame
<1>1. \A s \in Runs : /\ Live(s)' => Live(s)
                      /\ co'[s].phase = "skipping" => co[s].phase = "skipping"
  BY DEF Settle, Typed, TypeOK, Coroutine, Live
<1>2. row[r].status # None /\ row' = Finalized(r, status)
  BY DEF Settle, Typed, LiveRuns
<1>. QED
  BY <1>1, <1>2, FinalizedFrame DEF Typed

\* Every step of a run is framed.
LEMMA RunStepFrame ==
  ASSUME Typed, NEW r \in Runs,
         \/ RunStep(r) \/ WatcherPoll(r) \/ ExecutorReturned(r) \/ FlagObserved(r)
  PROVE  RunFrame
<1>. USE DEF Typed
<1>1. co[r] \in Coroutine /\ co \in [Runs -> Coroutine]
  BY DEF TypeOK
<1>2. {"success", "failed", "canceled"} \subseteq Status
  BY DEF Status
<1>3. ASSUME UNCHANGED row, NEW c, co' = [co EXCEPT ![r] = c],
             c.phase # "idle" => Live(r),
             c.phase = "skipping" => co[r].phase = "skipping"
      PROVE  RunFrame
  <2>1. \A s \in Runs : /\ Live(s)' => Live(s)
                        /\ co'[s].phase = "skipping" => co[s].phase = "skipping"
    BY <1>1, <1>3 DEF Live
  <2>. QED
    BY <1>3, <2>1, UnchangedRows
<1>4. CASE AcquireFailed(r)
  BY <1>2, <1>4, SettleFrame DEF AcquireFailed, Live
<1>5. CASE Interrupted(r)
  BY <1>2, <1>5, SettleFrame DEF Interrupted, Live
<1>6. CASE ExecutorReturned(r)
  BY <1>2, <1>6, SettleFrame DEF ExecutorReturned, Live
<1>7. CASE FlagObserved(r)
  BY <1>2, <1>7, SettleFrame DEF FlagObserved, Live
<1>8. CASE SkipNotified(r)
  BY <1>1, <1>3, <1>8 DEF SkipNotified, db, Idle
<1>9. CASE BeginBackground(r)
  BY <1>1, <1>3, <1>9 DEF BeginBackground, Step, Coroutine, Live
<1>10. CASE LockGranted(r)
  BY <1>1, <1>3, <1>10 DEF LockGranted, Coroutine, Live
<1>11. CASE CancelledBeforeTry(r)
  BY <1>1, <1>3, <1>11 DEF CancelledBeforeTry, db, Idle, Live
<1>12. CASE ClientAcquired(r)
  BY <1>1, <1>3, <1>12 DEF ClientAcquired, db, Coroutine, Live
<1>13. CASE Notified(r)
  BY <1>1, <1>3, <1>13 DEF Notified, Leave, db, Coroutine, Live
<1>14. CASE ClientReleased(r)
  BY <1>1, <1>3, <1>14 DEF ClientReleased, db, Coroutine, Live
<1>15. CASE ReleaseInterrupted(r)
  BY <1>1, <1>3, <1>15 DEF ReleaseInterrupted, Return, db, Idle, Live
<1>16. CASE JoinWatcher(r)
  BY <1>1, <1>3, <1>16 DEF JoinWatcher, Return, Idle, Live
<1>17. CASE Cleanup(r)
  <2>1. \A s \in Runs : /\ Live(s)' => Live(s)
                        /\ co'[s].phase = "skipping" => co[s].phase = "skipping"
    BY <1>1, <1>17 DEF Cleanup, Idle, Live
  <2>2. "running" # None
    BY ConstAssumption DEF Status
  <2>. QED
    BY <1>2, <1>17, <2>1, <2>2, FinalizedFrame, UnchangedRows DEF Cleanup
<1>18. CASE WatcherPoll(r)
  BY <1>1, <1>3, <1>18 DEF WatcherPoll, db, Coroutine, Live
<1>. QED
  BY <1>4, <1>5, <1>6, <1>7, <1>8, <1>9, <1>10, <1>11, <1>12, <1>13, <1>14,
     <1>15, <1>16, <1>17, <1>18 DEF RunStep

\* The remaining actions add no run and start no coroutine.
LEMMA OtherFrame ==
  ASSUME TypeOK,
         \/ \E t \in Tasks :
              \/ \E k \in Keys : CreateTask(t, k) \/ EditTask(t, k)
              \/ EnableTask(t) \/ PublishTask(t)
              \/ DisableTask(t) \/ ArchiveTask(t) \/ RestoreTask(t)
              \/ CancelTask(t) \/ Fire(t) \/ StaleCallback(t)
         \/ Tick \/ Close \/ Stop \/ Crash \/ Start
         \/ \E r \in Runs : LoopCancel(r)
  PROVE  RunFrame
<1>1. UNCHANGED row
  BY DEF CreateTask, EditTask, EnableTask, PublishTask, DisableTask, ArchiveTask,
         RestoreTask, CancelTask, Fire, StaleCallback, Tick, Close, Stop, Crash,
         Start, LoopCancel, Forget, db
<1>2. \A r \in Runs : co'[r].phase \in {co[r].phase, "idle"}
  <2>1. ASSUME NEW r \in Runs
        PROVE  /\ co[r] \in Coroutine
               /\ Signalled(co[r]).phase = co[r].phase
               /\ [co[r] EXCEPT !.stale = TRUE].phase = co[r].phase
    BY DEF TypeOK, Coroutine, Signalled
  <2>2. ASSUME NEW t \in Tasks, BumpRevision(t)
        PROVE  \A r \in Runs : co'[r].phase = co[r].phase
    BY <2>1, <2>2 DEF BumpRevision
  <2>3. ASSUME NEW t \in Tasks,
               \/ \E k \in Keys : CreateTask(t, k) \/ EditTask(t, k)
               \/ EnableTask(t) \/ PublishTask(t)
               \/ DisableTask(t) \/ ArchiveTask(t) \/ RestoreTask(t)
        PROVE  \A r \in Runs : co'[r].phase = co[r].phase
    BY <2>2, <2>3 DEF CreateTask, EditTask, EnableTask, PublishTask, DisableTask,
                      ArchiveTask, RestoreTask
  <2>4. ASSUME NEW t \in Tasks, CancelTask(t)
        PROVE  \A r \in Runs : co'[r].phase = co[r].phase
    BY <2>1, <2>4 DEF CancelTask
  <2>5. ASSUME NEW t \in Tasks, Fire(t) \/ StaleCallback(t)
        PROVE  UNCHANGED co
    BY <2>5 DEF Fire, StaleCallback
  <2>6. ASSUME Close PROVE \A r \in Runs : co'[r].phase = co[r].phase
    BY <2>1, <2>6 DEF Close
  <2>7. ASSUME NEW s \in Runs, LoopCancel(s)
        PROVE  \A r \in Runs : co'[r].phase = co[r].phase
    BY <2>1, <2>7 DEF LoopCancel, TypeOK
  <2>8. ASSUME Forget PROVE \A r \in Runs : co'[r].phase = "idle"
    BY <2>8 DEF Forget, Idle
  <2>9. ASSUME Tick \/ Start PROVE UNCHANGED co
    BY <2>9 DEF Tick, Start
  <2>. QED
    BY <2>3, <2>4, <2>5, <2>6, <2>7, <2>8, <2>9 DEF Stop, Crash
<1>. QED
  BY <1>1, <1>2, UnchangedRows DEF Live

\* Next without its guards on the environment's events: the actions, flat.
LEMMA NextActions ==
  ASSUME Next
  PROVE  \/ \E t \in Tasks, r \in Runs :
              \/ SkipNextTask(t, r)
              \/ StartManual(t, r)
              \/ \E k \in Keys : StartTest(t, r, k)
              \/ SkipBusy(t, r)
              \/ StartScheduled(t, r)
         \/ \E r \in Runs : \/ RunStep(r) \/ WatcherPoll(r)
                            \/ ExecutorReturned(r) \/ FlagObserved(r)
         \/ \E t \in Tasks :
              \/ \E k \in Keys : CreateTask(t, k) \/ EditTask(t, k)
              \/ EnableTask(t) \/ PublishTask(t)
              \/ DisableTask(t) \/ ArchiveTask(t) \/ RestoreTask(t)
         \/ \E t \in Tasks : CancelTask(t) \/ Fire(t) \/ StaleCallback(t)
         \/ Tick \/ Close \/ Stop \/ Crash \/ Start
         \/ \E r \in Runs : LoopCancel(r)
<1>1. CASE Tick \/ TimerStep
  BY <1>1 DEF TimerStep
<1>2. CASE AdminStep
  BY <1>2 DEF AdminStep
<1>3. CASE UserStep
  BY <1>3 DEF UserStep, UserRow
<1>4. CASE ProcessStep
  BY <1>4 DEF ProcessStep
<1>. QED
  BY <1>1, <1>2, <1>3, <1>4 DEF Next

\* Every step is framed.
LEMMA FrameStep ==
  ASSUME Typed, DueCallbacks, [Next]_vars
  PROVE  RunFrame
<1>1. CASE UNCHANGED vars
  BY <1>1, UnchangedRows DEF vars, Live
<1>2. CASE Next
  BY <1>2, NextActions, AddedFrame, RunStepFrame, OtherFrame DEF Typed
<1>. QED
  BY <1>1, <1>2

\* Types, complete rows and live runs are preserved together.
LEMMA TypedStep ==
  ASSUME Typed, DueCallbacks, [Next]_vars
  PROVE  Typed'
<1>1. TypeOK'
  <2>1. CASE UNCHANGED vars
    BY <2>1 DEF vars, Typed, TypeOK
  <2>2. CASE Next
    BY <2>2, NextActions, TaskAdminType, NewRunType, RunStepType, ProcessType
       DEF Typed
  <2>. QED
    BY <2>1, <2>2
<1>2. RunFrame
  BY FrameStep
<1>3. RowsComplete'
  BY <1>2 DEF RunFrame, RowsKept, RowsAdded, RowsComplete, Typed
<1>4. LiveRuns'
  BY <1>2 DEF RunFrame, RowsKept, RunsStarted, LiveRuns, Typed, Live
<1>. QED
  BY <1>1, <1>3, <1>4 DEF Typed


\* Time does not run backwards, and only the timer submits callbacks.
LEMMA CallbacksChange ==
  ASSUME TypeOK, [Next]_vars
  PROVE  /\ now' \in Nat /\ now <= now'
         /\ \A t \in Tasks :
              \/ cb'[t] \in {cb[t], None}
              \/ cb'[t] = job[t] /\ job[t] <= now
<1>. USE DEF timers, db, shared
<1>0. now \in Nat /\ now <= now /\ now <= now + 1
  BY DEF TypeOK
<1>1. CASE UNCHANGED vars
  BY <1>0, <1>1 DEF vars
<1>2. ASSUME NEW t \in Tasks, NEW r \in Runs,
             \/ SkipNextTask(t, r)
             \/ StartManual(t, r)
             \/ \E k \in Keys : StartTest(t, r, k)
      PROVE  UNCHANGED <<now, cb>>
  BY <1>2 DEF SkipNextTask, StartManual, StartTest, StartBackground
<1>3. ASSUME NEW t \in Tasks, NEW r \in Runs, SkipBusy(t, r) \/ StartScheduled(t, r)
      PROVE  UNCHANGED now /\ cb' = [cb EXCEPT ![t] = None]
  BY <1>3 DEF SkipBusy, StartScheduled
<1>4. ASSUME NEW r \in Runs,
             \/ RunStep(r) \/ WatcherPoll(r)
             \/ ExecutorReturned(r) \/ FlagObserved(r)
      PROVE  UNCHANGED <<now, cb>>
  <2>1. ASSUME SkipNotified(r) \/ BeginBackground(r) \/ LockGranted(r)
                 \/ CancelledBeforeTry(r) \/ ClientAcquired(r) \/ WatcherPoll(r)
        PROVE  UNCHANGED <<now, cb>>
    BY <2>1 DEF SkipNotified, BeginBackground, LockGranted, CancelledBeforeTry,
                ClientAcquired, WatcherPoll
  <2>2. ASSUME AcquireFailed(r) \/ Interrupted(r) \/ ExecutorReturned(r)
                 \/ FlagObserved(r)
        PROVE  UNCHANGED <<now, cb>>
    BY <2>2 DEF AcquireFailed, Interrupted, ExecutorReturned, FlagObserved, Settle
  <2>3. ASSUME Notified(r) \/ ClientReleased(r) \/ ReleaseInterrupted(r)
                 \/ JoinWatcher(r) \/ Cleanup(r)
        PROVE  UNCHANGED <<now, cb>>
    BY <2>3 DEF Notified, ClientReleased, ReleaseInterrupted, JoinWatcher, Cleanup
  <2>. QED
    BY <1>4, <2>1, <2>2, <2>3 DEF RunStep
<1>5. ASSUME NEW t \in Tasks,
             \/ \E k \in Keys : CreateTask(t, k) \/ EditTask(t, k)
             \/ EnableTask(t) \/ PublishTask(t)
             \/ DisableTask(t) \/ ArchiveTask(t) \/ RestoreTask(t)
             \/ CancelTask(t)
      PROVE  UNCHANGED <<now, cb>>
  BY <1>5 DEF CreateTask, EditTask, EnableTask, PublishTask, DisableTask,
              ArchiveTask, RestoreTask, CancelTask
<1>6. ASSUME NEW t \in Tasks, Fire(t) \/ StaleCallback(t)
      PROVE  /\ UNCHANGED now
             /\ \A s \in Tasks : \/ cb'[s] \in {cb[s], None}
                                 \/ cb'[s] = job[s] /\ job[s] <= now
  BY <1>6 DEF Fire, StaleCallback, TypeOK
<1>7. CASE Tick
  BY <1>0, <1>7 DEF Tick
<1>8. ASSUME Close \/ Stop \/ Crash
      PROVE  UNCHANGED now /\ cb' = [t \in Tasks |-> None]
  BY <1>8 DEF Close, Stop, Crash, Forget
<1>9. ASSUME Start \/ \E r \in Runs : LoopCancel(r)
      PROVE  UNCHANGED <<now, cb>>
  BY <1>9 DEF Start, LoopCancel
<1>10. CASE \E t \in Tasks, r \in Runs : SkipBusy(t, r) \/ StartScheduled(t, r)
  BY <1>0, <1>3, <1>10 DEF TypeOK
<1>11. CASE UNCHANGED <<now, cb>>
  BY <1>0, <1>11
<1>12. CASE Close \/ Stop \/ Crash
  BY <1>0, <1>8, <1>12
<1>13. CASE \E t \in Tasks : Fire(t) \/ StaleCallback(t)
  BY <1>0, <1>6, <1>13
<1>14. ASSUME Next
       PROVE  \/ UNCHANGED <<now, cb>>
              \/ Tick
              \/ Close \/ Stop \/ Crash
              \/ \E t \in Tasks : Fire(t) \/ StaleCallback(t)
              \/ \E t \in Tasks, r \in Runs : SkipBusy(t, r) \/ StartScheduled(t, r)
  BY <1>2, <1>4, <1>5, <1>9, <1>14, NextActions
<1>. QED
  BY <1>1, <1>7, <1>10, <1>11, <1>12, <1>13, <1>14

\* A submitted callback stays due.
LEMMA CallbacksStep ==
  ASSUME TypeOK, DueCallbacks, [Next]_vars
  PROVE  DueCallbacks'
BY CallbacksChange DEF DueCallbacks, TypeOK, Occ

\* Every variable keeps its type: TypeOK with what it needs of rows,
\* coroutines and callbacks is inductive.
THEOREM Typing == Spec => [](Typed /\ DueCallbacks)
<1>1. Init => Typed /\ DueCallbacks
  <2>1. ASSUME Init PROVE TypeOK
    BY <2>1, ConstAssumption
       DEF Init, TypeOK, NoTask, NoRow, Idle, TaskRow, RunRow, Coroutine, Phase,
           Holding, Kind, Status, Occ
  <2>. QED
    BY <2>1 DEF Init, Typed, RowsComplete, LiveRuns, DueCallbacks, NoRow, Idle, Live
<1>2. Typed /\ DueCallbacks /\ [Next]_vars => (Typed /\ DueCallbacks)'
  BY TypedStep, CallbacksStep DEF Typed
<1>. QED
  BY <1>1, <1>2, PTL DEF Spec

\* Every variable has its type, for any tasks, keys, runs and occurrences.
THEOREM TypeCorrect == Spec => []TypeOK
BY Typing, PTL DEF Typed

\* No occurrence is run before it is due, whatever skips, edits, restarts and
\* late callbacks do.
THEOREM NoEarlyRun == Spec => []NeverEarly
<1>1. Init => NeverEarly
  BY DEF Init, NeverEarly, NoRow
<1>2. Typed /\ DueCallbacks /\ NeverEarly /\ [Next]_vars => NeverEarly'
  <2>. SUFFICES ASSUME Typed, DueCallbacks, NeverEarly, [Next]_vars,
                       NEW r \in Runs, row'[r].status # None,
                       row'[r].kind = "scheduled"
                PROVE  row'[r].planned \in 1 .. now'
    BY DEF NeverEarly
  <2>1. now \in Nat /\ now' \in Nat /\ now <= now'
    BY CallbacksChange DEF Typed, TypeOK
  <2>2. row'[r].planned \in 1 .. now
    BY FrameStep DEF RunFrame, RowsKept, RowsAdded, NeverEarly
  <2>. QED
    BY <2>1, <2>2
<1>. QED
  BY <1>1, <1>2, Typing, PTL DEF Spec

-----------------------------------------------------------------------------
(* Locks and reservations *)

\* A run between taking and releasing a key's lock is the lock's owner.
LockOwner ==
  \A r \in Runs : co[r].phase \in Holding => lock[row[r].key] = r

\* How a step can touch the keys: not at all, ...
KeysUntouched ==
  /\ UNCHANGED <<lock, reserved>>
  /\ \A s \in Runs : /\ Live(s) => Live(s)'
                     /\ co'[s].phase \in Holding => co[s].phase \in Holding

\* ... or a skipped occurrence's coroutine ends, ...
SkipEnds(r) ==
  /\ UNCHANGED <<lock, reserved>>
  /\ co[r].phase = "skipping" /\ co' = [co EXCEPT ![r] = Idle]

\* ... or run r takes the free lock of its key, ...
TakesLock(r) ==
  /\ row'[r].key \in Keys
  /\ lock[row'[r].key] = None
  /\ lock' = [lock EXCEPT ![row'[r].key] = r]
  /\ UNCHANGED reserved
  /\ Live(r)'
  /\ \A s \in Runs \ {r} : co'[s] = co[s]

\* ... or it leaves the lock, or ends before having it.
ReleasesKey(r) ==
  \/ co[r].phase \in Holding /\ Return(r)
  \/ CancelledBeforeTry(r)
  \/ Cleanup(r)

KeyMoves ==
  \/ KeysUntouched
  \/ \E r \in Runs : SkipEnds(r) \/ TakesLock(r) \/ ReleasesKey(r)
  \/ \E t \in Tasks, r \in Runs, k \in Keys, kind \in {"manual", "test"} :
       StartBackground(t, r, k, kind)
  \/ Forget

\* How the operations that add a run touch the keys.
LEMMA AddedKeyMoves ==
  ASSUME Typed, NEW t \in Tasks, NEW r \in Runs,
         \/ SkipNextTask(t, r)
         \/ StartManual(t, r)
         \/ \E k \in Keys : StartTest(t, r, k)
         \/ SkipBusy(t, r)
         \/ StartScheduled(t, r)
  PROVE  KeyMoves
<1>. USE DEF Typed
<1>1. task[t].version \in Keys \cup {None}
  BY DEF TypeOK, TaskRow
<1>2. Unused(r) => ~Live(r)
  BY DEF LiveRuns, Unused
<1>3. CASE SkipNextTask(t, r)
  <2>1. \A s \in Runs : co'[s].phase = co[s].phase
    BY <1>3 DEF SkipNextTask, BumpRevision, TypeOK, Coroutine, Live
  <2>. QED
    BY <1>3, <2>1 DEF SkipNextTask, KeyMoves, KeysUntouched, shared, Live
<1>4. CASE StartManual(t, r)
  BY <1>1, <1>4 DEF StartManual, KeyMoves
<1>5. CASE \E k \in Keys : StartTest(t, r, k)
  BY <1>5 DEF StartTest, KeyMoves
<1>6. CASE SkipBusy(t, r)
  <2>1. co' = [co EXCEPT ![r] = [Idle EXCEPT !.phase = "skipping"]]
    BY <1>6 DEF SkipBusy
  <2>2. co'[r].phase = "skipping" /\ \A s \in Runs \ {r} : co'[s] = co[s]
    BY <2>1 DEF TypeOK, Idle
  <2>. QED
    BY <1>6, <2>2 DEF SkipBusy, KeyMoves, KeysUntouched, Live, Holding
<1>7. CASE StartScheduled(t, r)
  <2>1. task[t].version \in Keys
    BY <1>1, <1>7 DEF StartScheduled, Runnable
  <2>2. row'[r].key = task[t].version
    BY <1>7 DEF StartScheduled, NewRow, TypeOK
  <2>3. CASE LockFree(task[t].version)
    <3>. DEFINE new == [Idle EXCEPT !.phase = "acquiring", !.watch = TRUE,
                                    !.snap = task[t].draft]
    <3>0. co' = [co EXCEPT ![r] = new] /\ new.phase = "acquiring"
      BY <1>7, <2>3 DEF StartScheduled, Idle
    <3>1. co'[r].phase = "acquiring" /\ \A s \in Runs \ {r} : co'[s] = co[s]
      BY <3>0 DEF TypeOK
    <3>2. TakesLock(r)
      BY <1>7, <2>1, <2>2, <2>3, <3>1
         DEF StartScheduled, EnterRun, LockFree, TakesLock, Live
    <3>. QED
      BY <3>2 DEF KeyMoves
  <2>4. CASE ~LockFree(task[t].version)
    <3>. DEFINE new == [Idle EXCEPT !.phase = "waiting", !.snap = task[t].draft]
    <3>0. co' = [co EXCEPT ![r] = new] /\ new.phase = "waiting"
      BY <1>7, <2>4 DEF StartScheduled, Idle
    <3>1. co'[r].phase = "waiting" /\ \A s \in Runs \ {r} : co'[s] = co[s]
      BY <3>0 DEF TypeOK
    <3>. QED
      BY <1>7, <2>4, <3>1 DEF StartScheduled, KeyMoves, KeysUntouched, Live, Holding
  <2>. QED
    BY <2>3, <2>4
<1>. QED
  BY <1>3, <1>4, <1>5, <1>6, <1>7

\* How the steps of a run touch the keys.
LEMMA RunKeyMoves ==
  ASSUME Typed, NEW r \in Runs,
         \/ RunStep(r) \/ WatcherPoll(r) \/ ExecutorReturned(r) \/ FlagObserved(r)
  PROVE  KeyMoves
<1>. USE DEF Typed
<1>1. co[r] \in Coroutine /\ co \in [Runs -> Coroutine]
  BY DEF TypeOK
<1>2. Live(r) => row[r].key \in Keys
  BY LiveRow
<1>3. ASSUME UNCHANGED <<lock, reserved>>, NEW c, co' = [co EXCEPT ![r] = c],
             Live(r) => c.phase # "idle",
             c.phase \in Holding => co[r].phase \in Holding
      PROVE  KeyMoves
  BY <1>1, <1>3 DEF KeyMoves, KeysUntouched, Live
<1>4. ASSUME NEW status, NEW phase \in {"handling", "reporting"},
             Settle(r, status, phase), co[r].phase \in Holding
      PROVE  KeyMoves
  <2>1. phase # "idle" /\ phase \in Holding
    BY DEF Holding
  <2>. QED
    BY <1>1, <1>3, <1>4, <2>1 DEF Settle, shared, Coroutine
<1>5. {"acquiring", "executing", "reporting", "handling", "releasing", "joining"}
        \subseteq Holding
  BY DEF Holding
<1>6. CASE AcquireFailed(r)
  BY <1>4, <1>5, <1>6 DEF AcquireFailed
<1>7. CASE Interrupted(r)
  BY <1>4, <1>5, <1>7 DEF Interrupted
<1>8. CASE ExecutorReturned(r)
  BY <1>4, <1>5, <1>8 DEF ExecutorReturned
<1>9. CASE FlagObserved(r)
  BY <1>4, <1>5, <1>9 DEF FlagObserved
<1>10. CASE SkipNotified(r)
  BY <1>10 DEF SkipNotified, KeyMoves, SkipEnds, shared
<1>11. CASE (BeginBackground(r) /\ LockFree(row[r].key)) \/ LockGranted(r)
  <2>. DEFINE new == [co[r] EXCEPT !.phase = "acquiring", !.watch = TRUE,
                                   !.stale = FALSE]
  <2>1. /\ lock[row[r].key] = None /\ Live(r) /\ UNCHANGED <<row, reserved>>
        /\ lock' = [lock EXCEPT ![row[r].key] = r]
        /\ co' = [co EXCEPT ![r] = new]
    BY <1>11 DEF BeginBackground, LockGranted, LockFree, EnterRun, Live
  <2>2. new.phase = "acquiring"
    BY <1>1 DEF Coroutine
  <2>3. Live(r)' /\ \A s \in Runs \ {r} : co'[s] = co[s]
    BY <1>1, <2>1, <2>2 DEF Live
  <2>. QED
    BY <1>2, <2>1, <2>3 DEF KeyMoves, TakesLock
<1>12. CASE BeginBackground(r) /\ ~LockFree(row[r].key)
  BY <1>1, <1>3, <1>12 DEF BeginBackground, Step, Coroutine, Holding
<1>13. CASE CancelledBeforeTry(r) \/ Cleanup(r)
  BY <1>13 DEF KeyMoves, ReleasesKey
<1>14. CASE ClientAcquired(r)
  BY <1>1, <1>3, <1>5, <1>14 DEF ClientAcquired, Coroutine, shared
<1>15. CASE Notified(r)
  BY <1>1, <1>3, <1>5, <1>15 DEF Notified, Leave, Coroutine, shared
<1>16. CASE ClientReleased(r)
  BY <1>1, <1>3, <1>5, <1>16 DEF ClientReleased, Coroutine, shared
<1>17. CASE ReleaseInterrupted(r) \/ JoinWatcher(r)
  BY <1>5, <1>17 DEF ReleaseInterrupted, JoinWatcher, KeyMoves, ReleasesKey
<1>18. CASE WatcherPoll(r)
  BY <1>1, <1>3, <1>18 DEF WatcherPoll, Coroutine, shared, Live
<1>. QED
  BY <1>6, <1>7, <1>8, <1>9, <1>10, <1>11, <1>12, <1>13, <1>14, <1>15, <1>16,
     <1>17, <1>18 DEF RunStep

\* The remaining actions leave the keys alone.
LEMMA OtherKeyMoves ==
  ASSUME Typed,
         \/ \E t \in Tasks :
              \/ \E k \in Keys : CreateTask(t, k) \/ EditTask(t, k)
              \/ EnableTask(t) \/ PublishTask(t)
              \/ DisableTask(t) \/ ArchiveTask(t) \/ RestoreTask(t)
              \/ CancelTask(t) \/ Fire(t) \/ StaleCallback(t)
         \/ Tick \/ Close \/ Start
         \/ \E r \in Runs : LoopCancel(r)
  PROVE  KeyMoves
<1>. USE DEF Typed
<1>1. UNCHANGED <<lock, reserved>>
  BY DEF CreateTask, EditTask, EnableTask, PublishTask, DisableTask, ArchiveTask,
         RestoreTask, CancelTask, Fire, StaleCallback, Tick, Close, Start,
         LoopCancel, shared
<1>2. ASSUME NEW r \in Runs
      PROVE  /\ Signalled(co[r]).phase = co[r].phase
             /\ [co[r] EXCEPT !.stale = TRUE].phase = co[r].phase
  BY DEF TypeOK, Coroutine, Signalled
<1>3. ASSUME NEW t \in Tasks, BumpRevision(t)
      PROVE  \A r \in Runs : co'[r].phase = co[r].phase
  BY <1>2, <1>3 DEF BumpRevision
<1>4. ASSUME NEW t \in Tasks,
             \/ \E k \in Keys : CreateTask(t, k) \/ EditTask(t, k)
             \/ EnableTask(t) \/ PublishTask(t)
             \/ DisableTask(t) \/ ArchiveTask(t) \/ RestoreTask(t)
      PROVE  \A r \in Runs : co'[r].phase = co[r].phase
  BY <1>3, <1>4 DEF CreateTask, EditTask, EnableTask, PublishTask, DisableTask,
                    ArchiveTask, RestoreTask
<1>5. ASSUME NEW t \in Tasks, CancelTask(t)
      PROVE  \A r \in Runs : co'[r].phase = co[r].phase
  BY <1>2, <1>5 DEF CancelTask
<1>6. ASSUME NEW t \in Tasks, Fire(t) \/ StaleCallback(t)
      PROVE  UNCHANGED co
  BY <1>6 DEF Fire, StaleCallback
<1>7. ASSUME Close PROVE \A r \in Runs : co'[r].phase = co[r].phase
  BY <1>2, <1>7 DEF Close
<1>8. ASSUME NEW s \in Runs, LoopCancel(s)
      PROVE  \A r \in Runs : co'[r].phase = co[r].phase
  BY <1>2, <1>8 DEF LoopCancel, TypeOK
<1>9. ASSUME Tick \/ Start PROVE UNCHANGED co
  BY <1>9 DEF Tick, Start
<1>10. \A r \in Runs : co'[r].phase = co[r].phase
  BY <1>4, <1>5, <1>6, <1>7, <1>8, <1>9
<1>. QED
  BY <1>1, <1>10 DEF KeyMoves, KeysUntouched, Live

\* Every step is one of the key moves.
LEMMA KeyMovesStep ==
  ASSUME Typed, [Next]_vars
  PROVE  KeyMoves
<1>1. CASE UNCHANGED vars
  BY <1>1 DEF vars, KeyMoves, KeysUntouched, Live
<1>2. CASE Next
  <2>1. ASSUME Stop \/ Crash PROVE KeyMoves
    BY <2>1 DEF Stop, Crash, KeyMoves
  <2>. QED
    BY <1>2, <2>1, NextActions, AddedKeyMoves, RunKeyMoves, OtherKeyMoves
<1>. QED
  BY <1>1, <1>2

\* LockOwner is inductive.
LEMMA LockOwnerStep ==
  ASSUME Typed, DueCallbacks, LockOwner, [Next]_vars
  PROVE  LockOwner'
<1>. USE DEF LockOwner
<1>1. RowsKept
  BY FrameStep DEF RunFrame
<1>2. ASSUME NEW s \in Runs, co[s].phase \in Holding
      PROVE  /\ row[s].key \in Keys /\ row'[s].key = row[s].key
             /\ lock[row[s].key] = s
  <2>1. Live(s)
    BY <1>2 DEF Live, Holding
  <2>. QED
    BY <1>1, <1>2, <2>1, LiveRow DEF RowsKept, LiveRuns, Typed
<1>3. CASE KeysUntouched
  BY <1>2, <1>3 DEF KeysUntouched
<1>4. ASSUME NEW r \in Runs, SkipEnds(r) PROVE LockOwner'
  BY <1>2, <1>4 DEF SkipEnds, Typed, TypeOK, Idle, Holding
<1>5. ASSUME NEW r \in Runs, TakesLock(r) PROVE LockOwner'
  <2>. SUFFICES ASSUME NEW s \in Runs, co'[s].phase \in Holding
                PROVE  lock'[row'[s].key] = s
    OBVIOUS
  <2>1. CASE s = r
    BY <1>5, <2>1 DEF TakesLock, Typed, TypeOK
  <2>2. CASE s # r
    BY <1>2, <1>5, <2>2, ConstAssumption DEF TakesLock, Typed, TypeOK
  <2>. QED
    BY <2>1, <2>2
<1>6. ASSUME NEW r \in Runs, co[r].phase \in Holding, Return(r) PROVE LockOwner'
  <2>1. co'[r].phase \notin Holding /\ \A s \in Runs \ {r} : co'[s] = co[s]
    BY <1>6 DEF Return, Typed, TypeOK, Idle, Holding
  <2>. QED
    BY <1>2, <1>6, <2>1 DEF Return, Typed, TypeOK
<1>7. ASSUME NEW r \in Runs, CancelledBeforeTry(r) \/ Cleanup(r) PROVE LockOwner'
  <2>1. co'[r].phase \notin Holding /\ \A s \in Runs \ {r} : co'[s] = co[s]
    BY <1>7 DEF CancelledBeforeTry, Cleanup, Typed, TypeOK, Idle, Holding
  <2>. QED
    BY <1>2, <1>7, <2>1 DEF CancelledBeforeTry, Cleanup
<1>8. ASSUME NEW t \in Tasks, NEW r \in Runs, NEW k \in Keys,
             NEW kind \in {"manual", "test"}, StartBackground(t, r, k, kind)
      PROVE  LockOwner'
  <2>1. co'[r].phase \notin Holding /\ \A s \in Runs \ {r} : co'[s] = co[s]
    BY <1>8 DEF StartBackground, Typed, TypeOK, Idle, Holding
  <2>. QED
    BY <1>2, <1>8, <2>1 DEF StartBackground
<1>9. CASE Forget
  BY <1>9 DEF Forget, Idle, Holding
<1>. QED
  BY <1>3, <1>4, <1>5, <1>6, <1>7, <1>8, <1>9, KeyMovesStep DEF KeyMoves, ReleasesKey

\* Runs of one account and target are serial: the lock has one owner.
THEOREM SerialRuns == Spec => []MutualExclusion
<1>1. Init => LockOwner
  BY DEF Init, LockOwner, Idle, Holding
<1>2. LockOwner /\ Typed /\ DueCallbacks /\ [Next]_vars => LockOwner'
  BY LockOwnerStep
<1>3. LockOwner => MutualExclusion
  BY DEF LockOwner, MutualExclusion
<1>. QED
  BY <1>1, <1>2, <1>3, Typing, PTL DEF Spec

\* However a manual or test run ends, its reservation goes with it.
THEOREM ReservationsEnd == Spec => []NoLeakedReservation
<1>1. Init => NoLeakedReservation
  BY DEF Init, NoLeakedReservation
<1>2. Typed /\ DueCallbacks /\ NoLeakedReservation /\ [Next]_vars
        => NoLeakedReservation'
  <2>. SUFFICES ASSUME Typed, DueCallbacks, NoLeakedReservation, [Next]_vars
                PROVE  NoLeakedReservation'
    OBVIOUS
  <2>1. RowsKept
    BY FrameStep DEF RunFrame
  <2>. DEFINE Holds(s, k) == Live(s) /\ Background(s) /\ row[s].key = k
              Kept(s) == Live(s) /\ Background(s) => Live(s)'
  <2>2. ASSUME NEW s \in Runs, NEW k, Holds(s, k), Live(s)'
        PROVE  Holds(s, k)'
    BY <2>1, <2>2 DEF RowsKept, Background, Typed, LiveRuns
  <2>3. ASSUME \A s \in Runs : Kept(s), reserved' \subseteq reserved
        PROVE  NoLeakedReservation'
    BY <2>2, <2>3 DEF NoLeakedReservation
  <2>4. CASE KeysUntouched
    BY <2>3, <2>4 DEF KeysUntouched
  <2>5. ASSUME NEW r \in Runs, SkipEnds(r) PROVE NoLeakedReservation'
    <3>1. ~Background(r)
      BY <2>5 DEF SkipEnds, Background, Typed, LiveRuns
    <3>. QED
      BY <2>3, <2>5, <3>1 DEF SkipEnds, Typed, TypeOK, Live
  <2>6. ASSUME NEW r \in Runs, TakesLock(r) PROVE NoLeakedReservation'
    BY <2>3, <2>6 DEF TakesLock, Live
  <2>7. ASSUME NEW r \in Runs, Return(r) \/ CancelledBeforeTry(r)
        PROVE  NoLeakedReservation'
    <3>1. Background(r) => co'[r].phase = "ended"
      BY <2>7 DEF Return, CancelledBeforeTry, Typed, TypeOK, Idle
    <3>2. \A s \in Runs \ {r} : co'[s] = co[s]
      BY <2>7 DEF Return, CancelledBeforeTry, Typed, TypeOK
    <3>3. \A s \in Runs : Kept(s)
      BY <3>1, <3>2 DEF Live
    <3>4. reserved' \subseteq reserved
      BY <2>7 DEF Return, CancelledBeforeTry
    <3>. QED
      BY <2>3, <3>3, <3>4
  <2>8. ASSUME NEW r \in Runs, Cleanup(r) PROVE NoLeakedReservation'
    <3>1. \A s \in Runs \ {r} : co'[s] = co[s]
      BY <2>8 DEF Cleanup, Typed, TypeOK
    <3>2. reserved' = reserved \ {row[r].key}
      BY <2>8 DEF Cleanup
    <3>. SUFFICES ASSUME NEW k \in reserved \ {row[r].key}
                  PROVE  \E s \in Runs : Holds(s, k)'
      BY <3>2 DEF NoLeakedReservation
    <3>3. PICK s \in Runs : Holds(s, k)
      BY DEF NoLeakedReservation
    <3>4. s # r
      BY <3>3
    <3>. QED
      BY <2>2, <3>1, <3>3, <3>4 DEF Live
  <2>9. ASSUME NEW t \in Tasks, NEW r \in Runs, NEW k \in Keys,
               NEW kind \in {"manual", "test"}, StartBackground(t, r, k, kind)
        PROVE  NoLeakedReservation'
    <3>1. /\ row'[r].key = k /\ row'[r].kind = kind /\ co'[r].phase = "created"
          /\ \A s \in Runs \ {r} : co'[s] = co[s]
          /\ reserved' = reserved \cup {k}
      BY <2>9 DEF StartBackground, NewRow, Typed, TypeOK, Idle
    <3>2. Holds(r, k)' /\ \A s \in Runs : Kept(s)
      BY <3>1 DEF Background, Live
    <3>. QED
      BY <2>2, <3>1, <3>2 DEF NoLeakedReservation
  <2>10. CASE Forget
    BY <2>10 DEF Forget, NoLeakedReservation
  <2>. QED
    BY <2>4, <2>5, <2>6, <2>7, <2>8, <2>9, <2>10, KeyMovesStep DEF KeyMoves, ReleasesKey
<1>. QED
  BY <1>1, <1>2, Typing, PTL DEF Spec
=============================================================================
