---------------------------- MODULE RunLifecycle ----------------------------
(***************************************************************************)
(* RunCoordinator with the APScheduler callback that enters it, and the    *)
(* progress tracker's run registry.  An action is the code a coroutine     *)
(* runs between two awaits.  While a cancellation is pending               *)
(* (sig = "pending") the coroutine's next step raises CancelledError, so   *)
(* only the Interrupted actions can take it.                               *)
(***************************************************************************)
EXTENDS CheckinState

Background(r) == row[r].kind \in {"manual", "test"}

\* add_run followed by _initialize_run_progress.
NewRow(t, k, kind, planned) ==
  [task |-> t, key |-> k, kind |-> kind, status |-> "running",
   planned |-> planned, shown |-> "running"]

\* update_run followed by _finalize_run_progress, which leaves the stored
\* progress alone when the tracker has moved on to another run of the task.
Finalized(r, status) ==
  LET shown == IF tracked[row[r].task] = r THEN status ELSE row[r].shown
  IN  [row EXCEPT ![r] = [@ EXCEPT !.status = status, !.shown = shown]]

Step(r, phase) == co' = [co EXCEPT ![r] = [@ EXCEPT !.phase = phase]]

\* Mutant: the revision read under the lock is not compared.
RowAfterRunUnchecked(r) ==
  LET t == row[r].task
  IN  IF row[r].kind = "scheduled" /\ task[t].enabled /\ ~task[t].archived
      THEN [task[t] EXCEPT !.next = NextRunFor(@)]
      ELSE task[t]

\* Mutant: the trigger is not looked at.
RowAfterAnyRun(r) ==
  LET t == row[r].task
  IN  IF /\ task[t].enabled /\ ~task[t].archived
         /\ ~co[r].stale
         /\ co[r].snap = task[t].draft
      THEN [task[t] EXCEPT !.next = NextRunFor(@)]
      ELSE task[t]

\* The task row _update_after_run writes for run r.
RowAfterRun(r) ==
  LET t == row[r].task
  IN  IF /\ row[r].kind = "scheduled"
         /\ task[t].enabled /\ ~task[t].archived
         /\ ~co[r].stale
         /\ co[r].snap = task[t].draft
      THEN [task[t] EXCEPT !.next = NextRunFor(@)]
      ELSE task[t]

\* Mutant: the timer is not brought in line after a run.
UpdateAfterRunUnsynced(r) ==
  /\ task' = [task EXCEPT ![row[r].task] = RowAfterRun(r)]
  /\ UNCHANGED job

\* _update_after_run: history, maybe the next occurrence, then the timer.
UpdateAfterRun(r) ==
  LET t == row[r].task
  IN  /\ task' = [task EXCEPT ![t] = RowAfterRun(r)]
      /\ SyncSchedule(t)

\* Test runs are started with update_task_state=False.
SettleTask(r) ==
  IF row[r].kind = "test" THEN UNCHANGED <<task, job>> ELSE UpdateAfterRun(r)

-----------------------------------------------------------------------------
(* APScheduler and the scheduled callback *)

\* APScheduler runs one instance of a job id at a time (max_instances = 1).
InstanceBusy(t) ==
  \/ cb[t] # None
  \/ \E r \in Runs : row[r].task = t /\ row[r].kind = "scheduled" /\ Live(r)

\* The timer's wake-up: a due job leaves the store; it is submitted unless an
\* instance of it is still running.
Fire(t) ==
  /\ up = "up"
  /\ job[t] # None /\ job[t] <= now
  /\ job' = [job EXCEPT ![t] = None]
  /\ cb' = IF InstanceBusy(t) THEN cb ELSE [cb EXCEPT ![t] = job[t]]
  /\ UNCHANGED <<now, up, db, co, shared>>

\* _scheduled_run drops a callback whose occurrence is no longer the task's.
StaleCallback(t) ==
  /\ cb[t] # None
  /\ task[t].next # cb[t]
  /\ cb' = [cb EXCEPT ![t] = None]
  /\ UNCHANGED <<now, up, db, job, co, shared>>

\* Mutant: the occurrence of the callback is not compared with the task's.
RunnableUnchecked(t) ==
  /\ cb[t] # None
  /\ task[t].next # None
  /\ task[t].enabled /\ ~task[t].archived
  /\ task[t].version # None

\* run_task may go on: the callback's occurrence is the task's.
Runnable(t) ==
  /\ cb[t] # None
  /\ task[t].next = cb[t]
  /\ task[t].enabled /\ ~task[t].archived
  /\ task[t].version # None

\* run_task finds the key busy: _record_skipped.
SkipBusy(t, r) ==
  /\ Runnable(t)
  /\ Unused(r)
  /\ KeyBusy(task[t].version)
  /\ cb' = [cb EXCEPT ![t] = None]
  /\ row' = [row EXCEPT ![r] =
       [NewRow(t, task[t].version, "scheduled", task[t].next)
          EXCEPT !.status = "skipped", !.shown = "skipped"]]
  /\ tracked' = [tracked EXCEPT ![t] = r]
  /\ task' = [task EXCEPT ![t] = [@ EXCEPT !.next = NextRunFor(task[t].next)]]
  /\ SyncSchedule(t)
  /\ co' = [co EXCEPT ![r] = [Idle EXCEPT !.phase = "skipping"]]
  /\ UNCHANGED <<now, up, lock, reserved, running>>

\* The skip notification was sent, or a shutdown interrupted it.
SkipNotified(r) ==
  /\ co[r].phase = "skipping"
  /\ co' = [co EXCEPT ![r] = Idle]
  /\ UNCHANGED <<now, up, db, timers, shared>>

-----------------------------------------------------------------------------
(* Taking the lock *)

\* asyncio.Lock: free, and nobody who still wants it queues for it.
LockFree(k) ==
  /\ lock[k] = None
  /\ ~\E r \in Runs : /\ co[r].phase = "waiting"
                      /\ co[r].sig = "no"
                      /\ row[r].key = k

\* From the acquired lock to the await of pool.acquire.
EnterRun(r, t, k) ==
  /\ lock' = [lock EXCEPT ![k] = r]
  /\ running' = [running EXCEPT ![t] = r]
  /\ task' = [task EXCEPT ![t] = [@ EXCEPT !.cancel = FALSE]]

\* run_task and the synchronous head of _execute_run.
StartScheduled(t, r) ==
  LET k == task[t].version
  IN  /\ Runnable(t)
      /\ Unused(r)
      /\ ~KeyBusy(k)
      /\ cb' = [cb EXCEPT ![t] = None]
      /\ row' = [row EXCEPT ![r] = NewRow(t, k, "scheduled", task[t].next)]
      /\ tracked' = [tracked EXCEPT ![t] = r]
      /\ IF LockFree(k)
         THEN /\ EnterRun(r, t, k)
              /\ co' = [co EXCEPT ![r] =
                   [Idle EXCEPT !.phase = "acquiring", !.watch = TRUE,
                                !.snap = task[t].draft]]
         ELSE /\ co' = [co EXCEPT ![r] =
                   [Idle EXCEPT !.phase = "waiting", !.snap = task[t].draft]]
              /\ UNCHANGED <<lock, running, task>>
      /\ UNCHANGED <<now, up, job, reserved>>

\* _start_background_run: reserve the key and create the asyncio task.
StartBackground(t, r, k, kind) ==
  /\ up = "up"
  /\ Unused(r)
  /\ Exists(t) /\ ~task[t].archived
  /\ ~KeyBusy(k)
  /\ running[t] = None
  /\ row' = [row EXCEPT ![r] = NewRow(t, k, kind, None)]
  /\ tracked' = [tracked EXCEPT ![t] = r]
  /\ reserved' = reserved \cup {k}
  /\ running' = [running EXCEPT ![t] = r]
  /\ co' = [co EXCEPT ![r] = [Idle EXCEPT !.phase = "created",
                                          !.snap = task[t].draft]]
  /\ UNCHANGED <<now, up, timers, lock>>

\* start_manual_run: the published version's key; clears the cancel flag.
StartManual(t, r) ==
  /\ task[t].version # None
  /\ StartBackground(t, r, task[t].version, "manual")
  /\ task' = [task EXCEPT ![t] = [@ EXCEPT !.cancel = FALSE]]

\* start_test_run: the editor's unsaved definition may name any key.
StartTest(t, r, k) ==
  /\ StartBackground(t, r, k, "test")
  /\ UNCHANGED task

\* The first step of a background run, up to its first await.
BeginBackground(r) ==
  LET k == row[r].key
  IN  /\ co[r].phase = "created" /\ co[r].sig = "no"
      /\ IF LockFree(k)
         THEN /\ EnterRun(r, row[r].task, k)
              /\ co' = [co EXCEPT ![r] = [@ EXCEPT !.phase = "acquiring",
                                          !.watch = TRUE, !.stale = FALSE]]
         ELSE Step(r, "waiting") /\ UNCHANGED <<lock, running, task>>
      /\ UNCHANGED <<now, up, row, timers, reserved, tracked>>

\* Mutant: a run goes on without waiting for the lock.
LockNotAwaited(r) ==
  /\ co[r].phase = "waiting" /\ co[r].sig = "no"
  /\ EnterRun(r, row[r].task, row[r].key)
  /\ co' = [co EXCEPT ![r] = [@ EXCEPT !.phase = "acquiring",
                                       !.watch = TRUE, !.stale = FALSE]]
  /\ UNCHANGED <<now, up, row, timers, reserved, tracked>>

\* A queued run gets the lock; the revision is read only now.
LockGranted(r) ==
  /\ co[r].phase = "waiting" /\ co[r].sig = "no"
  /\ lock[row[r].key] = None
  /\ EnterRun(r, row[r].task, row[r].key)
  /\ co' = [co EXCEPT ![r] = [@ EXCEPT !.phase = "acquiring",
                                       !.watch = TRUE, !.stale = FALSE]]
  /\ UNCHANGED <<now, up, row, timers, reserved, tracked>>

\* CancelledError before the try block: a background run ends (its wrapper
\* gives the reservation back once it had started), a scheduled run vanishes.
CancelledBeforeTry(r) ==
  /\ co[r].phase \in {"created", "waiting"} /\ co[r].sig = "pending"
  /\ co' = [co EXCEPT ![r] = IF Background(r) THEN [Idle EXCEPT !.phase = "ended"]
                                              ELSE Idle]
  /\ reserved' = IF co[r].phase = "waiting" /\ Background(r)
                 THEN reserved \ {row[r].key} ELSE reserved
  /\ UNCHANGED <<now, up, db, timers, lock, running, tracked>>

-----------------------------------------------------------------------------
(* Inside the lock *)

ClientAcquired(r) ==
  /\ co[r].phase = "acquiring" /\ co[r].sig # "pending"
  /\ co' = [co EXCEPT ![r] = [@ EXCEPT !.phase = "executing", !.lease = TRUE]]
  /\ UNCHANGED <<now, up, db, timers, shared>>

\* A pending cancellation is delivered by the step that raises it.
Delivered(r) == IF co[r].sig = "pending" THEN "seen" ELSE co[r].sig

\* The outcome is recorded and the task settled before the notification.
Settle(r, status, phase) ==
  /\ row' = Finalized(r, status)
  /\ SettleTask(r)
  /\ UNCHANGED <<now, up, cb, shared>>
  /\ co' = [co EXCEPT ![r] = [@ EXCEPT !.phase = phase, !.sig = Delivered(r)]]

\* except Exception: the pool could not provide a connected client.
AcquireFailed(r) ==
  /\ co[r].phase = "acquiring" /\ co[r].sig # "pending"
  /\ Settle(r, "failed", "handling")

\* The executor returned after its last attempt.
ExecutorReturned(r) ==
  /\ co[r].phase = "executing" /\ co[r].sig # "pending"
  /\ \E status \in {"success", "failed"} : Settle(r, status, "reporting")

\* Mutant: the retry loop swallows the cancellation.
InterruptedSwallowed(r) ==
  /\ co[r].phase \in {"acquiring", "executing", "reporting"}
  /\ co[r].sig = "pending"
  /\ co' = [co EXCEPT ![r] = [@ EXCEPT !.sig = "seen"]]
  /\ UNCHANGED <<now, up, db, timers, shared>>

\* except CancelledError: a cancel() of the coroutine in the try body.
Interrupted(r) ==
  /\ co[r].phase \in {"acquiring", "executing", "reporting"}
  /\ co[r].sig = "pending"
  /\ Settle(r, "canceled", "handling")

\* The executor checks the database flag before an attempt and between steps
\* and raises CancelledError itself.
FlagObserved(r) ==
  /\ co[r].phase = "executing"
  /\ task[row[r].task].cancel
  /\ Settle(r, "canceled", "handling")

\* The finally block begins: give the client back if one was acquired, else
\* cancel the watcher and wait for it.
Leave(r) ==
  co' = [co EXCEPT ![r] =
           IF co[r].lease
           THEN [@ EXCEPT !.phase = "releasing", !.sig = Delivered(r)]
           ELSE [@ EXCEPT !.phase = "joining", !.watch = FALSE,
                          !.sig = Delivered(r)]]

\* The notification returned (it is best effort), or a cancellation of the
\* handler's own notification fell through to the finally block.
Notified(r) ==
  /\ \/ co[r].phase = "reporting" /\ co[r].sig # "pending"
     \/ co[r].phase = "handling"
  /\ Leave(r)
  /\ UNCHANGED <<now, up, db, timers, shared>>

ClientReleased(r) ==
  /\ co[r].phase = "releasing" /\ co[r].sig # "pending"
  /\ co' = [co EXCEPT ![r] = [@ EXCEPT !.phase = "joining", !.watch = FALSE,
                                       !.lease = FALSE]]
  /\ UNCHANGED <<now, up, db, timers, shared>>

\* The coroutine is over: the lock goes, and a background run's wrapper
\* discards its reservation; its done callback is still to come.
Return(r) ==
  LET k == row[r].key
  IN  /\ lock' = [lock EXCEPT ![k] = None]
      /\ reserved' = IF Background(r) THEN reserved \ {k} ELSE reserved
      /\ co' = [co EXCEPT ![r] =
           IF Background(r) THEN [Idle EXCEPT !.phase = "ended"] ELSE Idle]

\* _sync_schedule queued the wake-up for an already due job before this
\* coroutine's own resumption, so the timer sees that job first.
TimerSettled(t) == ~(up = "up" /\ job[t] # None /\ job[t] <= now)

\* CancelledError out of pool.release: the rest of the finally block is lost.
ReleaseInterrupted(r) ==
  /\ co[r].phase = "releasing" /\ co[r].sig = "pending"
  /\ TimerSettled(row[r].task)
  /\ Return(r)
  /\ UNCHANGED <<now, up, db, timers, running, tracked>>

\* Mutant: the registry entry is never removed by the run itself.
JoinWatcherRegistered(r) ==
  LET t == row[r].task
  IN  /\ co[r].phase = "joining"
      /\ TimerSettled(t)
      /\ ~(up = "up" /\ cb[t] # None)
      /\ task' = [task EXCEPT ![t] = [@ EXCEPT !.cancel = FALSE]]
      /\ Return(r)
      /\ UNCHANGED <<now, up, row, timers, running, tracked>>

\* The watcher is gone (a CancelledError here is suppressed): clear the flag,
\* leave the registry if the entry is still this run's, release the lock.
JoinWatcher(r) ==
  LET t == row[r].task
  IN  /\ co[r].phase = "joining"
      /\ TimerSettled(t)
      /\ ~(up = "up" /\ cb[t] # None)
      /\ task' = [task EXCEPT ![t] = [@ EXCEPT !.cancel = FALSE]]
      /\ running' = [running EXCEPT ![t] = IF @ = r THEN None ELSE @]
      /\ Return(r)
      /\ UNCHANGED <<now, up, row, timers, tracked>>

\* Mutant: the done callback trusts the wrapper to free the reservation.
CleanupReserved(r) ==
  LET t == row[r].task
  IN  /\ co[r].phase = "ended"
      /\ running' = [running EXCEPT ![t] = IF @ = r THEN None ELSE @]
      /\ co' = [co EXCEPT ![r] = Idle]
      /\ IF row[r].status = "running"
         THEN /\ row' = Finalized(r, "canceled")
              /\ SettleTask(r)
         ELSE UNCHANGED <<row, task, job>>
      /\ UNCHANGED <<now, up, cb, lock, reserved, tracked>>

\* Mutant: the done callback leaves the run's row alone.
CleanupUnrecorded(r) ==
  LET t == row[r].task
  IN  /\ co[r].phase = "ended"
      /\ reserved' = reserved \ {row[r].key}
      /\ running' = [running EXCEPT ![t] = IF @ = r THEN None ELSE @]
      /\ co' = [co EXCEPT ![r] = Idle]
      /\ UNCHANGED <<now, up, db, timers, lock, tracked>>

\* Mutant: the done callback records every run as canceled.
CleanupOverwrites(r) ==
  LET t == row[r].task
  IN  /\ co[r].phase = "ended"
      /\ reserved' = reserved \ {row[r].key}
      /\ running' = [running EXCEPT ![t] = IF @ = r THEN None ELSE @]
      /\ co' = [co EXCEPT ![r] = Idle]
      /\ row' = Finalized(r, "canceled")
      /\ SettleTask(r)
      /\ UNCHANGED <<now, up, cb, lock, tracked>>

\* The done callback of a background run.
Cleanup(r) ==
  LET t == row[r].task
  IN  /\ co[r].phase = "ended"
      /\ reserved' = reserved \ {row[r].key}
      /\ running' = [running EXCEPT ![t] = IF @ = r THEN None ELSE @]
      /\ co' = [co EXCEPT ![r] = Idle]
      /\ IF row[r].status = "running"
         THEN /\ row' = Finalized(r, "canceled")
              /\ SettleTask(r)
         ELSE UNCHANGED <<row, task, job>>
      /\ UNCHANGED <<now, up, cb, lock, tracked>>

-----------------------------------------------------------------------------
(* Cancellation *)

\* Task.cancel(): nothing happens to a coroutine that has finished.
Signalled(c) == IF c.phase \in {"idle", "ended"} THEN c
                ELSE [c EXCEPT !.sig = "pending"]

\* cancel_task
CancelTask(t) ==
  /\ up = "up"
  /\ Exists(t)
  /\ running[t] # None \/ HasRunningRow(t)
  /\ task' = [task EXCEPT ![t] = [@ EXCEPT !.cancel = TRUE]]
  /\ co' = [r \in Runs |-> IF r = running[t] THEN Signalled(co[r]) ELSE co[r]]
  /\ UNCHANGED <<now, up, row, timers, shared>>

\* _watch_cancellation: one of its polls sees the flag.
WatcherPoll(r) ==
  /\ co[r].watch
  /\ task[row[r].task].cancel
  /\ co' = [co EXCEPT ![r] = [@ EXCEPT !.watch = FALSE,
                 !.sig = IF co[r].sig = "no" THEN "pending" ELSE co[r].sig]]
  /\ UNCHANGED <<now, up, db, timers, shared>>
=============================================================================
