------------------------- MODULE CheckinStateProofs -------------------------
(***************************************************************************)
(* Theorems about the state the parts of the check-in service share: the   *)
(* task rows agree with the timers, the run rows with the coroutines, the  *)
(* registry and the live progress with both.  Every step of the            *)
(* specification is first brought into one of a few forms (StepKinds) that *)
(* say, task by task and run by run, what it changes.  What the            *)
(* environment may do is a condition on Events where the code needs one.   *)
(***************************************************************************)
EXTENDS CheckinServiceProofs

-----------------------------------------------------------------------------
(* The steps, by what they do to schedules and coroutines *)

Early == {"created", "waiting", "acquiring", "executing"}
Late  == {"reporting", "handling", "releasing", "joining"}

\* A step leaves the schedule of task t alone.
SameSchedule(t) ==
  /\ task'[t].enabled = task[t].enabled
  /\ task'[t].archived = task[t].archived
  /\ task'[t].next = task[t].next
  /\ task'[t].draft = task[t].draft
  /\ task'[t].version = task[t].version

\* The registry without run r's own entry.
Unregisters(r) ==
  running' = [running EXCEPT ![row[r].task] = IF @ = r THEN None ELSE @]

\* Run r takes the lock, ...
Begins(r) ==
  /\ co[r].phase \in {"created", "waiting"} /\ co[r].sig = "no"
  /\ co'[r] = [co[r] EXCEPT !.phase = "acquiring", !.watch = TRUE, !.stale = FALSE]
  /\ running' = [running EXCEPT ![row[r].task] = r]

\* ... goes on, ...
Proceeds(r) ==
  /\ co'[r].stale = co[r].stale /\ co'[r].snap = co[r].snap
  /\ co[r].sig = "no" /\ ~task[row[r].task].cancel => co'[r].sig = "no"
  /\ co[r].phase \in {"created", "waiting"} /\ ~co[r].watch =>
       co'[r].sig = co[r].sig /\ ~co'[r].watch
  /\ \/ co'[r].phase = co[r].phase
     \/ co[r].phase = "created" /\ co'[r].phase = "waiting"
     \/ co[r].phase = "acquiring" /\ co'[r].phase = "executing"
     \/ co[r].phase \in {"reporting", "handling"} /\ co'[r].phase \in {"releasing", "joining"}
     \/ co[r].phase = "releasing" /\ co'[r].phase = "joining"
  /\ UNCHANGED running

\* ... or ends.
Ends(r) ==
  /\ \/ co'[r] = Idle /\ (co[r].phase = "ended" \/ ~Background(r))
     \/ co'[r] = [Idle EXCEPT !.phase = "ended"] /\ Background(r)
  /\ \/ co[r].phase \in {"created", "waiting", "releasing"} /\ co[r].sig = "pending"
          /\ UNCHANGED running
     \/ co[r].phase = "skipping" /\ UNCHANGED running
     \/ co[r].phase = "joining" /\ Unregisters(r)
     \/ co[r].phase = "ended" /\ row[r].status # "running" /\ Unregisters(r)

\* A step of run r that records no outcome.
Moves(r) ==
  /\ co[r] # Idle
  /\ UNCHANGED <<now, up, row, job, cb, tracked>>
  /\ \A t \in Tasks : SameSchedule(t) /\ (task'[t].cancel => task[t].cancel)
  /\ \A s \in Runs \ {r} : co'[s] = co[s]
  /\ Begins(r) \/ Proceeds(r) \/ Ends(r)

\* A step of run r that records its outcome and settles its task: in the body
\* of the run, or in the done callback of one that could not do so itself.
Settles(r, status) ==
  /\ row' = Finalized(r, status) /\ SettleTask(r)
  /\ UNCHANGED <<now, up, cb, tracked>>
  /\ \A s \in Runs \ {r} : co'[s] = co[s]
  /\ \/ /\ \/ co[r].phase \in {"acquiring", "executing"}
           \/ co[r].phase = "reporting" /\ co[r].sig = "pending"
        /\ co'[r].phase \in {"reporting", "handling"}
        /\ co'[r].stale = co[r].stale /\ co'[r].snap = co[r].snap
        /\ co[r].sig = "no" => co'[r].sig = "no"
        /\ UNCHANGED running
     \/ /\ co[r].phase = "ended" /\ row[r].status = "running"
        /\ co'[r] = Idle /\ Unregisters(r)

Outcomes == {"success", "failed", "canceled"}

\* A step of a run is one or the other.
LEMMA RunSteps ==
  ASSUME Typed, NEW r \in Runs,
         \/ RunStep(r) \/ WatcherPoll(r) \/ ExecutorReturned(r) \/ FlagObserved(r)
  PROVE  Moves(r) \/ \E status \in Outcomes : Settles(r, status)
<1>1. /\ co \in [Runs -> Coroutine] /\ co[r] \in Coroutine
      /\ task \in [Tasks -> TaskRow]
      /\ Live(r) => row[r].task \in Tasks
      /\ co[r].phase # "idle" \/ co[r].watch => co[r] # Idle
  BY LiveRow DEF Typed, TypeOK, Idle
<1>2. ASSUME NEW c, co' = [co EXCEPT ![r] = c]
      PROVE  co'[r] = c /\ \A s \in Runs \ {r} : co'[s] = co[s]
  BY <1>1, <1>2
<1>3. ASSUME UNCHANGED task
      PROVE  \A t \in Tasks : SameSchedule(t) /\ (task'[t].cancel => task[t].cancel)
  BY <1>3 DEF SameSchedule
<1>4. ASSUME Live(r), task' = [task EXCEPT ![row[r].task] = [@ EXCEPT !.cancel = FALSE]]
      PROVE  \A t \in Tasks : SameSchedule(t) /\ (task'[t].cancel => task[t].cancel)
  BY <1>1, <1>4 DEF SameSchedule, TaskRow
<1>5. ASSUME NEW status \in Outcomes, NEW phase \in {"reporting", "handling"},
             Settle(r, status, phase),
             \/ co[r].phase \in {"acquiring", "executing"}
             \/ co[r].phase = "reporting" /\ co[r].sig = "pending"
      PROVE  \E st \in Outcomes : Settles(r, st)
  <2>1. /\ co'[r] = [co[r] EXCEPT !.phase = phase, !.sig = Delivered(r)]
        /\ \A s \in Runs \ {r} : co'[s] = co[s]
    BY <1>2, <1>5 DEF Settle
  <2>2. /\ co'[r].phase = phase /\ co'[r].stale = co[r].stale
        /\ co'[r].snap = co[r].snap /\ co'[r].sig = Delivered(r)
    BY <1>1, <2>1 DEF Coroutine
  <2>. QED
    BY <1>5, <2>1, <2>2 DEF Settle, Settles, Delivered, shared
<1>6. CASE AcquireFailed(r) \/ Interrupted(r) \/ FlagObserved(r) \/ ExecutorReturned(r)
  BY <1>5, <1>6 DEF AcquireFailed, Interrupted, FlagObserved, ExecutorReturned, Outcomes
<1>7. CASE SkipNotified(r) \/ CancelledBeforeTry(r)
  BY <1>1, <1>2, <1>3, <1>7
     DEF SkipNotified, CancelledBeforeTry, Moves, Ends, Live, Background, Typed, LiveRuns,
         db, timers, shared
<1>8. CASE LockGranted(r) \/ (BeginBackground(r) /\ LockFree(row[r].key))
  <2>1. Live(r) /\ UNCHANGED <<now, up, row, job, cb, tracked>>
    BY <1>8 DEF LockGranted, BeginBackground, Live, timers
  <2>2. Begins(r) /\ \A s \in Runs \ {r} : co'[s] = co[s]
    BY <1>2, <1>8 DEF LockGranted, BeginBackground, EnterRun, Begins
  <2>3. \A t \in Tasks : SameSchedule(t) /\ (task'[t].cancel => task[t].cancel)
    BY <1>4, <1>8, <2>1 DEF LockGranted, BeginBackground, EnterRun
  <2>. QED
    BY <1>1, <2>1, <2>2, <2>3 DEF Moves, Live
<1>9. ASSUME NEW c, co' = [co EXCEPT ![r] = c], Proceeds(r), co[r] # Idle,
             UNCHANGED <<now, up, db, timers, running, tracked>>
      PROVE  Moves(r)
  BY <1>1, <1>2, <1>3, <1>9 DEF Moves, db, timers
<1>10. CASE BeginBackground(r) /\ ~LockFree(row[r].key)
  <2>1. Proceeds(r)
    BY <1>1, <1>10 DEF BeginBackground, Step, Proceeds, Coroutine
  <2>. QED
    BY <1>1, <1>9, <1>10, <2>1 DEF BeginBackground, Step, db
<1>11. CASE ClientAcquired(r)
  <2>1. Proceeds(r)
    BY <1>1, <1>11 DEF ClientAcquired, Proceeds, Coroutine, shared
  <2>. QED
    BY <1>1, <1>9, <1>11, <2>1 DEF ClientAcquired, shared
<1>12. CASE Notified(r)
  <2>1. Proceeds(r)
    BY <1>1, <1>12 DEF Notified, Leave, Delivered, Proceeds, Coroutine, shared
  <2>. QED
    BY <1>1, <1>9, <1>12, <2>1 DEF Notified, Leave, shared
<1>13. CASE ClientReleased(r)
  <2>1. Proceeds(r)
    BY <1>1, <1>13 DEF ClientReleased, Proceeds, Coroutine, shared
  <2>. QED
    BY <1>1, <1>9, <1>13, <2>1 DEF ClientReleased, shared
<1>14. CASE WatcherPoll(r)
  <2>1. Proceeds(r)
    BY <1>1, <1>14 DEF WatcherPoll, Proceeds, Coroutine, shared
  <2>. QED
    BY <1>1, <1>9, <1>14, <2>1 DEF WatcherPoll, shared
<1>15. ASSUME Return(r)
       PROVE  /\ \/ co'[r] = Idle /\ ~Background(r)
                 \/ co'[r] = [Idle EXCEPT !.phase = "ended"] /\ Background(r)
              /\ \A s \in Runs \ {r} : co'[s] = co[s]
  BY <1>1, <1>15 DEF Return
<1>16. CASE ReleaseInterrupted(r)
  BY <1>1, <1>3, <1>15, <1>16 DEF ReleaseInterrupted, Moves, Ends, db, timers
<1>17. CASE JoinWatcher(r)
  BY <1>1, <1>4, <1>15, <1>17 DEF JoinWatcher, Moves, Ends, Unregisters, timers, Live
<1>18. CASE Cleanup(r)
  <2>1. co'[r] = Idle /\ \A s \in Runs \ {r} : co'[s] = co[s]
    BY <1>1, <1>18 DEF Cleanup
  <2>2. CASE row[r].status = "running"
    BY <1>18, <2>1, <2>2 DEF Cleanup, Settles, Outcomes, Unregisters
  <2>3. CASE row[r].status # "running"
    BY <1>1, <1>3, <1>18, <2>1, <2>3 DEF Cleanup, Moves, Ends, Unregisters
  <2>. QED
    BY <2>2, <2>3
<1>. QED
  BY <1>6, <1>7, <1>8, <1>10, <1>11, <1>12, <1>13, <1>14, <1>16, <1>17, <1>18 DEF RunStep

\* The schedules of all tasks stay, and no task is flagged for cancellation.
SameSchedules ==
  \A t \in Tasks : SameSchedule(t) /\ (task'[t].cancel => task[t].cancel)

\* Task t is given the next occurrence n, its timer is brought in line.
Reschedules(t, n) ==
  /\ task'[t].next = n
  /\ task'[t].enabled = task[t].enabled
  /\ task'[t].archived = task[t].archived
  /\ task'[t].draft = task[t].draft
  /\ task'[t].version = task[t].version
  /\ job'[t] = IF task[t].enabled /\ ~task[t].archived THEN n ELSE None
  /\ \A u \in Tasks : task'[u].cancel => task[u].cancel
  /\ \A u \in Tasks \ {t} : SameSchedule(u) /\ job'[u] = job[u]

\* The task of a run that settles moves on to the next occurrence, or stays.
Consumes(r) ==
  LET t == row[r].task
  IN  /\ row[r].kind = "scheduled"
      /\ task[t].enabled /\ ~task[t].archived
      /\ ~co[r].stale /\ co[r].snap = task[t].draft
      /\ Reschedules(t, NextRunFor(task[t].next))

Stays(r) ==
  LET t == row[r].task
  IN  /\ SameSchedules
      /\ ~(/\ row[r].kind = "scheduled"
           /\ task[t].enabled /\ ~task[t].archived
           /\ ~co[r].stale /\ co[r].snap = task[t].draft)
      /\ job'[t] \in {job[t], Arm(task[t])}
      /\ \A u \in Tasks \ {t} : job'[u] = job[u]

\* What the outcome of a run does to its row and its task.
LEMMA SettleEffect ==
  ASSUME Typed, NEW r \in Runs, NEW status \in Outcomes, Settles(r, status)
  PROVE  /\ row[r].task \in Tasks /\ Live(r)
         /\ \A s \in Runs \ {r} : row'[s] = row[s]
         /\ row'[r].status = status
         /\ row'[r].task = row[r].task /\ row'[r].key = row[r].key
         /\ row'[r].kind = row[r].kind /\ row'[r].planned = row[r].planned
         /\ row'[r].shown = IF tracked[row[r].task] = r THEN status ELSE row[r].shown
         /\ Consumes(r) \/ Stays(r)
<1>. DEFINE t == row[r].task
<1>1. Live(r) /\ t \in Tasks
  <2>1. Live(r)
    BY DEF Settles, Live
  <2>. QED
    BY <2>1, LiveRow DEF Typed
<1>2. /\ row \in [Runs -> RunRow] /\ task \in [Tasks -> TaskRow]
      /\ job \in [Tasks -> Occ \cup {None}]
  BY DEF Typed, TypeOK
<1>3. /\ \A s \in Runs \ {r} : row'[s] = row[s]
      /\ row'[r].status = status
      /\ row'[r].task = row[r].task /\ row'[r].key = row[r].key
      /\ row'[r].kind = row[r].kind /\ row'[r].planned = row[r].planned
      /\ row'[r].shown = IF tracked[row[r].task] = r THEN status ELSE row[r].shown
  BY <1>2 DEF Settles, Finalized, RunRow
<1>4. Consumes(r) \/ Stays(r)
  <2>. DEFINE Cond == /\ row[r].kind = "scheduled"
                      /\ task[t].enabled /\ ~task[t].archived
                      /\ ~co[r].stale /\ co[r].snap = task[t].draft
              n == NextRunFor(task[t].next)
  <2>1. CASE UNCHANGED <<task, job>> /\ row[r].kind = "test"
    BY <2>1 DEF Stays, SameSchedules, SameSchedule
  <2>2. CASE UpdateAfterRun(r) /\ ~Cond
    <3>1. RowAfterRun(r) = task[t]
      BY <2>2 DEF RowAfterRun
    <3>2. /\ task' = [task EXCEPT ![t] = task[t]]
          /\ job' = [job EXCEPT ![t] = Arm(task'[t])]
      BY <2>2, <3>1 DEF UpdateAfterRun, SyncSchedule
    <3>3. task' = task /\ job' = [job EXCEPT ![t] = Arm(task[t])]
      BY <1>1, <1>2, <3>2
    <3>. QED
      BY <1>1, <1>2, <2>2, <3>3 DEF Stays, SameSchedules, SameSchedule
  <2>3. CASE UpdateAfterRun(r) /\ Cond
    <3>1. RowAfterRun(r) = [task[t] EXCEPT !.next = n]
      BY <2>3 DEF RowAfterRun
    <3>2. /\ task' = [task EXCEPT ![t] = [task[t] EXCEPT !.next = n]]
          /\ job' = [job EXCEPT ![t] = Arm(task'[t])]
      BY <2>3, <3>1 DEF UpdateAfterRun, SyncSchedule
    <3>3. task'[t] = [task[t] EXCEPT !.next = n] /\ \A u \in Tasks \ {t} : task'[u] = task[u]
      BY <1>1, <1>2, <3>2
    <3>. HIDE DEF n
    <3>4. Reschedules(t, n)
      BY <1>1, <1>2, <3>2, <3>3 DEF Reschedules, SameSchedule, TaskRow, Arm
    <3>. QED
      BY <2>3, <3>4 DEF Consumes, n
  <2>. QED
    BY <2>1, <2>2, <2>3 DEF Settles, SettleTask
<1>. QED
  BY <1>1, <1>3, <1>4

-----------------------------------------------------------------------------
(* The other steps, pointwise *)

OnlyRun(r) == \A s \in Runs \ {r} : row'[s] = row[s] /\ co'[s] = co[s]

\* The coroutines of task t see a new revision.
Bumps(t) ==
  \A r \in Runs :
    /\ co'[r].phase = co[r].phase /\ co'[r].sig = co[r].sig /\ co'[r].snap = co[r].snap
    /\ co'[r].watch = co[r].watch
    /\ co'[r].stale => co[r].stale \/ row[r].task = t
    /\ co[r].stale \/ (row[r].task = t /\ Live(r)) => co'[r].stale
    /\ ~Live(r) => co'[r] = co[r]

\* _bump_task_revision does that.
LEMMA BumpEffect ==
  ASSUME Typed, NEW t \in Tasks, BumpRevision(t)
  PROVE  Bumps(t)
<1>1. \A r \in Runs : co[r] \in Coroutine
  BY DEF Typed, TypeOK
<1>2. ASSUME NEW r \in Runs
      PROVE  co'[r] = IF row[r].task = t /\ Live(r)
                      THEN [co[r] EXCEPT !.stale = TRUE] ELSE co[r]
  BY DEF BumpRevision
<1>. QED
  BY <1>1, <1>2 DEF Bumps, Coroutine

\* A scheduled run of the submitted callback begins or queues for its key, ...
Starts(t, r) ==
  /\ row[r].status = None /\ ~Live(r)
  /\ cb[t] # None /\ cb' = [cb EXCEPT ![t] = None]
  /\ task[t].next = cb[t] /\ task[t].enabled /\ SameSchedules
  /\ row'[r] = NewRow(t, task[t].version, "scheduled", task[t].next)
  /\ \/ co'[r].phase = "acquiring" /\ running' = [running EXCEPT ![t] = r]
     \/ /\ co'[r].phase = "waiting" /\ ~co'[r].watch /\ running' = running
        /\ \E s \in Runs : co[s].phase = "waiting"
  /\ co'[r].sig = "no" /\ ~co'[r].stale /\ co'[r].snap = task[t].draft
  /\ OnlyRun(r) /\ tracked' = [tracked EXCEPT ![t] = r]
  /\ UNCHANGED <<now, up, job>>

\* ... or is recorded as skipped because the key is busy.
SkipsBusy(t, r) ==
  /\ row[r].status = None /\ ~Live(r)
  /\ cb[t] # None /\ cb' = [cb EXCEPT ![t] = None]
  /\ task[t].next = cb[t] /\ task[t].enabled /\ ~task[t].archived
  /\ row'[r] = [NewRow(t, task[t].version, "scheduled", task[t].next)
                  EXCEPT !.status = "skipped", !.shown = "skipped"]
  /\ co'[r] = [Idle EXCEPT !.phase = "skipping"]
  /\ OnlyRun(r) /\ tracked' = [tracked EXCEPT ![t] = r]
  /\ Reschedules(t, NextRunFor(task[t].next))
  /\ UNCHANGED <<now, up, running>>

\* An administrator skips the next occurrence.
SkipsNext(t, r) ==
  /\ up = "up" /\ row[r].status = None /\ ~Live(r)
  /\ task[t].enabled /\ ~task[t].archived /\ task[t].next # None
  /\ ~(task[t].next <= now /\ (running[t] # None \/ HasRunningRow(t)))
  /\ row'[r] = [NoRow EXCEPT !.task = t, !.kind = "skip",
                             !.status = "skipped", !.planned = task[t].next]
  /\ \A s \in Runs \ {r} : row'[s] = row[s]
  /\ Bumps(t) /\ Reschedules(t, NextRunFor(task[t].next))
  /\ UNCHANGED <<now, up, cb, running, tracked>>

\* A manual or test run is created.
Launches(t, r, kind) ==
  /\ kind = "manual" => "run" \in Events
  /\ kind = "test" => "test" \in Events /\ UNCHANGED task
  /\ up = "up" /\ row[r].status = None /\ ~Live(r) /\ running[t] = None
  /\ SameSchedules
  /\ \E k \in Keys : row'[r] = NewRow(t, k, kind, None)
  /\ co'[r] = [Idle EXCEPT !.phase = "created", !.snap = task[t].draft]
  /\ OnlyRun(r)
  /\ running' = [running EXCEPT ![t] = r] /\ tracked' = [tracked EXCEPT ![t] = r]
  /\ UNCHANGED <<now, up, job, cb>>

\* A step that adds a run.
LEMMA AddedSteps ==
  ASSUME Typed, NEW t \in Tasks, NEW r \in Runs
  PROVE  /\ StartScheduled(t, r) => Starts(t, r)
         /\ SkipBusy(t, r) => SkipsBusy(t, r)
         /\ SkipNextTask(t, r) => SkipsNext(t, r)
         /\ "run" \in Events /\ StartManual(t, r) => Launches(t, r, "manual")
         /\ \A k \in Keys :
              "test" \in Events /\ StartTest(t, r, k) => Launches(t, r, "test")
<1>1. /\ co \in [Runs -> Coroutine] /\ co[r] \in Coroutine
      /\ row \in [Runs -> RunRow] /\ task \in [Tasks -> TaskRow]
      /\ row[r].status = None => ~Live(r)
      /\ job \in [Tasks -> Occ \cup {None}]
  BY DEF Typed, TypeOK, LiveRuns
<1>2. ASSUME task' = [task EXCEPT ![t] = [@ EXCEPT !.cancel = FALSE]] \/ UNCHANGED task
      PROVE  SameSchedules
  BY <1>1, <1>2 DEF SameSchedules, SameSchedule, TaskRow
<1>3. ASSUME NEW n, task' = [task EXCEPT ![t] = [@ EXCEPT !.next = n]], SyncSchedule(t)
      PROVE  Reschedules(t, n)
  <2>1. /\ task'[t] = [task[t] EXCEPT !.next = n]
        /\ \A u \in Tasks \ {t} : task'[u] = task[u]
    BY <1>1, <1>3
  <2>. QED
    BY <1>1, <1>3, <2>1 DEF Reschedules, SameSchedule, TaskRow, SyncSchedule, Arm
<1>4. ASSUME StartScheduled(t, r) PROVE Starts(t, r)
  <2>1. SameSchedules
    BY <1>2, <1>4 DEF StartScheduled, EnterRun
  <2>2. /\ row'[r] = NewRow(t, task[t].version, "scheduled", task[t].next)
        /\ OnlyRun(r)
    BY <1>1, <1>4 DEF StartScheduled, OnlyRun
  <2>3. /\ \/ co'[r].phase = "acquiring" /\ running' = [running EXCEPT ![t] = r]
           \/ /\ co'[r].phase = "waiting" /\ ~co'[r].watch /\ running' = running
              /\ \E s \in Runs : co[s].phase = "waiting"
        /\ co'[r].sig = "no" /\ ~co'[r].stale /\ co'[r].snap = task[t].draft
    <3>1. CASE LockFree(task[t].version)
      <4>1. /\ co'[r] = [Idle EXCEPT !.phase = "acquiring", !.watch = TRUE,
                                     !.snap = task[t].draft]
            /\ running' = [running EXCEPT ![t] = r]
        BY <1>1, <1>4, <3>1 DEF StartScheduled, EnterRun
      <4>. QED
        BY <4>1 DEF Idle
    <3>2. CASE ~LockFree(task[t].version)
      <4>1. /\ co'[r] = [Idle EXCEPT !.phase = "waiting", !.snap = task[t].draft]
            /\ running' = running
        BY <1>1, <1>4, <3>2 DEF StartScheduled
      <4>2. \E s \in Runs : co[s].phase = "waiting"
        BY <1>4, <3>2 DEF StartScheduled, KeyBusy, LockFree
      <4>. QED
        BY <4>1, <4>2 DEF Idle
    <3>. QED
      BY <3>1, <3>2
  <2>. QED
    BY <1>1, <1>4, <2>1, <2>2, <2>3 DEF StartScheduled, Starts, Runnable, Unused
<1>5. ASSUME SkipBusy(t, r) PROVE SkipsBusy(t, r)
  <2>1. Reschedules(t, NextRunFor(task[t].next))
    BY <1>3, <1>5 DEF SkipBusy
  <2>. QED
    BY <1>1, <1>5, <2>1 DEF SkipBusy, SkipsBusy, Runnable, Unused, OnlyRun
<1>6. ASSUME SkipNextTask(t, r) PROVE SkipsNext(t, r)
  <2>1. Reschedules(t, NextRunFor(task[t].next))
    BY <1>3, <1>6 DEF SkipNextTask, Write
  <2>2. Bumps(t)
    BY <1>1, <1>6, BumpEffect DEF SkipNextTask, Typed
  <2>. QED
    BY <1>1, <1>6, <2>1, <2>2 DEF SkipNextTask, SkipsNext, Unused, Editable, shared
<1>7. ASSUME NEW k \in Keys, NEW kind, StartBackground(t, r, k, kind),
             kind = "manual" => "run" \in Events,
             kind = "test" => "test" \in Events /\ UNCHANGED task,
             SameSchedules
      PROVE  Launches(t, r, kind)
  BY <1>1, <1>7 DEF StartBackground, Launches, Unused, OnlyRun, timers
<1>8. ASSUME "run" \in Events, StartManual(t, r) PROVE Launches(t, r, "manual")
  <2>1. task[t].version \in Keys
    BY <1>1, <1>8 DEF StartManual, TaskRow
  <2>. QED
    BY <1>2, <1>7, <1>8, <2>1 DEF StartManual
<1>9. ASSUME NEW k \in Keys, "test" \in Events, StartTest(t, r, k)
      PROVE  Launches(t, r, "test")
  BY <1>2, <1>7, <1>9 DEF StartTest
<1>. QED
  BY <1>4, <1>5, <1>6, <1>8, <1>9

\* A task is created, ...
Creates(t) ==
  /\ up = "up" /\ task[t].draft = None
  /\ task'[t].draft \in Keys /\ task'[t].version = None /\ task'[t].next = None
  /\ ~task'[t].enabled /\ ~task'[t].archived /\ ~task'[t].cancel
  /\ \A u \in Tasks \ {t} : task'[u] = task[u]
  /\ UNCHANGED <<now, up, row, job, cb, co, running, tracked>>

\* What the operations on an existing task have in common.
Administers(t) ==
  /\ up = "up" /\ task[t].draft # None /\ task'[t].draft \in Keys
  /\ task'[t].cancel => task[t].cancel
  /\ \A u \in Tasks \ {t} : task'[u] = task[u] /\ job'[u] = job[u]
  /\ Bumps(t)
  /\ UNCHANGED <<now, up, row, cb, running, tracked>>

\* Its draft is edited, ...
Redrafts(t) ==
  /\ Administers(t)
  /\ LiveRun(t) => "liveEdit" \in Events
  /\ task'[t].enabled = task[t].enabled /\ task'[t].archived = task[t].archived
  /\ task'[t].version = task[t].version
  /\ IF task[t].enabled THEN task'[t].next = task[t].next /\ job'[t] = job[t]
                        ELSE task'[t].next = None /\ job'[t] = None

\* ... it is enabled, or published while enabled, ...
Rearms(t) ==
  /\ Administers(t)
  /\ LiveRun(t) => "liveEdit" \in Events
  /\ task'[t].enabled /\ ~task'[t].archived /\ task'[t].version # None
  /\ task'[t].next = NextRunFor(None) /\ NextRunFor(None) # None
  /\ job'[t] = NextRunFor(None)

\* ... or it is disabled, archived, restored, or published while disabled.
Retires(t) ==
  /\ Administers(t)
  /\ ~task'[t].enabled /\ task'[t].next = None /\ job'[t] = None

\* A step of an administrator.
LEMMA AdminSteps ==
  ASSUME Typed, AdminStep
  PROVE  \E t \in Tasks : Creates(t) \/ Redrafts(t) \/ Rearms(t) \/ Retires(t)
<1>1. /\ task \in [Tasks -> TaskRow] /\ job \in [Tasks -> Occ \cup {None}]
      /\ None \notin Keys
  BY ConstAssumption DEF Typed, TypeOK
<1>2. ASSUME NEW t \in Tasks, NEW k \in Keys, CreateTask(t, k) PROVE Creates(t)
  <2>1. task'[t] = [NoTask EXCEPT !.draft = k] /\ \A u \in Tasks \ {t} : task'[u] = task[u]
    BY <1>1, <1>2 DEF CreateTask, Write
  <2>. QED
    BY <1>2, <2>1 DEF CreateTask, Creates, Exists, NoTask, timers, shared
<1>3. ASSUME NEW t \in Tasks, NEW new \in TaskRow, Write(t, new), up = "up", Exists(t),
             new.draft \in Keys, new.cancel = task[t].cancel,
             SyncSchedule(t) \/ UNCHANGED job, BumpRevision(t),
             UNCHANGED <<now, up, row, cb, shared>>
      PROVE  /\ Administers(t) /\ task'[t] = new
             /\ job'[t] = Arm(new) \/ (UNCHANGED job /\ ~SyncSchedule(t))
  <2>1. task'[t] = new /\ \A u \in Tasks \ {t} : task'[u] = task[u]
    BY <1>1, <1>3 DEF Write
  <2>2. \A u \in Tasks \ {t} : job'[u] = job[u]
    BY <1>1, <1>3 DEF SyncSchedule
  <2>3. SyncSchedule(t) => job'[t] = Arm(new)
    BY <1>1, <2>1 DEF SyncSchedule
  <2>. QED
    BY <1>3, <2>1, <2>2, <2>3, BumpEffect DEF Administers, Exists, shared
<1>4. ASSUME NEW t \in Tasks, Exists(t)
      PROVE  task[t].draft \in Keys /\ task[t] \in TaskRow
  BY <1>1, <1>4 DEF Exists, TaskRow
<1>5. NextRunFor(None) \in Occ \cup {None}
  BY NextRunForType DEF Typed, TypeOK
<1>6. ASSUME NEW t \in Tasks, NEW k \in Keys, EditTask(t, k),
             LiveRun(t) => "liveEdit" \in Events
      PROVE  Redrafts(t)
  <2>1. CASE task[t].enabled
    <3>. DEFINE new == [task[t] EXCEPT !.draft = k]
    <3>1. /\ new \in TaskRow /\ new.draft = k /\ new.cancel = task[t].cancel
          /\ new.enabled = task[t].enabled /\ new.archived = task[t].archived
          /\ new.version = task[t].version /\ new.next = task[t].next
      BY <1>1 DEF TaskRow
    <3>2. Write(t, new) /\ UNCHANGED job
      BY <1>6, <2>1 DEF EditTask
    <3>. HIDE DEF new
    <3>3. Administers(t) /\ task'[t] = new
      BY <1>3, <1>6, <3>1, <3>2 DEF EditTask, Editable
    <3>. QED
      BY <1>6, <2>1, <3>1, <3>2, <3>3 DEF Redrafts
  <2>2. CASE ~task[t].enabled
    <3>. DEFINE new == [task[t] EXCEPT !.draft = k, !.next = None]
    <3>1. /\ new \in TaskRow /\ new.draft = k /\ new.cancel = task[t].cancel
          /\ new.enabled = task[t].enabled /\ new.archived = task[t].archived
          /\ new.version = task[t].version /\ new.next = None
      BY <1>1 DEF TaskRow
    <3>2. Write(t, new) /\ SyncSchedule(t)
      BY <1>6, <2>2 DEF EditTask
    <3>. HIDE DEF new
    <3>3. Administers(t) /\ task'[t] = new /\ job'[t] = Arm(new)
      BY <1>3, <1>6, <3>1, <3>2 DEF EditTask, Editable
    <3>. QED
      BY <1>6, <2>2, <3>1, <3>3 DEF Redrafts, Arm
  <2>. QED
    BY <2>1, <2>2
<1>7. ASSUME NEW t \in Tasks, EnableTask(t), LiveRun(t) => "liveEdit" \in Events
      PROVE  Rearms(t)
  <2>. DEFINE new == [task[t] EXCEPT !.enabled = TRUE, !.next = NextRunFor(None)]
  <2>1. /\ Exists(t) /\ up = "up" /\ ~task[t].archived
        /\ task[t].version # None /\ NextRunFor(None) # None
    BY <1>7 DEF EnableTask, Editable
  <2>2. /\ new \in TaskRow /\ new.draft \in Keys /\ new.cancel = task[t].cancel
        /\ new.enabled /\ ~new.archived /\ new.version # None
        /\ new.next = NextRunFor(None)
    BY <1>4, <1>5, <2>1 DEF TaskRow
  <2>3. Write(t, new)
    BY <1>7 DEF EnableTask
  <2>. HIDE DEF new
  <2>4. Administers(t) /\ task'[t] = new /\ job'[t] = Arm(new)
    BY <1>3, <1>7, <2>1, <2>2, <2>3 DEF EnableTask
  <2>. QED
    BY <1>7, <2>1, <2>2, <2>4 DEF Rearms, Arm
<1>8. ASSUME NEW t \in Tasks, PublishTask(t), LiveRun(t) => "liveEdit" \in Events
      PROVE  Rearms(t) \/ Retires(t)
  <2>. DEFINE next == IF task[t].enabled THEN NextRunFor(None) ELSE None
              new == [task[t] EXCEPT !.version = task[t].draft, !.next = next]
  <2>1. /\ Exists(t) /\ up = "up" /\ ~task[t].archived
        /\ task[t].enabled => NextRunFor(None) # None
    BY <1>8 DEF PublishTask, Editable
  <2>2. next \in Occ \cup {None}
    BY <1>5
  <2>3. /\ new \in TaskRow /\ new.draft \in Keys /\ new.cancel = task[t].cancel
        /\ new.enabled = task[t].enabled /\ ~new.archived /\ new.version # None
        /\ new.next = next
    <3>. HIDE DEF next
    <3>. QED
      BY <1>1, <1>4, <2>1, <2>2 DEF TaskRow
  <2>4. Write(t, new)
    BY <1>8 DEF PublishTask
  <2>. HIDE DEF new
  <2>5. Administers(t) /\ task'[t] = new /\ job'[t] = Arm(new)
    BY <1>3, <1>8, <2>1, <2>3, <2>4 DEF PublishTask
  <2>. QED
    BY <1>8, <2>1, <2>3, <2>5 DEF Rearms, Retires, Arm
<1>9. ASSUME NEW t \in Tasks, DisableTask(t) \/ ArchiveTask(t) \/ RestoreTask(t)
      PROVE  Retires(t)
  <2>1. Exists(t) /\ up = "up"
    BY <1>9 DEF DisableTask, ArchiveTask, RestoreTask
  <2>2. ASSUME NEW archived \in BOOLEAN
        PROVE  LET new == [task[t] EXCEPT !.enabled = FALSE, !.archived = archived,
                                          !.next = None]
               IN  /\ new \in TaskRow /\ new.draft \in Keys
                   /\ new.cancel = task[t].cancel
                   /\ ~new.enabled /\ new.next = None
    BY <1>4, <2>1 DEF TaskRow
  <2>3. PICK archived \in BOOLEAN :
          Write(t, [task[t] EXCEPT !.enabled = FALSE, !.archived = archived, !.next = None])
    <3>1. [task[t] EXCEPT !.enabled = FALSE, !.next = None]
            = [task[t] EXCEPT !.enabled = FALSE, !.archived = task[t].archived, !.next = None]
      BY <1>4, <2>1 DEF TaskRow
    <3>2. task[t].archived \in BOOLEAN
      BY <1>4, <2>1 DEF TaskRow
    <3>3. [task[t] EXCEPT !.archived = FALSE, !.enabled = FALSE, !.next = None]
            = [task[t] EXCEPT !.enabled = FALSE, !.archived = FALSE, !.next = None]
      BY <1>4, <2>1 DEF TaskRow
    <3>. QED
      BY <1>9, <3>1, <3>2, <3>3 DEF DisableTask, ArchiveTask, RestoreTask
  <2>. DEFINE new == [task[t] EXCEPT !.enabled = FALSE, !.archived = archived, !.next = None]
  <2>4. /\ new \in TaskRow /\ new.draft \in Keys /\ new.cancel = task[t].cancel
        /\ ~new.enabled /\ new.next = None
    BY <2>2
  <2>. HIDE DEF new
  <2>5. Administers(t) /\ task'[t] = new /\ job'[t] = Arm(new)
    BY <1>3, <1>9, <2>1, <2>3, <2>4 DEF DisableTask, ArchiveTask, RestoreTask, new
  <2>. QED
    BY <2>4, <2>5 DEF Retires, Arm
<1>. QED
  BY <1>2, <1>6, <1>7, <1>8, <1>9 DEF AdminStep

\* A cancellation reaches coroutines; nothing else in them changes.
Signals ==
  \A r \in Runs :
    /\ co'[r].phase = co[r].phase /\ co'[r].stale = co[r].stale
    /\ co'[r].snap = co[r].snap /\ co'[r].watch = co[r].watch
    /\ co[r] = Idle => co'[r] = Idle

\* cancel_task flags a task and cancels its registered run.
Cancels ==
  /\ "cancel" \in Events /\ up = "up"
  /\ Signals /\ \A r \in Runs : co'[r] = co[r] \/ \E t \in Tasks : running[t] = r
  /\ \A t \in Tasks : SameSchedule(t)
  /\ UNCHANGED <<now, up, row, job, cb, running, tracked>>

\* The service is being closed.
Closes ==
  /\ "close" \in Events /\ Signals
  /\ UNCHANGED <<now, task, row, running, tracked>>
  /\ \/ /\ up = "up" /\ up' = "closing"
        /\ \A t \in Tasks : job'[t] = None /\ cb'[t] = None
     \/ up = "closing" /\ UNCHANGED <<up, job, cb>>

\* The process is gone: after a close nothing was running.
Dies ==
  /\ "crash" \in Events \/ \A r \in Runs : ~Live(r)
  /\ up # "down" /\ Events \cap {"close", "crash"} # {}
  /\ Forget

\* A step of the process.
LEMMA ProcessSteps ==
  ASSUME Typed
  PROVE  /\ "cancel" \in Events /\ (\E t \in Tasks : CancelTask(t)) => Cancels
         /\ ProcessStep => Closes \/ Dies \/ Start
<1>1. /\ task \in [Tasks -> TaskRow] /\ co \in [Runs -> Coroutine]
      /\ \A r \in Runs : co[r] \in Coroutine
  BY DEF Typed, TypeOK
<1>2. ASSUME NEW r \in Runs
      PROVE  LET s == Signalled(co[r])
             IN  /\ s.phase = co[r].phase /\ s.stale = co[r].stale
                 /\ s.snap = co[r].snap /\ s.watch = co[r].watch
                 /\ (co[r] = Idle => s = Idle)
  <2>1. CASE co[r].phase \in {"idle", "ended"}
    BY <2>1 DEF Signalled
  <2>2. CASE co[r].phase \notin {"idle", "ended"}
    <3>1. Signalled(co[r]) = [co[r] EXCEPT !.sig = "pending"]
      BY <2>2 DEF Signalled
    <3>2. co[r] # Idle
      BY <2>2 DEF Idle
    <3>. QED
      BY <1>1, <3>1, <3>2 DEF Coroutine
  <2>. QED
    BY <2>1, <2>2
<1>3. ASSUME \A r \in Runs : co'[r] \in {co[r], Signalled(co[r])} PROVE Signals
  BY <1>2, <1>3 DEF Signals
<1>4. ASSUME NEW t \in Tasks, CancelTask(t), "cancel" \in Events PROVE Cancels
  <2>1. Signals
    BY <1>3, <1>4 DEF CancelTask
  <2>2. \A u \in Tasks : SameSchedule(u)
    BY <1>1, <1>4 DEF CancelTask, SameSchedule, TaskRow
  <2>3. \A r \in Runs : co'[r] = co[r] \/ running[t] = r
    BY <1>4 DEF CancelTask
  <2>. QED
    BY <1>4, <2>1, <2>2, <2>3 DEF CancelTask, Cancels, timers, shared
<1>5. ASSUME Close, "close" \in Events PROVE Closes
  <2>1. Signals
    BY <1>3, <1>5 DEF Close
  <2>. QED
    BY <1>5, <2>1 DEF Close, Closes, db, shared
<1>6. ASSUME NEW r \in Runs, LoopCancel(r), "close" \in Events PROVE Closes
  <2>1. Signals
    BY <1>1, <1>3, <1>6 DEF LoopCancel
  <2>. QED
    BY <1>6, <2>1 DEF LoopCancel, Closes, db, timers, shared
<1>7. ASSUME Stop, "close" \in Events PROVE Dies
  BY <1>7 DEF Stop, Dies
<1>8. ASSUME Crash, "crash" \in Events PROVE Dies
  BY <1>8 DEF Crash, Dies
<1>. QED
  BY <1>4, <1>5, <1>6, <1>7, <1>8 DEF ProcessStep

\* What a step of the specification can be.
StepKinds ==
  \/ UNCHANGED vars
  \/ \E r \in Runs : Moves(r) \/ \E status \in Outcomes : Settles(r, status)
  \/ \E t \in Tasks : \/ Fire(t) \/ StaleCallback(t)
                      \/ Creates(t) \/ Redrafts(t) \/ Rearms(t) \/ Retires(t)
  \/ \E t \in Tasks, r \in Runs :
       \/ Starts(t, r) \/ SkipsBusy(t, r) \/ SkipsNext(t, r)
       \/ \E kind \in {"manual", "test"} : Launches(t, r, kind)
  \/ Cancels \/ Closes \/ Dies \/ Start \/ Tick

\* Every step is one of them.
LEMMA Steps ==
  ASSUME Typed, [Next]_vars
  PROVE  StepKinds
<1>1. CASE UNCHANGED vars
  BY <1>1 DEF StepKinds
<1>2. CASE Tick \/ TimerStep
  BY <1>2, AddedSteps DEF StepKinds, TimerStep
<1>3. CASE AdminStep
  BY <1>3, AdminSteps DEF StepKinds
<1>4. CASE UserStep
  BY <1>4, AddedSteps, ProcessSteps DEF StepKinds, UserStep, UserRow
<1>5. CASE ProcessStep
  BY <1>5, ProcessSteps DEF StepKinds
<1>6. CASE \E r \in Runs : \/ RunStep(r) \/ WatcherPoll(r)
                           \/ ExecutorReturned(r) \/ FlagObserved(r)
  BY <1>6, RunSteps DEF StepKinds
<1>. QED
  BY <1>1, <1>2, <1>3, <1>4, <1>5, <1>6 DEF Next

\* CheckinService.start, task by task.
LEMMA StartEffect ==
  ASSUME Typed, Start
  PROVE  /\ up = "down" /\ up' = "up"
         /\ UNCHANGED <<now, row, cb, co, running, tracked>>
         /\ \A t \in Tasks :
              /\ task'[t].enabled = task[t].enabled
              /\ task'[t].archived = task[t].archived
              /\ task'[t].cancel = task[t].cancel
              /\ task'[t].draft = task[t].draft
              /\ task'[t].version = task[t].version
              /\ IF task[t].enabled /\ ~task[t].archived /\ task[t].version # None
                 THEN IF task[t].next = None \/ task[t].next <= now
                      THEN /\ task'[t].next = NextRunFor(None)
                           /\ job'[t] \in {NextRunFor(None), task[t].next}
                           /\ NextRunFor(None) # None => job'[t] = NextRunFor(None)
                      ELSE task'[t].next = task[t].next /\ job'[t] = task[t].next
                 ELSE task'[t].next = task[t].next /\ job'[t] = None
<1>. SUFFICES ASSUME NEW t \in Tasks
              PROVE  /\ task'[t].enabled = task[t].enabled
                     /\ task'[t].archived = task[t].archived
                     /\ task'[t].cancel = task[t].cancel
                     /\ task'[t].draft = task[t].draft
                     /\ task'[t].version = task[t].version
                     /\ IF task[t].enabled /\ ~task[t].archived /\ task[t].version # None
                        THEN IF task[t].next = None \/ task[t].next <= now
                             THEN /\ task'[t].next = NextRunFor(None)
                                  /\ job'[t] \in {NextRunFor(None), task[t].next}
                                  /\ NextRunFor(None) # None => job'[t] = NextRunFor(None)
                             ELSE task'[t].next = task[t].next /\ job'[t] = task[t].next
                        ELSE task'[t].next = task[t].next /\ job'[t] = None
  BY DEF Start, shared
<1>. DEFINE expired == task[t].next = None \/ task[t].next <= now
            fresh   == IF expired THEN NextRunFor(None) ELSE task[t].next
<1>1. task[t] \in TaskRow
  BY DEF Typed, TypeOK
<1>2. CASE task[t].enabled /\ ~task[t].archived /\ task[t].version # None
  <2>1. /\ task'[t] = [task[t] EXCEPT !.next = fresh]
        /\ job'[t] = IF fresh = None THEN task[t].next ELSE fresh
    BY <1>2 DEF Start
  <2>2. CASE expired
    <3>1. fresh = NextRunFor(None)
      BY <2>2
    <3>. QED
      BY <1>1, <1>2, <2>1, <2>2, <3>1 DEF TaskRow
  <2>3. CASE ~expired
    <3>1. fresh = task[t].next
      BY <2>3
    <3>. QED
      BY <1>1, <1>2, <2>1, <2>3, <3>1 DEF TaskRow
  <2>. QED
    BY <2>2, <2>3
<1>3. CASE ~(task[t].enabled /\ ~task[t].archived /\ task[t].version # None)
  <2>1. task'[t] = task[t] /\ job'[t] = None
    BY <1>3 DEF Start
  <2>. QED
    BY <1>3, <2>1
<1>. QED
  BY <1>2, <1>3

\* The next occurrence is later than now and than the one it follows.
LEMMA NextRunForLater ==
  ASSUME Typed, NEW after \in Occ \cup {None}, NextRunFor(after) # None
  PROVE  /\ NextRunFor(after) \in Occ /\ NextRunFor(after) > now
         /\ after # None => NextRunFor(after) > after
BY ConstAssumption DEF Typed, TypeOK, NextRunFor, Occ

-----------------------------------------------------------------------------
(* Rows and timers *)

\* An occurrence is pending for enabled tasks only, and a task is enabled only
\* while it can be run.
Planned ==
  \A t \in Tasks :
    /\ task[t].next # None => task[t].enabled
    /\ task[t].enabled => /\ task[t].draft # None /\ task[t].version # None
                          /\ ~task[t].archived

\* A timer is armed for the task's next occurrence, or, after a start that
\* found the schedule ended, for one that is over.
Armed ==
  \A t \in Tasks : job[t] # None =>
    job[t] = task[t].next \/ (task[t].next = None /\ job[t] <= now)

\* A service that is closing submits no callbacks, one that is down has no
\* coroutines, and a coroutine that is over has left nothing behind.
Down ==
  /\ \A r \in Runs : ~Live(r) => co[r] = Idle
  /\ up # "up" => \A t \in Tasks : cb[t] = None
  /\ up = "down" => \A r \in Runs : co[r] = Idle

\* Planned is inductive.
LEMMA PlannedStep ==
  ASSUME Typed, Planned, StepKinds
  PROVE  Planned'
<1>0. None \notin Keys
  BY ConstAssumption
<1>1. ASSUME NEW t \in Tasks, SameSchedule(t)
      PROVE  /\ task'[t].next # None => task'[t].enabled
             /\ task'[t].enabled => /\ task'[t].draft # None /\ task'[t].version # None
                                    /\ ~task'[t].archived
  BY <1>1 DEF SameSchedule, Planned
<1>2. ASSUME SameSchedules PROVE Planned'
  BY <1>1, <1>2 DEF SameSchedules, Planned
<1>3. ASSUME NEW t \in Tasks, Reschedules(t, NextRunFor(task[t].next)), task[t].enabled
      PROVE  Planned'
  BY <1>1, <1>3 DEF Reschedules, Planned
<1>4. CASE UNCHANGED task
  BY <1>4 DEF Planned
<1>5. ASSUME NEW r \in Runs, Moves(r) PROVE Planned'
  BY <1>2, <1>5 DEF Moves, SameSchedules
<1>6. ASSUME NEW r \in Runs, NEW status \in Outcomes, Settles(r, status) PROVE Planned'
  BY <1>2, <1>3, <1>6, SettleEffect DEF Consumes, Stays
<1>7. ASSUME NEW t \in Tasks, Creates(t) \/ Redrafts(t) \/ Rearms(t) \/ Retires(t)
      PROVE  Planned'
  BY <1>0, <1>7 DEF Creates, Redrafts, Rearms, Retires, Administers, Planned
<1>8. ASSUME NEW t \in Tasks, NEW r \in Runs,
             \/ Starts(t, r) \/ SkipsBusy(t, r) \/ SkipsNext(t, r)
             \/ \E kind \in {"manual", "test"} : Launches(t, r, kind)
      PROVE  Planned'
  BY <1>2, <1>3, <1>8 DEF Starts, SkipsBusy, SkipsNext, Launches
<1>9. CASE Cancels
  BY <1>1, <1>9 DEF Cancels, Planned
<1>10. CASE Start
  BY <1>10, StartEffect DEF Planned
<1>. QED
  BY <1>4, <1>5, <1>6, <1>7, <1>8, <1>9, <1>10
     DEF StepKinds, vars, db, Fire, StaleCallback, Closes, Dies, Forget, Tick

\* So is Armed.
LEMMA ArmedStep ==
  ASSUME Typed, Planned, Armed, StepKinds
  PROVE  Armed'
<1>. DEFINE ArmedFor(t) ==
              job[t] # None =>
                job[t] = task[t].next \/ (task[t].next = None /\ job[t] <= now)
<1>1. /\ None \notin Nat /\ now \in Nat
      /\ \A t \in Tasks : /\ job[t] \in Occ \cup {None}
                          /\ task[t].next \in Occ \cup {None}
  BY ConstAssumption DEF Typed, TypeOK, TaskRow
<1>2. ASSUME NEW t \in Tasks, SameSchedule(t), UNCHANGED now,
             job'[t] \in {job[t], Arm(task[t]), None}
      PROVE  ArmedFor(t)'
  BY <1>2 DEF SameSchedule, Armed, Arm
<1>3. ASSUME SameSchedules, UNCHANGED <<now, job>> PROVE Armed'
  BY <1>2, <1>3 DEF SameSchedules, Armed
<1>4. ASSUME NEW t \in Tasks, Reschedules(t, NextRunFor(task[t].next)), UNCHANGED now
      PROVE  Armed'
  BY <1>2, <1>4 DEF Reschedules, Armed
<1>5. ASSUME UNCHANGED <<task, now>>, \A t \in Tasks : job'[t] \in {job[t], None}
      PROVE  Armed'
  BY <1>5 DEF Armed
<1>6. ASSUME NEW r \in Runs, Moves(r) PROVE Armed'
  BY <1>3, <1>6 DEF Moves, SameSchedules
<1>7. ASSUME NEW r \in Runs, NEW status \in Outcomes, Settles(r, status) PROVE Armed'
  <2>1. CASE Consumes(r)
    BY <1>4, <1>7, <2>1, SettleEffect DEF Consumes, Settles
  <2>2. CASE Stays(r)
    BY <1>2, <1>7, <2>2, SettleEffect DEF Stays, Settles, SameSchedules, Armed
  <2>. QED
    BY <1>7, <2>1, <2>2, SettleEffect
<1>8. ASSUME NEW t \in Tasks, Fire(t) \/ StaleCallback(t) PROVE Armed'
  BY <1>5, <1>8 DEF Fire, StaleCallback, db, Typed, TypeOK
<1>9. ASSUME NEW t \in Tasks, Creates(t) \/ Redrafts(t) \/ Rearms(t) \/ Retires(t)
      PROVE  Armed'
  <2>1. CASE Creates(t)
    BY <2>1 DEF Creates, Armed, Planned
  <2>2. CASE Redrafts(t) \/ Rearms(t) \/ Retires(t)
    BY <2>2 DEF Redrafts, Rearms, Retires, Administers, Armed
  <2>. QED
    BY <1>9, <2>1, <2>2
<1>10. ASSUME NEW t \in Tasks, NEW r \in Runs,
              \/ Starts(t, r) \/ SkipsBusy(t, r) \/ SkipsNext(t, r)
              \/ \E kind \in {"manual", "test"} : Launches(t, r, kind)
       PROVE  Armed'
  BY <1>3, <1>4, <1>10 DEF Starts, SkipsBusy, SkipsNext, Launches
<1>11. CASE Cancels
  BY <1>2, <1>11 DEF Cancels, Armed
<1>12. CASE Closes \/ Dies
  BY <1>5, <1>12 DEF Closes, Dies, Forget, db
<1>13. CASE Start
  BY <1>1, <1>13, StartEffect DEF Armed
<1>14. CASE Tick
  BY <1>1, <1>14 DEF Tick, db, timers, Armed, Occ
<1>15. CASE UNCHANGED vars
  BY <1>15 DEF vars, Armed
<1>. QED
  BY <1>6, <1>7, <1>8, <1>9, <1>10, <1>11, <1>12, <1>13, <1>14, <1>15 DEF StepKinds

\* So is Down.
LEMMA DownStep ==
  ASSUME Typed, Down, StepKinds
  PROVE  Down'
<1>0. co \in [Runs -> Coroutine] /\ cb \in [Tasks -> Occ \cup {None}]
  BY DEF Typed, TypeOK
<1>1. \A r \in Runs : ~Live(r)' => co'[r] = Idle
  <2>1. ASSUME NEW r \in Runs, OnlyRun(r) \/ \A s \in Runs \ {r} : co'[s] = co[s],
               co'[r] = Idle \/ Live(r)'
        PROVE  \A s \in Runs : ~Live(s)' => co'[s] = Idle
    BY <2>1 DEF OnlyRun, Live, Down
  <2>2. ASSUME NEW r \in Runs, Moves(r) PROVE co'[r] = Idle \/ Live(r)'
    <3>1. Live(r)
      BY <2>2 DEF Moves, Down
    <3>. QED
      BY <1>0, <2>2, <3>1 DEF Moves, Begins, Proceeds, Ends, Live, Coroutine, Idle
  <2>3. ASSUME NEW r \in Runs, NEW status \in Outcomes, Settles(r, status)
        PROVE  co'[r] = Idle \/ Live(r)'
    BY <2>3 DEF Settles, Live
  <2>4. ASSUME NEW t \in Tasks, NEW r \in Runs,
               \/ Starts(t, r) \/ SkipsBusy(t, r)
               \/ \E kind \in {"manual", "test"} : Launches(t, r, kind)
        PROVE  Live(r)' /\ OnlyRun(r)
    BY <2>4 DEF Starts, SkipsBusy, Launches, Live, Idle
  <2>5. ASSUME (\E t \in Tasks : Bumps(t)) \/ Signals \/ UNCHANGED co
               \/ \A r \in Runs : co'[r] = Idle
        PROVE  \A s \in Runs : ~Live(s)' => co'[s] = Idle
    BY <2>5 DEF Bumps, Signals, Live, Down
  <2>6. ASSUME NEW t \in Tasks,
               \/ Creates(t) \/ Redrafts(t) \/ Rearms(t) \/ Retires(t)
               \/ Fire(t) \/ StaleCallback(t) \/ \E r \in Runs : SkipsNext(t, r)
        PROVE  (\E u \in Tasks : Bumps(u)) \/ UNCHANGED co
    BY <2>6 DEF Creates, Redrafts, Rearms, Retires, Administers, Fire, StaleCallback,
                SkipsNext
  <2>7. ASSUME Cancels \/ Closes \/ Dies \/ Start \/ Tick \/ UNCHANGED vars
        PROVE  Signals \/ UNCHANGED co \/ \A r \in Runs : co'[r] = Idle
    BY <2>7 DEF Cancels, Closes, Dies, Forget, Start, Tick, vars
  <2>8. ASSUME NEW r \in Runs, Moves(r) \/ \E status \in Outcomes : Settles(r, status)
        PROVE  \A s \in Runs : ~Live(s)' => co'[s] = Idle
    <3>1. \A s \in Runs \ {r} : co'[s] = co[s]
      BY <2>8 DEF Moves, Settles
    <3>. QED
      BY <2>1, <2>2, <2>3, <2>8, <3>1
  <2>. QED
    BY <2>1, <2>4, <2>5, <2>6, <2>7, <2>8 DEF StepKinds
<1>2. /\ up' # "up" => \A t \in Tasks : cb'[t] = None
      /\ up' = "down" => \A r \in Runs : co'[r] = Idle
  <2>1. CASE UNCHANGED vars
    BY <2>1 DEF vars, Down
  <2>2. CASE up # "down" /\ UNCHANGED <<up, cb>>
    BY <2>2 DEF Down
  <2>3. ASSUME NEW r \in Runs, Live(r) PROVE up # "down"
    BY <2>3 DEF Down, Live, Idle
  <2>4. ASSUME NEW r \in Runs, Moves(r) PROVE up # "down" /\ UNCHANGED <<up, cb>>
    BY <2>4 DEF Moves, Down
  <2>5. ASSUME NEW r \in Runs, NEW status \in Outcomes, Settles(r, status)
        PROVE  up # "down" /\ UNCHANGED <<up, cb>>
    BY <2>3, <2>5, SettleEffect DEF Settles
  <2>6. CASE \E t \in Tasks : Fire(t) \/ StaleCallback(t)
    BY <1>0, <2>6 DEF Fire, StaleCallback, Down
  <2>7. ASSUME NEW t \in Tasks, Creates(t) \/ Redrafts(t) \/ Rearms(t) \/ Retires(t)
        PROVE  up # "down" /\ UNCHANGED <<up, cb>>
    BY <2>7 DEF Creates, Redrafts, Rearms, Retires, Administers
  <2>8. ASSUME NEW t \in Tasks, NEW r \in Runs, Starts(t, r) \/ SkipsBusy(t, r)
        PROVE  up' = "up"
    BY <1>0, <2>8 DEF Starts, SkipsBusy, Down, Typed, TypeOK
  <2>9. ASSUME NEW t \in Tasks, NEW r \in Runs,
               SkipsNext(t, r) \/ \E kind \in {"manual", "test"} : Launches(t, r, kind)
        PROVE  up # "down" /\ UNCHANGED <<up, cb>>
    BY <2>9 DEF SkipsNext, Launches
  <2>10. CASE Cancels \/ Tick
    BY <2>10 DEF Cancels, Tick, timers, Down
  <2>11. CASE Closes \/ Dies
    BY <2>11 DEF Closes, Dies, Forget, Down
  <2>12. CASE Start
    BY <2>12, StartEffect DEF Down
  <2>. QED
    BY <2>1, <2>2, <2>4, <2>5, <2>6, <2>7, <2>8, <2>9, <2>10, <2>11, <2>12
       DEF StepKinds
<1>. QED
  BY <1>1, <1>2 DEF Down

\* The rows, timers and callbacks agree in every state.
LEMMA Schedules == Spec => [](Typed /\ Planned /\ Armed /\ Down)
<1>1. Init => Planned /\ Armed /\ Down
  BY DEF Init, NoTask, Planned, Armed, Down, Live
<1>2. Typed /\ Planned /\ Armed /\ Down /\ [Next]_vars => (Planned /\ Armed /\ Down)'
  BY Steps, PlannedStep, ArmedStep, DownStep
<1>. QED
  BY <1>1, <1>2, Typing, PTL DEF Spec

\* A timer that is not due stands for the next occurrence of an enabled task,
\* whatever edits, publications, runs, restarts and shutdowns come between
\* (_sync_schedule and the callers that write the row without it).
THEOREM TimersMatch == Spec => []TimerMatchesRow
<1>1. Typed /\ Planned /\ Armed => TimerMatchesRow
  <2>. SUFFICES ASSUME Typed, Planned, Armed, NEW t \in Tasks,
                       job[t] # None, job[t] > now
                PROVE  /\ task[t].enabled /\ ~task[t].archived
                       /\ task[t].next = job[t]
    BY DEF TimerMatchesRow
  <2>1. job[t] = task[t].next
    BY DEF Armed, Typed, TypeOK, Occ
  <2>. QED
    BY <2>1 DEF Planned
<1>. QED
  BY <1>1, Schedules, PTL

-----------------------------------------------------------------------------
(* Rows, coroutines and the registries *)

\* What the row of a run says at each stage of its coroutine.
Stage(r) ==
  /\ co[r].phase \in Early => row[r].status = "running"
  /\ co[r].phase \in Late => row[r].status \in Outcomes
  /\ co[r].phase = "skipping" => row[r].status = "skipped"
  /\ co[r].phase \in {"created", "ended"} => Background(r)
  /\ row[r].status = None => row[r].kind = "scheduled"

Stages == \A r \in Runs : Stage(r)

\* The registries name runs of their own tasks, and live progress is as old as
\* the row.
Books ==
  \A t \in Tasks :
    /\ running[t] # None => row[running[t]].task = t /\ row[running[t]].status # None
    /\ tracked[t] # None =>
         /\ row[tracked[t]].task = t /\ row[tracked[t]].status # None
         /\ row[tracked[t]].shown = row[tracked[t]].status

\* Stages is inductive.
LEMMA StagesStep ==
  ASSUME Typed, Stages, StepKinds
  PROVE  Stages'
<1>1. ASSUME NEW s \in Runs, row'[s] = row[s], co'[s].phase \in {co[s].phase, "idle"}
      PROVE  Stage(s)'
  BY <1>1 DEF Stages, Stage, Early, Late, Background
<1>2. ASSUME UNCHANGED row, \A s \in Runs : co'[s].phase \in {co[s].phase, "idle"}
      PROVE  Stages'
  BY <1>1, <1>2 DEF Stages
<1>3. ASSUME NEW r \in Runs, OnlyRun(r), Stage(r)' PROVE Stages'
  BY <1>1, <1>3 DEF OnlyRun, Stages
<1>4. ASSUME NEW r \in Runs, Moves(r) PROVE Stages'
  <2>0. row' = row /\ \A s \in Runs \ {r} : co'[s] = co[s]
    BY <1>4 DEF Moves
  <2>1. Stage(r)
    BY DEF Stages
  <2>2. CASE Begins(r)
    <3>1. co'[r].phase = "acquiring"
      BY <2>2 DEF Begins, Typed, TypeOK, Coroutine
    <3>2. Stage(r)'
      BY <2>0, <2>1, <2>2, <3>1 DEF Begins, Stage, Early, Late, Background
    <3>. QED
      BY <1>3, <2>0, <3>2 DEF OnlyRun
  <2>3. CASE Proceeds(r)
    <3>1. Stage(r)'
      BY <2>0, <2>1, <2>3 DEF Proceeds, Stage, Early, Late, Background
    <3>. QED
      BY <1>3, <2>0, <3>1 DEF OnlyRun
  <2>4. CASE Ends(r)
    <3>1. \/ co'[r].phase = "idle"
          \/ co'[r].phase = "ended" /\ Background(r)
      BY <2>4 DEF Ends, Idle
    <3>2. Stage(r)'
      BY <2>0, <2>1, <3>1 DEF Stage, Early, Late, Background
    <3>. QED
      BY <1>3, <2>0, <3>2 DEF OnlyRun
  <2>. QED
    BY <1>4, <2>2, <2>3, <2>4 DEF Moves
<1>5. ASSUME NEW r \in Runs, NEW status \in Outcomes, Settles(r, status) PROVE Stages'
  <2>1. co'[r].phase \in {"reporting", "handling", "idle"} /\ status # "running" /\ status # None
    BY <1>5, ConstAssumption DEF Settles, Idle, Outcomes, Status
  <2>2. Stage(r)'
    BY <1>5, <2>1, SettleEffect DEF Stage, Early, Late
  <2>. QED
    BY <1>3, <1>5, <2>2, SettleEffect DEF OnlyRun, Settles
<1>6. ASSUME NEW t \in Tasks, Creates(t) \/ Redrafts(t) \/ Rearms(t) \/ Retires(t)
      PROVE  Stages'
  BY <1>2, <1>6 DEF Creates, Redrafts, Rearms, Retires, Administers, Bumps
<1>7. None # "running" /\ None # "skipped"
  BY ConstAssumption DEF Status
<1>8. ASSUME NEW t \in Tasks, NEW r \in Runs, Starts(t, r) PROVE Stages'
  <2>1. Stage(r)'
    BY <1>7, <1>8 DEF Starts, NewRow, Stage, Early, Late
  <2>. QED
    BY <1>3, <1>8, <2>1 DEF Starts
<1>9. ASSUME NEW t \in Tasks, NEW r \in Runs, SkipsBusy(t, r) PROVE Stages'
  <2>1. /\ co'[r].phase = "skipping" /\ row'[r].status = "skipped"
        /\ row'[r].kind = "scheduled"
    BY <1>9 DEF SkipsBusy, NewRow, Idle
  <2>2. Stage(r)'
    BY <2>1 DEF Stage, Early, Late
  <2>. QED
    BY <1>3, <1>9, <2>2 DEF SkipsBusy
<1>10. ASSUME NEW t \in Tasks, NEW r \in Runs, SkipsNext(t, r) PROVE Stages'
  <2>1. co'[r].phase = "idle" /\ row'[r].status = "skipped"
    BY <1>10 DEF SkipsNext, NoRow, Bumps, Live
  <2>2. Stage(r)'
    BY <1>7, <2>1 DEF Stage, Early, Late
  <2>. QED
    BY <1>1, <1>10, <2>2 DEF SkipsNext, Bumps, Stages
<1>11. ASSUME NEW t \in Tasks, NEW r \in Runs, NEW kind \in {"manual", "test"},
              Launches(t, r, kind)
       PROVE  Stages'
  <2>1. /\ co'[r].phase = "created" /\ row'[r].status = "running"
        /\ row'[r].kind = kind
    BY <1>11 DEF Launches, NewRow, Idle
  <2>2. Stage(r)'
    BY <1>7, <2>1 DEF Stage, Early, Late, Background
  <2>. QED
    BY <1>3, <1>11, <2>2 DEF Launches
<1>12. CASE Cancels \/ Closes
  BY <1>2, <1>12 DEF Cancels, Closes, Signals
<1>13. CASE Dies
  BY <1>2, <1>13 DEF Dies, Forget, db, Idle
<1>14. CASE UNCHANGED <<row, co>>
  BY <1>2, <1>14
<1>. QED
  BY <1>4, <1>5, <1>6, <1>8, <1>9, <1>10, <1>11, <1>12, <1>13, <1>14
     DEF StepKinds, vars, db, Fire, StaleCallback, Start, Tick

\* So is Books.
LEMMA BooksStep ==
  ASSUME Typed, Books, RunFrame, StepKinds
  PROVE  Books'
<1>. DEFINE Registers(t) == running[t] # None =>
              row[running[t]].task = t /\ row[running[t]].status # None
            Follows(t) == tracked[t] # None =>
              /\ row[tracked[t]].task = t /\ row[tracked[t]].status # None
              /\ row[tracked[t]].shown = row[tracked[t]].status
<1>0. /\ running \in [Tasks -> Runs \cup {None}] /\ tracked \in [Tasks -> Runs \cup {None}]
      /\ row \in [Runs -> RunRow]
      /\ \A t \in Tasks : Registers(t) /\ Follows(t)
  BY DEF Typed, TypeOK, Books
<1>1. ASSUME NEW t \in Tasks, running'[t] \in {running[t], None} PROVE Registers(t)'
  BY <1>0, <1>1 DEF RunFrame, RowsKept
<1>2. ASSUME NEW t \in Tasks, tracked'[t] \in {tracked[t], None},
             \A r \in Runs : row[r].status # None => row'[r] = row[r]
      PROVE  Follows(t)'
  BY <1>0, <1>2
<1>3. ASSUME NEW t \in Tasks, NEW r \in Runs, row'[r].task = t,
             row'[r].status # None, row'[r].shown = row'[r].status,
             row[r].status = None, \A s \in Runs \ {r} : row'[s] = row[s],
             tracked' = [tracked EXCEPT ![t] = r],
             running' \in {running, [running EXCEPT ![t] = r]}
      PROVE  Books'
  <2>1. \A u \in Tasks : Registers(u)'
    BY <1>0, <1>1, <1>3
  <2>2. \A u \in Tasks : Follows(u)'
    BY <1>0, <1>2, <1>3
  <2>. QED
    BY <2>1, <2>2 DEF Books
<1>4. ASSUME UNCHANGED <<row, tracked>>, \A t \in Tasks : Registers(t)' PROVE Books'
  BY <1>0, <1>4 DEF Books
<1>5. ASSUME NEW r \in Runs, Moves(r) PROVE Books'
  <2>1. UNCHANGED <<row, tracked>>
    BY <1>5 DEF Moves
  <2>2. ASSUME Live(r) PROVE row[r].task \in Tasks /\ row[r].status # None
    BY <2>2, LiveRow DEF Typed, LiveRuns
  <2>3. CASE Begins(r)
    <3>1. Live(r) /\ running' = [running EXCEPT ![row[r].task] = r]
      BY <2>3 DEF Begins, Live
    <3>. QED
      BY <1>0, <1>4, <2>1, <2>2, <3>1
  <2>4. CASE UNCHANGED running
    BY <1>0, <1>4, <2>1, <2>4
  <2>5. CASE Unregisters(r)
    BY <1>0, <1>1, <1>4, <2>1, <2>5 DEF Unregisters
  <2>. QED
    BY <1>5, <2>3, <2>4, <2>5 DEF Moves, Proceeds, Ends
<1>6. ASSUME NEW r \in Runs, NEW status \in Outcomes, Settles(r, status) PROVE Books'
  <2>1. \A t \in Tasks : running'[t] \in {running[t], None}
    BY <1>0, <1>6 DEF Settles, Unregisters
  <2>2. ASSUME NEW t \in Tasks PROVE Follows(t)'
    <3>1. tracked' = tracked /\ status # None
      BY <1>6, ConstAssumption DEF Settles, Outcomes, Status
    <3>2. CASE tracked[t] = r
      BY <1>0, <1>6, <3>1, <3>2, SettleEffect, ConstAssumption
    <3>3. CASE tracked[t] # r
      BY <1>0, <1>6, <3>1, <3>3, SettleEffect
    <3>. QED
      BY <3>2, <3>3
  <2>. QED
    BY <1>1, <2>1, <2>2 DEF Books
<1>7. None # "running" /\ None # "skipped"
  BY ConstAssumption DEF Status
<1>8. ASSUME NEW t \in Tasks, NEW r \in Runs, Starts(t, r) PROVE Books'
  <2>1. /\ row'[r].task = t /\ row'[r].status = "running"
        /\ row'[r].shown = "running"
    BY <1>8 DEF Starts, NewRow
  <2>. QED
    BY <1>3, <1>7, <1>8, <2>1 DEF Starts, OnlyRun
<1>9. ASSUME NEW t \in Tasks, NEW r \in Runs, SkipsBusy(t, r) PROVE Books'
  <2>1. /\ row'[r].task = t /\ row'[r].status = "skipped"
        /\ row'[r].shown = "skipped"
    BY <1>9 DEF SkipsBusy, NewRow
  <2>. QED
    BY <1>3, <1>7, <1>9, <2>1 DEF SkipsBusy, OnlyRun
<1>10. ASSUME NEW t \in Tasks, NEW r \in Runs, SkipsNext(t, r) PROVE Books'
  BY <1>1, <1>2, <1>10 DEF SkipsNext, Books
<1>11. ASSUME NEW t \in Tasks, NEW r \in Runs, NEW kind \in {"manual", "test"},
              Launches(t, r, kind)
       PROVE  Books'
  <2>1. /\ row'[r].task = t /\ row'[r].status = "running"
        /\ row'[r].shown = "running"
    BY <1>11 DEF Launches, NewRow
  <2>. QED
    BY <1>3, <1>7, <1>11, <2>1 DEF Launches, OnlyRun
<1>12. CASE Dies
  BY <1>0, <1>12 DEF Dies, Forget, db, Books
<1>13. CASE UNCHANGED <<row, running, tracked>>
  BY <1>13 DEF Books
<1>. QED
  BY <1>5, <1>6, <1>8, <1>9, <1>10, <1>11, <1>12, <1>13
     DEF StepKinds, vars, db, shared, Fire, StaleCallback, Start, Tick, Cancels, Closes,
         Creates, Redrafts, Rearms, Retires, Administers

\* Rows, coroutines and registries agree in every state.
LEMMA Bookkeeping == Spec => [](Stages /\ Books)
<1>1. Init => Stages /\ Books
  BY DEF Init, NoRow, Idle, Stages, Stage, Early, Late, Books
<1>2. Typed /\ DueCallbacks /\ Stages /\ Books /\ [Next]_vars => (Stages /\ Books)'
  BY Steps, FrameStep, StagesStep, BooksStep
<1>. QED
  BY <1>1, <1>2, Typing, PTL DEF Spec

\* A manual or test run whose outcome is recorded leaves every task's next
\* occurrence alone; a test run leaves the task and the timers alone too, in
\* whatever way it ends (SettleTask, the done callback).
THEOREM ManualRunsKeepSchedules == Spec => ManualKeepsSchedule
<1>. DEFINE Kept == \A r \in Runs : (Background(r) /\ row'[r].status # row[r].status) =>
                      /\ \A t \in Tasks : task'[t].next = task[t].next
                      /\ row[r].kind = "test" => UNCHANGED <<task, job>>
<1>1. ASSUME Typed, Stages, [Next]_vars PROVE Kept
  <2>. SUFFICES ASSUME NEW r \in Runs, Background(r), row'[r].status # row[r].status
                PROVE  /\ \A t \in Tasks : task'[t].next = task[t].next
                       /\ row[r].kind = "test" => UNCHANGED <<task, job>>
    OBVIOUS
  <2>1. StepKinds
    BY <1>1, Steps
  <2>2. ASSUME NEW s \in Runs, NEW status \in Outcomes, Settles(s, status)
        PROVE  /\ \A t \in Tasks : task'[t].next = task[t].next
               /\ row[r].kind = "test" => UNCHANGED <<task, job>>
    <3>1. s = r /\ ~Consumes(r)
      BY <1>1, <2>2, SettleEffect DEF Background, Consumes
    <3>. QED
      BY <1>1, <2>2, <3>1, SettleEffect
         DEF Settles, SettleTask, Stays, SameSchedules, SameSchedule
  <2>3. ASSUME NEW t \in Tasks, NEW s \in Runs,
               \/ Starts(t, s) \/ SkipsBusy(t, s) \/ SkipsNext(t, s)
               \/ \E kind \in {"manual", "test"} : Launches(t, s, kind)
        PROVE  /\ \A u \in Tasks : task'[u].next = task[u].next
               /\ row[r].kind = "test" => UNCHANGED <<task, job>>
    <3>1. row[s].status = None /\ (r # s => row'[r] = row[r])
      BY <2>3 DEF Starts, SkipsBusy, SkipsNext, Launches, OnlyRun
    <3>2. row[r].status = None /\ row[r].kind = "scheduled"
      BY <1>1, <3>1 DEF Stages, Stage
    <3>. QED
      BY <3>2 DEF Background
  <2>. QED
    BY <2>1, <2>2, <2>3
       DEF StepKinds, Moves, Fire, StaleCallback, Creates, Redrafts, Rearms, Retires,
           Administers, Cancels, Closes, Dies, Forget, Start, Tick, vars, db
<1>2. Spec => [][Kept]_vars
  BY <1>1, Typing, Bookkeeping, PTL DEF Spec
<1>. QED
  BY <1>2 DEF ManualKeepsSchedule

\* The progress served for a finished run is its outcome, whatever runs of the
\* task came later (progress.py).
THEOREM ProgressAgrees == Spec => []TrackedProgressAgrees
<1>1. Books => TrackedProgressAgrees
  BY DEF Books, TrackedProgressAgrees
<1>. QED
  BY <1>1, Bookkeeping, PTL

\* RunningRowIsLive is preserved by every step but a crash.
LEMMA RunningRowStep ==
  ASSUME "crash" \notin Events, Typed, Stages, RunningRowIsLive, StepKinds
  PROVE  RunningRowIsLive'
<1>. DEFINE Settled(r) == (Background(r) /\ row[r].status = "running") =>
              co[r].phase \in {"created", "waiting", "acquiring", "executing", "ended"}
<1>1. ASSUME NEW s \in Runs, row'[s] = row[s], co'[s].phase = co[s].phase
      PROVE  Settled(s)'
  BY <1>1 DEF RunningRowIsLive, Background
<1>2. ASSUME UNCHANGED row, \A s \in Runs : co'[s].phase = co[s].phase
      PROVE  RunningRowIsLive'
  BY <1>1, <1>2 DEF RunningRowIsLive
<1>3. ASSUME NEW r \in Runs, OnlyRun(r), Settled(r)' PROVE RunningRowIsLive'
  BY <1>1, <1>3 DEF OnlyRun, RunningRowIsLive
<1>4. ASSUME NEW r \in Runs, Moves(r) PROVE RunningRowIsLive'
  <2>0. row' = row /\ \A s \in Runs \ {r} : co'[s] = co[s]
    BY <1>4 DEF Moves
  <2>1. Settled(r) /\ Stage(r)
    BY DEF Stages, RunningRowIsLive
  <2>2. CASE Begins(r)
    <3>1. co'[r].phase = "acquiring"
      BY <2>2 DEF Begins, Typed, TypeOK, Coroutine
    <3>. QED
      BY <1>3, <2>0, <3>1 DEF OnlyRun
  <2>3. CASE Proceeds(r)
    <3>1. Settled(r)'
      BY <2>0, <2>1, <2>3 DEF Proceeds, Stage, Late, Background
    <3>. QED
      BY <1>3, <2>0, <3>1 DEF OnlyRun
  <2>4. CASE Ends(r)
    <3>1. Background(r) /\ row[r].status = "running" => co'[r].phase = "ended"
      BY <2>1, <2>4 DEF Ends, Idle, Stage, Late
    <3>2. Settled(r)'
      BY <2>0, <3>1 DEF Background
    <3>. QED
      BY <1>3, <2>0, <3>2 DEF OnlyRun
  <2>. QED
    BY <1>4, <2>2, <2>3, <2>4 DEF Moves
<1>5. ASSUME NEW r \in Runs, NEW status \in Outcomes, Settles(r, status)
      PROVE  RunningRowIsLive'
  <2>1. row'[r].status # "running"
    BY <1>5, SettleEffect DEF Outcomes
  <2>. QED
    BY <1>3, <1>5, <2>1, SettleEffect DEF OnlyRun, Settles
<1>6. ASSUME NEW t \in Tasks, Creates(t) \/ Redrafts(t) \/ Rearms(t) \/ Retires(t)
      PROVE  RunningRowIsLive'
  BY <1>2, <1>6 DEF Creates, Redrafts, Rearms, Retires, Administers, Bumps
<1>7. ASSUME NEW t \in Tasks, NEW r \in Runs, Starts(t, r) \/ SkipsBusy(t, r)
      PROVE  RunningRowIsLive'
  <2>1. CASE Starts(t, r)
    <3>1. row'[r].kind = "scheduled"
      BY <2>1 DEF Starts, NewRow
    <3>. QED
      BY <1>3, <2>1, <3>1 DEF Starts, Background
  <2>2. CASE SkipsBusy(t, r)
    <3>1. row'[r].kind = "scheduled"
      BY <2>2 DEF SkipsBusy, NewRow
    <3>. QED
      BY <1>3, <2>2, <3>1 DEF SkipsBusy, Background
  <2>. QED
    BY <1>7, <2>1, <2>2
<1>8. ASSUME NEW t \in Tasks, NEW r \in Runs, SkipsNext(t, r) PROVE RunningRowIsLive'
  <2>1. ~Background(r)'
    BY <1>8 DEF SkipsNext, NoRow, Background
  <2>. QED
    BY <1>1, <1>8, <2>1 DEF SkipsNext, Bumps, RunningRowIsLive
<1>9. ASSUME NEW t \in Tasks, NEW r \in Runs, NEW kind \in {"manual", "test"},
             Launches(t, r, kind)
      PROVE  RunningRowIsLive'
  <2>1. co'[r].phase = "created"
    BY <1>9 DEF Launches, Idle
  <2>. QED
    BY <1>3, <1>9, <2>1 DEF Launches
<1>10. CASE Cancels \/ Closes
  BY <1>2, <1>10 DEF Cancels, Closes, Signals
<1>11. CASE Dies
  BY <1>2, <1>11 DEF Dies, Forget, db, Idle, Live
<1>12. CASE UNCHANGED <<row, co>>
  BY <1>2, <1>12
<1>. QED
  BY <1>4, <1>5, <1>6, <1>7, <1>8, <1>9, <1>10, <1>11, <1>12
     DEF StepKinds, vars, db, Fire, StaleCallback, Start, Tick

\* However and whenever a manual or test run is cancelled, and whatever closes
\* the service, its row does not stay "running" without a coroutine or a done
\* callback to settle it.  Only a crash leaves such rows.
THEOREM RunningRowsAreLive ==
  ASSUME "crash" \notin Events
  PROVE  Spec => []RunningRowIsLive
<1>1. Init => RunningRowIsLive
  BY DEF Init, NoRow, Background, RunningRowIsLive
<1>2. Typed /\ Stages /\ RunningRowIsLive /\ [Next]_vars => RunningRowIsLive'
  BY Steps, RunningRowStep
<1>. QED
  BY <1>1, <1>2, Typing, Bookkeeping, PTL DEF Spec

-----------------------------------------------------------------------------
(* Runs that wait for their key *)

\* A run that has not got the lock has no watcher; a scheduled one is not in
\* the registry either, so that nothing cancels it while the service is up.
Queuer(r) ==
  co[r].phase \in {"created", "waiting"} =>
    /\ ~co[r].watch
    /\ ~Background(r) => /\ up = "up" => co[r].sig = "no"
                         /\ \A t \in Tasks : running[t] # r

Queuers == \A r \in Runs : Queuer(r)

\* Queuers is inductive.
LEMMA QueuersStep ==
  ASSUME Typed, Down, Books, Queuers, StepKinds
  PROVE  Queuers'
<1>1. ASSUME NEW s \in Runs, co'[s].phase = co[s].phase, co'[s].watch = co[s].watch,
             row'[s].kind = row[s].kind,
             \A t \in Tasks : running'[t] = s => running[t] = s,
             up' = "up" => up = "up" /\ (co[s].sig = "no" => co'[s].sig = "no")
      PROVE  Queuer(s)'
  BY <1>1 DEF Queuers, Queuer, Background
<1>2. ASSUME NEW s \in Runs, co'[s].phase \notin {"created", "waiting"}
      PROVE  Queuer(s)'
  BY <1>2 DEF Queuer
<1>3. ASSUME NEW r \in Runs, \A s \in Runs \ {r} : co'[s] = co[s] /\ row'[s] = row[s],
             \A t \in Tasks : running'[t] \in {running[t], r, None}, up' = up, Queuer(r)'
      PROVE  Queuers'
  BY <1>1, <1>3, ConstAssumption DEF Queuers
<1>4. running \in [Tasks -> Runs \cup {None}] /\ \A t \in Tasks, r \in Runs :
        running[t] = r => row[r].status # None
  BY ConstAssumption DEF Typed, TypeOK, Books
<1>5. ASSUME NEW r \in Runs, Moves(r) PROVE Queuers'
  <2>1. row' = row /\ up' = up /\ \A s \in Runs \ {r} : co'[s] = co[s]
    BY <1>5 DEF Moves
  <2>2. CASE Begins(r)
    <3>1. co'[r].phase = "acquiring" /\ \A t \in Tasks : running'[t] \in {running[t], r}
      BY <1>4, <2>2 DEF Begins, Typed, TypeOK, Coroutine
    <3>. QED
      BY <1>2, <1>3, <2>1, <3>1
  <2>3. CASE Proceeds(r)
    <3>1. Queuer(r)'
      BY <2>1, <2>3 DEF Proceeds, Queuers, Queuer, Background
    <3>. QED
      BY <1>3, <2>1, <2>3, <3>1 DEF Proceeds
  <2>4. CASE Ends(r)
    <3>1. co'[r].phase \notin {"created", "waiting"}
      BY <2>4 DEF Ends, Idle
    <3>2. \A t \in Tasks : running'[t] \in {running[t], None}
      BY <1>4, <2>4 DEF Ends, Unregisters
    <3>. QED
      BY <1>2, <1>3, <2>1, <3>1, <3>2
  <2>. QED
    BY <1>5, <2>2, <2>3, <2>4 DEF Moves
<1>6. ASSUME NEW r \in Runs, NEW status \in Outcomes, Settles(r, status) PROVE Queuers'
  <2>1. co'[r].phase \notin {"created", "waiting"}
    BY <1>6 DEF Settles, Idle
  <2>2. \A t \in Tasks : running'[t] \in {running[t], None}
    BY <1>4, <1>6 DEF Settles, Unregisters
  <2>. QED
    BY <1>2, <1>3, <1>6, <2>1, <2>2, SettleEffect DEF Settles
<1>7. ASSUME NEW t \in Tasks, Creates(t) \/ Redrafts(t) \/ Rearms(t) \/ Retires(t)
      PROVE  Queuers'
  BY <1>1, <1>7 DEF Creates, Redrafts, Rearms, Retires, Administers, Bumps, Queuers
<1>8. ASSUME NEW t \in Tasks, NEW r \in Runs, Starts(t, r) PROVE Queuers'
  <2>1. Queuer(r)'
    BY <1>4, <1>8 DEF Starts, Queuer
  <2>2. \A u \in Tasks : running'[u] \in {running[u], r}
    BY <1>4, <1>8 DEF Starts
  <2>. QED
    BY <1>3, <1>8, <2>1, <2>2 DEF Starts, OnlyRun
<1>9. ASSUME NEW t \in Tasks, NEW r \in Runs, SkipsBusy(t, r) PROVE Queuers'
  <2>1. co'[r].phase = "skipping"
    BY <1>9 DEF SkipsBusy, Idle
  <2>. QED
    BY <1>2, <1>3, <1>9, <2>1 DEF SkipsBusy, OnlyRun
<1>10. ASSUME NEW t \in Tasks, NEW r \in Runs, SkipsNext(t, r) PROVE Queuers'
  <2>1. co'[r].phase \notin {"created", "waiting"}
    BY <1>10 DEF SkipsNext, Bumps, Live
  <2>2. ASSUME NEW s \in Runs \ {r} PROVE Queuer(s)'
    BY <1>1, <1>10 DEF SkipsNext, Bumps
  <2>. QED
    BY <1>2, <2>1, <2>2 DEF Queuers
<1>11. ASSUME NEW t \in Tasks, NEW r \in Runs, NEW kind \in {"manual", "test"},
              Launches(t, r, kind)
       PROVE  Queuers'
  <2>1. Background(r)' /\ ~co'[r].watch
    BY <1>11 DEF Launches, NewRow, Idle, Background
  <2>2. \A u \in Tasks : running'[u] \in {running[u], r}
    BY <1>4, <1>11 DEF Launches
  <2>. QED
    BY <1>3, <1>11, <2>1, <2>2 DEF Launches, OnlyRun, Queuer
<1>12. CASE Cancels
  <2>1. ASSUME NEW s \in Runs PROVE Queuer(s)'
    BY <1>12 DEF Cancels, Signals, Queuers, Queuer, Background
  <2>. QED
    BY <2>1 DEF Queuers
<1>13. CASE Closes
  BY <1>1, <1>13 DEF Closes, Signals, Queuers
<1>14. CASE Dies
  BY <1>2, <1>14 DEF Dies, Forget, Idle, Queuers
<1>15. CASE Start
  BY <1>2, <1>15, StartEffect DEF Down, Idle, Queuers
<1>16. CASE UNCHANGED <<up, row, co, running>>
  BY <1>1, <1>16 DEF Queuers
<1>. QED
  BY <1>5, <1>6, <1>7, <1>8, <1>9, <1>10, <1>11, <1>12, <1>13, <1>14, <1>15, <1>16
     DEF StepKinds, vars, db, shared, Fire, StaleCallback, Tick

LEMMA QueuersHold == Spec => []Queuers
<1>1. Init => Queuers
  BY DEF Init, Idle, Queuers, Queuer
<1>2. Typed /\ Down /\ Books /\ Queuers /\ [Next]_vars => Queuers'
  BY Steps, QueuersStep
<1>. QED
  BY <1>1, <1>2, Schedules, Bookkeeping, PTL DEF Spec

-----------------------------------------------------------------------------
(* Without cancel requests *)

\* Nothing cancels a run while the service is up.
Calm ==
  /\ \A t \in Tasks : ~task[t].cancel
  /\ up = "up" => \A r \in Runs : co[r].sig = "no"

LEMMA CalmStep ==
  ASSUME "cancel" \notin Events, Typed, Down, Calm, StepKinds
  PROVE  Calm'
<1>1. ASSUME \A t \in Tasks : task'[t].cancel => task[t].cancel,
             up' = "up" => up = "up" /\ \A r \in Runs : co[r].sig = "no" => co'[r].sig = "no"
      PROVE  Calm'
  BY <1>1 DEF Calm
<1>2. ASSUME NEW r \in Runs, Moves(r) PROVE Calm'
  <2>1. Live(r) /\ row[r].task \in Tasks
    BY <1>2, LiveRow DEF Moves, Down, Typed
  <2>2. co[r].sig = "no" => co'[r].sig = "no"
    <3>1. CASE Begins(r)
      BY <3>1 DEF Begins, Typed, TypeOK, Coroutine
    <3>2. CASE Proceeds(r)
      BY <2>1, <3>2 DEF Proceeds, Calm
    <3>3. CASE Ends(r)
      BY <3>3 DEF Ends, Idle
    <3>. QED
      BY <1>2, <3>1, <3>2, <3>3 DEF Moves
  <2>. QED
    BY <1>1, <1>2, <2>2 DEF Moves
<1>3. ASSUME NEW r \in Runs, NEW status \in Outcomes, Settles(r, status) PROVE Calm'
  <2>1. co[r].sig = "no" => co'[r].sig = "no"
    BY <1>3 DEF Settles, Idle
  <2>2. \A t \in Tasks : task'[t].cancel => task[t].cancel
    BY <1>3, SettleEffect DEF Consumes, Stays, Reschedules, SameSchedules
  <2>. QED
    BY <1>1, <1>3, <2>1, <2>2 DEF Settles
<1>4. ASSUME NEW t \in Tasks, Creates(t) \/ Redrafts(t) \/ Rearms(t) \/ Retires(t)
      PROVE  Calm'
  BY <1>1, <1>4 DEF Creates, Redrafts, Rearms, Retires, Administers, Bumps
<1>5. ASSUME NEW t \in Tasks, NEW r \in Runs,
             \/ Starts(t, r) \/ SkipsBusy(t, r)
             \/ \E kind \in {"manual", "test"} : Launches(t, r, kind)
      PROVE  Calm'
  <2>1. co'[r].sig = "no" /\ OnlyRun(r) /\ up' = up
    BY <1>5 DEF Starts, SkipsBusy, Launches, Idle
  <2>2. \A u \in Tasks : task'[u].cancel => task[u].cancel
    BY <1>5 DEF Starts, SkipsBusy, Launches, Reschedules, SameSchedules
  <2>. QED
    BY <1>1, <2>1, <2>2 DEF OnlyRun
<1>6. ASSUME NEW t \in Tasks, NEW r \in Runs, SkipsNext(t, r) PROVE Calm'
  BY <1>1, <1>6 DEF SkipsNext, Bumps, Reschedules
<1>7. CASE Closes
  BY <1>1, <1>7 DEF Closes
<1>8. CASE Dies
  BY <1>1, <1>8 DEF Dies, Forget, db
<1>9. CASE Start
  BY <1>9, StartEffect DEF Down, Idle, Calm
<1>10. CASE UNCHANGED <<task, co, up>>
  BY <1>1, <1>10
<1>. QED
  BY <1>2, <1>3, <1>4, <1>5, <1>6, <1>7, <1>8, <1>9, <1>10
     DEF StepKinds, vars, db, Fire, StaleCallback, Tick, Cancels

\* Without a shutdown either, the service is up whenever a run is live, ...
Serving == up # "closing"

\* ... and a registered run is live, a scheduled one inside its lock.
Registered ==
  \A t \in Tasks : running[t] # None =>
    /\ Live(running[t])
    /\ Background(running[t]) \/ co[running[t]].phase \in Holding

LEMMA RegisteredStep ==
  ASSUME "cancel" \notin Events, "close" \notin Events,
         Typed, Down, Stages, Books, Calm, Serving, Registered, StepKinds
  PROVE  Serving' /\ Registered'
<1>. DEFINE Entry(t) == running[t] # None =>
              /\ Live(running[t])
              /\ Background(running[t]) \/ co[running[t]].phase \in Holding
<1>0. /\ running \in [Tasks -> Runs \cup {None}]
      /\ \A t \in Tasks : Entry(t)
      /\ \A t \in Tasks : running[t] # None =>
           row[running[t]].task = t /\ row[running[t]].status # None
  BY DEF Typed, TypeOK, Registered, Books
<1>1. Serving'
  <2>1. ASSUME NEW r \in Runs, Moves(r) \/ \E status \in Outcomes : Settles(r, status)
        PROVE  up' = up
    BY <2>1 DEF Moves, Settles
  <2>2. ASSUME NEW t \in Tasks, NEW r \in Runs,
               \/ Starts(t, r) \/ SkipsBusy(t, r) \/ SkipsNext(t, r)
               \/ \E kind \in {"manual", "test"} : Launches(t, r, kind)
        PROVE  up' = up
    BY <2>2 DEF Starts, SkipsBusy, SkipsNext, Launches
  <2>. QED
    BY <2>1, <2>2
       DEF StepKinds, Serving, vars, Fire, StaleCallback, Creates, Redrafts, Rearms,
           Retires, Administers, Cancels, Closes, Dies, Forget, Start, Tick
<1>2. ASSUME \A t \in Tasks : running'[t] \in {running[t], None},
             \A s \in Runs : \/ co'[s].phase = co[s].phase /\ row'[s].kind = row[s].kind
                             \/ row[s].status = None
      PROVE  Registered'
  BY <1>0, <1>2 DEF Registered, Live, Background
<1>3. ASSUME NEW r \in Runs, Moves(r) PROVE Registered'
  <2>0. /\ row' = row /\ \A s \in Runs \ {r} : co'[s] = co[s]
        /\ Live(r) /\ row[r].task \in Tasks /\ co[r].sig = "no"
    <3>1. Live(r)
      BY <1>3 DEF Moves, Down
    <3>2. up = "up"
      BY <3>1 DEF Serving, Down, Typed, TypeOK, Live, Idle
    <3>. QED
      BY <1>3, <3>1, <3>2, LiveRow DEF Moves, Typed, Calm
  <2>1. CASE Begins(r)
    <3>1. co'[r].phase = "acquiring"
      BY <2>1 DEF Begins, Typed, TypeOK, Coroutine
    <3>. QED
      BY <1>0, <2>0, <2>1, <3>1 DEF Begins, Registered, Live, Background, Holding
  <2>2. CASE Proceeds(r)
    <3>1. /\ Live(r)'
          /\ co[r].phase \in Holding => co'[r].phase \in Holding
      BY <2>0, <2>2 DEF Proceeds, Live, Holding
    <3>. QED
      BY <1>0, <2>0, <2>2, <3>1 DEF Proceeds, Registered, Live, Background
  <2>3. CASE Ends(r) /\ co[r].phase = "skipping"
    <3>1. \A t \in Tasks : running[t] # r
      BY <1>0, <2>3, ConstAssumption DEF Typed, LiveRuns, Background, Holding
    <3>. QED
      BY <1>0, <2>0, <2>3, <3>1 DEF Ends, Registered, Live, Background
  <2>4. CASE Ends(r) /\ Unregisters(r)
    <3>1. \A t \in Tasks : running'[t] # r /\ running'[t] \in {running[t], None}
      BY <1>0, <2>0, <2>4, ConstAssumption DEF Unregisters
    <3>. QED
      BY <1>0, <2>0, <3>1 DEF Registered, Live, Background
  <2>. QED
    BY <1>3, <2>0, <2>1, <2>2, <2>3, <2>4 DEF Moves, Ends
<1>4. ASSUME NEW r \in Runs, NEW status \in Outcomes, Settles(r, status)
      PROVE  Registered'
  <2>0. /\ row[r].task \in Tasks
        /\ \A s \in Runs : row'[s].kind = row[s].kind
        /\ \A s \in Runs \ {r} : co'[s] = co[s]
    BY <1>4, SettleEffect DEF Settles
  <2>1. CASE co'[r].phase \in {"reporting", "handling"} /\ UNCHANGED running
    BY <1>0, <2>0, <2>1 DEF Registered, Live, Background, Holding
  <2>2. CASE Unregisters(r)
    <3>1. \A t \in Tasks : running'[t] # r /\ running'[t] \in {running[t], None}
      BY <1>0, <2>0, <2>2, ConstAssumption DEF Unregisters
    <3>. QED
      BY <1>0, <2>0, <3>1 DEF Registered, Live, Background
  <2>. QED
    BY <1>4, <2>1, <2>2 DEF Settles
<1>5. ASSUME NEW t \in Tasks, Creates(t) \/ Redrafts(t) \/ Rearms(t) \/ Retires(t)
      PROVE  Registered'
  BY <1>2, <1>5 DEF Creates, Redrafts, Rearms, Retires, Administers, Bumps
<1>6. ASSUME NEW t \in Tasks, NEW r \in Runs, OnlyRun(r), row[r].status = None,
             \/ running' = running
             \/ /\ running' = [running EXCEPT ![t] = r]
                /\ Live(r)' /\ (Background(r)' \/ co'[r].phase \in Holding)
      PROVE  Registered'
  <2>. SUFFICES ASSUME NEW u \in Tasks, running'[u] # None PROVE Entry(u)'
    BY DEF Registered
  <2>1. CASE running'[u] = running[u]
    <3>1. running[u] \in Runs \ {r}
      BY <1>0, <1>6, <2>1
    <3>. QED
      BY <1>0, <1>6, <2>1, <3>1 DEF OnlyRun, Live, Background
  <2>2. CASE running'[u] # running[u]
    BY <1>0, <1>6, <2>2
  <2>. QED
    BY <2>1, <2>2
<1>7. ASSUME NEW t \in Tasks, NEW r \in Runs, Starts(t, r) PROVE Registered'
  BY <1>6, <1>7 DEF Starts, Live, Holding
<1>8. ASSUME NEW t \in Tasks, NEW r \in Runs, SkipsBusy(t, r) PROVE Registered'
  BY <1>6, <1>8 DEF SkipsBusy
<1>9. ASSUME NEW t \in Tasks, NEW r \in Runs, SkipsNext(t, r) PROVE Registered'
  BY <1>2, <1>9 DEF SkipsNext, Bumps
<1>10. ASSUME NEW t \in Tasks, NEW r \in Runs, NEW kind \in {"manual", "test"},
              Launches(t, r, kind)
       PROVE  Registered'
  <2>1. co'[r].phase = "created" /\ row'[r].kind = kind
    BY <1>10 DEF Launches, NewRow, Idle
  <2>. QED
    BY <1>6, <1>10, <2>1 DEF Launches, Live, Background
<1>11. CASE Dies
  BY <1>1, <1>11 DEF Dies, Forget, Registered
<1>12. CASE UNCHANGED <<row, co, running>>
  BY <1>1, <1>2, <1>12
<1>. QED
  BY <1>1, <1>3, <1>4, <1>5, <1>7, <1>8, <1>9, <1>10, <1>11, <1>12
     DEF StepKinds, vars, db, shared, Fire, StaleCallback, Start, Tick, Cancels, Closes

\* The three invariants hold together.
LEMMA CalmRuns ==
  ASSUME "cancel" \notin Events, "close" \notin Events
  PROVE  Spec => [](Calm /\ Serving /\ Registered)
<1>1. Init => Calm /\ Serving /\ Registered
  BY DEF Init, NoTask, Idle, Calm, Serving, Registered
<1>2. Typed /\ Down /\ Stages /\ Books /\ Calm /\ Serving /\ Registered /\ [Next]_vars
        => (Calm /\ Serving /\ Registered)'
  BY Steps, CalmStep, RegisteredStep
<1>. QED
  BY <1>1, <1>2, Schedules, Bookkeeping, PTL DEF Spec

\* The registry lists live runs only, and the progress served for a run is its
\* own, while nobody cancels runs or closes the service.  (A run cancelled
\* while it gives its client back leaves its entry behind: coordinator.py's
\* finally block is cut short.)
THEOREM RegistryAgrees ==
  ASSUME "cancel" \notin Events, "close" \notin Events
  PROVE  Spec => []LiveStateAgrees
<1>1. Registered /\ TrackedProgressAgrees => LiveStateAgrees
  BY DEF Registered, RegistryIsLive, LiveStateAgrees
<1>. QED
  BY <1>1, CalmRuns, ProgressAgrees, PTL

\* A recorded outcome is final, whatever else happens, crashes included, while
\* nobody cancels runs or closes the service: only a cancellation during the
\* notification replaces one.
THEOREM OutcomesAreFinal ==
  ASSUME "cancel" \notin Events, "close" \notin Events
  PROVE  Spec => OutcomeIsFinal
<1>. DEFINE Final == \A r \in Runs : row[r].status \in Terminal =>
                       row'[r].status = row[r].status
<1>1. ASSUME Typed, Down, Stages, Calm, Serving, [Next]_vars PROVE Final
  <2>. SUFFICES ASSUME NEW r \in Runs, row[r].status \in Terminal,
                       row'[r].status # row[r].status
                PROVE  FALSE
    OBVIOUS
  <2>1. StepKinds
    BY <1>1, Steps
  <2>2. row[r].status \notin {None, "running"}
    BY ConstAssumption DEF Terminal, Status
  <2>3. ASSUME NEW s \in Runs, NEW status \in Outcomes, Settles(s, status) PROVE FALSE
    <3>1. s = r /\ Live(r)
      BY <1>1, <2>3, SettleEffect
    <3>2. up = "up"
      BY <1>1, <3>1 DEF Serving, Down, Typed, TypeOK, Live, Idle
    <3>3. co[r].sig = "no"
      BY <1>1, <3>2 DEF Calm
    <3>. QED
      BY <1>1, <2>2, <2>3, <3>1, <3>3 DEF Settles, Stages, Stage, Early
  <2>4. ASSUME NEW t \in Tasks, NEW s \in Runs,
               \/ Starts(t, s) \/ SkipsBusy(t, s) \/ SkipsNext(t, s)
               \/ \E kind \in {"manual", "test"} : Launches(t, s, kind)
        PROVE  FALSE
    BY <2>2, <2>4 DEF Starts, SkipsBusy, SkipsNext, Launches, OnlyRun
  <2>. QED
    BY <2>1, <2>3, <2>4
       DEF StepKinds, Moves, Fire, StaleCallback, Creates, Redrafts, Rearms, Retires,
           Administers, Cancels, Closes, Dies, Forget, Start, Tick, vars, db
<1>2. Spec => [][Final]_vars
  BY <1>1, Schedules, Bookkeeping, CalmRuns, PTL DEF Spec
<1>. QED
  BY <1>2 DEF OutcomeIsFinal
=============================================================================
