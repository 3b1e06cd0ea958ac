--------------------------- MODULE CheckinService ---------------------------
(***************************************************************************)
(* The check-in service: administrator operations (TaskAdmin) and run      *)
(* coroutines (RunLifecycle) over the shared state (CheckinState), with    *)
(* the passing of time, start, close and crash of the process.             *)
(***************************************************************************)
EXTENDS TaskAdmin, RunLifecycle

CONSTANT
  \* What the environment of an instance does besides creating, publishing,
  \* enabling and editing idle tasks:
  \*   "retire"   disabling, archiving and restoring tasks
  \*   "run"      manual runs             "test"    test runs
  \*   "cancel"   cancel requests         "skip"    skip-next requests
  \*   "liveEdit" edit, enable, publish while a run of the task is live
  \*   "rearm"    enable or publish a task that is already enabled
  \*   "overrun"  an occurrence falls due while a scheduled run of the task
  \*              (its notification included) is still in progress
  \*   "close"    orderly shutdown        "crash"   loss of the process
  Events

ASSUME EventsAssumption ==
  Events \subseteq {"retire", "run", "test", "cancel", "skip", "liveEdit", "rearm",
                    "overrun", "close", "crash"}

CONSTANT
  MaxUserRuns   \* background runs and skips of a behaviour (a bound)

ASSUME MaxUserRunsAssumption == MaxUserRuns \in Nat

\* One more occurrence falls due.  Occurrences are at least a second apart, a
\* submitted callback takes its first step in the loop's next iteration.
Tick ==
  /\ now < MaxOcc
  /\ \A t \in Tasks : cb[t] = None
  /\ "overrun" \in Events \/ \A t \in Tasks : ~InstanceBusy(t)
  /\ now' = now + 1
  /\ UNCHANGED <<up, db, timers, co, shared>>

\* CheckinService.close: the scheduler drops its jobs and cancels what it
\* submitted; every registered run is cancelled.
Close ==
  LET scheduled(r) == row[r].kind = "scheduled" /\ Live(r)
      active(r)    == \E t \in Tasks : running[t] = r
  IN  /\ up = "up"
      /\ up' = "closing"
      /\ job' = [t \in Tasks |-> None]
      /\ cb' = [t \in Tasks |-> None]
      /\ co' = [r \in Runs |-> IF scheduled(r) \/ active(r)
                               THEN Signalled(co[r]) ELSE co[r]]
      /\ UNCHANGED <<now, db, shared>>

\* Tasks that close() does not know are cancelled when the loop shuts down.
LoopCancel(r) ==
  /\ up = "closing"
  /\ Live(r) /\ co[r].sig = "no"
  /\ co' = [co EXCEPT ![r] = Signalled(@)]
  /\ co' # co
  /\ UNCHANGED <<now, up, db, timers, shared>>

\* Process state is gone; the database stays.
Forget ==
  /\ up' = "down"
  /\ job' = [t \in Tasks |-> None]
  /\ cb' = [t \in Tasks |-> None]
  /\ co' = [r \in Runs |-> Idle]
  /\ lock' = [k \in Keys |-> None]
  /\ reserved' = {}
  /\ running' = [t \in Tasks |-> None]
  /\ tracked' = [t \in Tasks |-> None]
  /\ UNCHANGED <<now, db>>

\* close() returned: every coroutine it waited for has finished.
Stop  == up = "closing" /\ (\A r \in Runs : ~Live(r)) /\ Forget
Crash == up # "down" /\ Forget

\* Mutant: start re-arms the occurrence that is due right now.
StartInclusive ==
  LET scheduled(t) == /\ task[t].enabled /\ ~task[t].archived
                      /\ task[t].version # None
      expired(t)   == task[t].next = None \/ task[t].next < now
      fresh(t)     == IF expired(t) THEN NextRunFor(None) ELSE task[t].next
  IN  /\ up = "down"
      /\ up' = "up"
      /\ task' = [t \in Tasks |-> IF scheduled(t)
                                  THEN [task[t] EXCEPT !.next = fresh(t)]
                                  ELSE task[t]]
      /\ job' = [t \in Tasks |->
                   IF ~scheduled(t) THEN None
                   ELSE IF fresh(t) = None THEN task[t].next ELSE fresh(t)]
      /\ UNCHANGED <<now, row, cb, co, shared>>

\* CheckinService.start: recompute the occurrences that passed while the
\* process was down, then arm the timers.  When the schedule has ended the
\* row is cleared, but the caller's stale copy is armed all the same.
Start ==
  LET scheduled(t) == /\ task[t].enabled /\ ~task[t].archived
                      /\ task[t].version # None
      expired(t)   == task[t].next = None \/ task[t].next <= now
      fresh(t)     == IF expired(t) THEN NextRunFor(None) ELSE task[t].next
  IN  /\ up = "down"
      /\ up' = "up"
      /\ task' = [t \in Tasks |-> IF scheduled(t)
                                  THEN [task[t] EXCEPT !.next = fresh(t)]
                                  ELSE task[t]]
      /\ job' = [t \in Tasks |->
                   IF ~scheduled(t) THEN None
                   ELSE IF fresh(t) = None THEN task[t].next ELSE fresh(t)]
      /\ UNCHANGED <<now, row, cb, co, shared>>

LiveRun(t) == \E r \in Runs : row[r].task = t /\ Live(r)

AdminStep ==
  \E t \in Tasks :
    \/ \E k \in Keys : CreateTask(t, k)
    \/ /\ LiveRun(t) => "liveEdit" \in Events
       /\ \/ \E k \in Keys : EditTask(t, k)
          \/ /\ task[t].enabled => "rearm" \in Events
             /\ EnableTask(t) \/ PublishTask(t)
    \/ "retire" \in Events /\ (DisableTask(t) \/ ArchiveTask(t) \/ RestoreTask(t))

UserRow ==
  /\ Cardinality({r \in Runs : row[r].kind \in {"manual", "test", "skip"}})
       < MaxUserRuns
  /\ \E t \in Tasks, r \in Runs :
       \/ "skip" \in Events /\ SkipNextTask(t, r)
       \/ "run" \in Events /\ StartManual(t, r)
       \/ "test" \in Events /\ \E k \in Keys : StartTest(t, r, k)

UserStep == UserRow \/ ("cancel" \in Events /\ \E t \in Tasks : CancelTask(t))

TimerStep ==
  \E t \in Tasks :
    \/ Fire(t)
    \/ StaleCallback(t)
    \/ \E r \in Runs : SkipBusy(t, r) \/ StartScheduled(t, r)

\* The steps of run r that the program itself guarantees.
RunStep(r) ==
  \/ SkipNotified(r)
  \/ BeginBackground(r)
  \/ LockGranted(r)
  \/ CancelledBeforeTry(r)
  \/ ClientAcquired(r)
  \/ AcquireFailed(r)
  \/ Interrupted(r)
  \/ Notified(r)
  \/ ClientReleased(r)
  \/ ReleaseInterrupted(r)
  \/ JoinWatcher(r)
  \/ Cleanup(r)

ProcessStep ==
  \/ "close" \in Events /\ (Close \/ Stop \/ \E r \in Runs : LoopCancel(r))
  \/ "crash" \in Events /\ Crash
  \/ Start

Next ==
  \/ Tick
  \/ AdminStep
  \/ UserStep
  \/ TimerStep
  \/ \E r \in Runs : \/ RunStep(r) \/ WatcherPoll(r)
                     \/ ExecutorReturned(r) \/ FlagObserved(r)
  \/ ProcessStep

Spec == Init /\ [][Next]_vars

\* The event loop runs every ready coroutine and timer, the watcher polls
\* every second.  An executor need not return or reach its next step.
FairSpec ==
  /\ Spec
  /\ WF_vars(TimerStep)
  /\ \A r \in Runs : WF_vars(RunStep(r)) /\ WF_vars(WatcherPoll(r))

-----------------------------------------------------------------------------
(* Properties *)

Terminal == {"success", "failed", "canceled", "skipped"}

\* Runs of one account and target are serial (docs/refactoring.md:19): no
\* two coroutines are between taking and releasing a key's lock.
MutualExclusion ==
  \A r, s \in Runs :
    (co[r].phase \in Holding /\ co[s].phase \in Holding
       /\ row[r].key = row[s].key) => r = s

\* A reservation never outlives its background run: were it to, the key
\* would refuse every later run until a restart.
NoLeakedReservation ==
  \A k \in reserved :
    \E r \in Runs : Live(r) /\ Background(r) /\ row[r].key = k

\* A manual or test run whose history row says "running" has a coroutine that
\* will still settle it, however and whenever it is cancelled.
RunningRowIsLive ==
  \A r \in Runs : (Background(r) /\ row[r].status = "running") =>
    co[r].phase \in {"created", "waiting", "acquiring", "executing", "ended"}

\* A timer armed for the future is the task's own next occurrence, and only
\* enabled tasks have one.
TimerMatchesRow ==
  \A t \in Tasks : (job[t] # None /\ job[t] > now) =>
    /\ task[t].enabled /\ ~task[t].archived
    /\ task[t].next = job[t]

\* No occurrence is run before it is due, however skips, re-publications and
\* timer callbacks interleave.
NeverEarly ==
  \A r \in Runs : (row[r].status # None /\ row[r].kind = "scheduled") =>
    row[r].planned \in 1 .. now

Executed(r) == row[r].kind = "scheduled" /\ row[r].status \notin {None, "skipped"}

\* README.md:290: an occurrence that was consumed is not executed again.
ConsumedOnce ==
  \A r, s \in Runs :
    (Executed(r) /\ Executed(s) /\ row[r].task = row[s].task
       /\ row[r].planned = row[s].planned) => r = s

\* An idle enabled task with a next occurrence has the timer for it.
ScheduleHasTimer ==
  \A t \in Tasks :
    (up = "up" /\ Arm(task[t]) # None /\ ~InstanceBusy(t)) =>
      job[t] = task[t].next

\* The schedule moves past an occurrence only when it has expired or when
\* the history shows what became of it (README.md:294).
NoOccurrenceLost ==
  [][\A t \in Tasks :
       (task[t].enabled /\ task'[t].enabled /\ task[t].next # task'[t].next
          /\ task[t].next # None
          /\ (task'[t].next = None \/ task'[t].next > task[t].next)) =>
         \/ task[t].next <= now
         \/ \E r \in Runs : row'[r].task = t /\ row'[r].planned = task[t].next]_vars

\* A run's outcome, once recorded, is not rewritten.
OutcomeIsFinal ==
  [][\A r \in Runs : row[r].status \in Terminal =>
       row'[r].status = row[r].status]_vars

\* Manual and test runs leave the task's future schedule alone
\* (start_manual_run's docstring, docs/refactoring.md:19).
ManualKeepsSchedule ==
  [][\A r \in Runs : (Background(r) /\ row'[r].status # row[r].status) =>
       /\ \A t \in Tasks : task'[t].next = task[t].next
       /\ row[r].kind = "test" => UNCHANGED <<task, job>>]_vars

\* start_manual_run "fail[s] before inserting history when the account/target
\* serialization key is already occupied" (coordinator.py:414): a key has at
\* most one unfinished background run.
OneBackgroundRunPerKey ==
  \A r, s \in Runs :
    (/\ row[r].status = "running" /\ row[s].status = "running"
     /\ Background(r) /\ Background(s)
     /\ Live(r) /\ Live(s) /\ row[r].key = row[s].key) => r = s

\* The registry lists live asyncio tasks only.
RegistryIsLive ==
  \A t \in Tasks : running[t] # None => Live(running[t])

\* The progress the tracker serves for a finished run is its outcome.
TrackedProgressAgrees ==
  \A t \in Tasks : tracked[t] # None =>
    row[tracked[t]].shown = row[tracked[t]].status

\* What the service holds in memory about its runs agrees with them: the
\* registry (coordinator.py) and the live progress (progress.py).
LiveStateAgrees == RegistryIsLive /\ TrackedProgressAgrees

\* A cancel request ends the registered run of the task even when the
\* executor never returns by itself.
CancelEndsRun ==
  \A r \in Runs :
    (co[r].phase \in Holding
       /\ \E t \in Tasks : task[t].cancel /\ running[t] = r)
      ~> (up # "up" \/ ~Live(r))

\* A busy key becomes available again unless one of its runs is with an
\* executor: no reservation, queued run or cleanup blocks it for good.
KeyIsFreed ==
  \A k \in Keys :
    KeyBusy(k) ~> \/ ~KeyBusy(k)
                  \/ \E r \in Runs : co[r].phase = "executing" /\ row[r].key = k
=============================================================================
