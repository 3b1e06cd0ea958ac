---------------------------- MODULE CheckinState ----------------------------
(***************************************************************************)
(* The state the check-in service's components share: the task and run     *)
(* rows of the database, APScheduler's one-shot timers, and the            *)
(* process-local state that CheckinService builds once and hands to the    *)
(* run coordinator, the task service, the scheduler and the progress       *)
(* tracker (locks, reservations, the running registry, live progress).     *)
(*                                                                         *)
(* Time is the number of planned occurrences that are already due.  All    *)
(* tasks share the occurrences 1..MaxOcc; the schedule has none after.     *)
(***************************************************************************)
EXTENDS Naturals, FiniteSets

CONSTANTS
  Tasks,    \* task ids
  Keys,     \* (account, target) pairs; a draft or version is known by its key
  Runs,     \* ids of the TaskRun rows a behaviour can create (a bound)
  MaxOcc,   \* last planned occurrence (a bound; the schedule's end_date)
  None      \* SQL NULL, Python's None, "no entry"

VARIABLES
  now,      \* occurrences 1..now are due
  up,       \* "up", "closing" (CheckinService.close) or "down"
  task,     \* rows of the tasks table
  row,      \* rows of the task_runs table
  job,      \* APScheduler: occurrence the timer job task:<id> is armed for
  cb,       \* APScheduler: submitted _scheduled_run whose first step is due
  co,       \* the asyncio task of each run and what it holds in its frame
  lock,     \* locks[(account, target)]: the run that holds it
  reserved, \* _manual_reservations
  running,  \* the running registry: task id -> asyncio task
  tracked   \* _task_run_progress: task id -> run whose progress is live

db     == <<task, row>>
timers == <<job, cb>>
shared == <<lock, reserved, running, tracked>>
vars   == <<now, up, task, row, job, cb, co, lock, reserved, running, tracked>>

-----------------------------------------------------------------------------
Occ    == 1 .. MaxOcc
Status == {"running", "success", "failed", "canceled", "skipped"}
Kind   == {"scheduled", "manual", "test", "skip"}

ASSUME ConstAssumption ==
  /\ MaxOcc \in Nat \ {0}
  /\ None \notin Keys \cup Runs \cup Nat \cup Status

\* A bound run holds its key's lock in the phases of Holding.
\*   created    background task created, first step not taken
\*   waiting    queued on the lock of its key
\*   acquiring  awaits ClientPool.acquire
\*   executing  awaits the executor (attempts, steps and back-off)
\*   reporting  awaits a notification in the body of the try
\*   handling   awaits a notification in an except handler
\*   releasing  awaits ClientPool.release in the finally block
\*   joining    awaits the cancelled watcher in the finally block
\*   ended      background task finished, its done callback not yet called
\*   skipping   busy occurrence recorded, awaits the skip notification
Holding == {"acquiring", "executing", "reporting", "handling", "releasing",
            "joining"}
Phase   == Holding \cup {"idle", "created", "waiting", "ended", "skipping"}

NoTask == [enabled |-> FALSE, archived |-> FALSE, next |-> None,
           cancel |-> FALSE, draft |-> None, version |-> None]
NoRow  == [task |-> None, key |-> None, kind |-> "scheduled",
           status |-> None, planned |-> None, shown |-> None]
Idle   == [phase |-> "idle", sig |-> "no", watch |-> FALSE, lease |-> FALSE,
           stale |-> FALSE, snap |-> None]

TaskRow == [enabled : BOOLEAN, archived : BOOLEAN, next : Occ \cup {None},
            cancel : BOOLEAN, draft : Keys \cup {None},
            version : Keys \cup {None}]
RunRow  == [task : Tasks \cup {None}, key : Keys \cup {None}, kind : Kind,
            status : Status \cup {None}, planned : Occ \cup {None},
            shown : Status \cup {None}]
\* sig: Task.cancel() has not been called, awaits the coroutine's next step,
\* or was delivered.  stale: the task's revision moved since the lock was
\* taken.  snap: the draft when the run was created.
Coroutine == [phase : Phase, sig : {"no", "pending", "seen"},
              watch : BOOLEAN, lease : BOOLEAN, stale : BOOLEAN,
              snap : Keys \cup {None}]

\* Every variable has its type.
TypeOK ==
  /\ now \in 0 .. MaxOcc
  /\ up \in {"up", "closing", "down"}
  /\ task \in [Tasks -> TaskRow]
  /\ row \in [Runs -> RunRow]
  /\ job \in [Tasks -> Occ \cup {None}]
  /\ cb \in [Tasks -> Occ \cup {None}]
  /\ co \in [Runs -> Coroutine]
  /\ lock \in [Keys -> Runs \cup {None}]
  /\ reserved \in SUBSET Keys
  /\ running \in [Tasks -> Runs \cup {None}]
  /\ tracked \in [Tasks -> Runs \cup {None}]

Init ==
  /\ now = 0
  /\ up = "up"
  /\ task = [t \in Tasks |-> NoTask]
  /\ row = [r \in Runs |-> NoRow]
  /\ job = [t \in Tasks |-> None]
  /\ cb = [t \in Tasks |-> None]
  /\ co = [r \in Runs |-> Idle]
  /\ lock = [k \in Keys |-> None]
  /\ reserved = {}
  /\ running = [t \in Tasks |-> None]
  /\ tracked = [t \in Tasks |-> None]

-----------------------------------------------------------------------------
\* Mutant: the last occurrence is taken to have a successor.
NextRunForPastEnd(after) ==
  LET cutoff == IF after # None /\ after > now THEN after ELSE now
  IN  IF cutoff <= MaxOcc THEN cutoff + 1 ELSE None

\* next_run_for: the first occurrence later than now and than `after`.
NextRunFor(after) ==
  LET cutoff == IF after # None /\ after > now THEN after ELSE now
  IN  IF cutoff < MaxOcc THEN cutoff + 1 ELSE None

\* _sync_schedule: the job a task row is entitled to.
Arm(t) == IF t.enabled /\ ~t.archived THEN t.next ELSE None

\* The job store after _sync_schedule on the task row just written.
SyncSchedule(t) == job' = [job EXCEPT ![t] = Arm(task'[t])]

Exists(t) == task[t].draft # None
Live(r)   == co[r].phase # "idle"
Unused(r) == row[r].status = None

\* _bump_task_revision, seen by the runs that compare revisions at their end.
BumpRevision(t) ==
  co' = [r \in Runs |-> IF row[r].task = t /\ Live(r)
                        THEN [co[r] EXCEPT !.stale = TRUE] ELSE co[r]]

\* lock.locked() or the key is reserved.
KeyBusy(k) == lock[k] # None \/ k \in reserved

\* TasksRepository / RunsRepository.has_running_run
HasRunningRow(t) == \E r \in Runs : row[r].task = t /\ row[r].status = "running"
=============================================================================
