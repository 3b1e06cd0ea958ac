# A verification project for tg-botx

tg-botx runs daily check-ins with Telegram user accounts and is administered over an HTTP API and a
Telegram bot. One Python process runs one asyncio event loop; its state is a SQL database, a set of
APScheduler timers and dictionaries in memory. Custom bot commands are queued in the database and may
be worked on by several processes; Python commands run in a separate sandbox service.

The modules here are TLA+ models translated from the code, TLC configurations that check them on
small instances, and proofs, checked by TLAPS, that hold for every instance. `PROJECT.json` maps each
definition to the lines it stands for and lists runs, mutants, hazards, findings and theorems.

    tlc -workers 2 -config serial_runs.cfg MCCheckinService      # one run
    tlapm CheckinServiceProofs.tla                               # one proof module

## Inventory

| Component (under src/src/tg_botx) | State | Operations | Interacts with |
|---|---|---|---|
| run coordinator (features/checkin/coordinator.py) | locks, reservations, run registry, one coroutine per run | scheduled, manual and test runs; cancel; done callback | every other check-in part, client pool, notifications |
| task service, workflow publication (tasks.py, workflows.py) | tasks and versions tables | create, edit, enable, disable, skip-next, archive, restore, publish | scheduler, run registry |
| task scheduler (scheduler.py) | APScheduler's one-shot jobs | sync, remove, start, shutdown | coordinator's callback |
| progress tracker (progress.py) | live progress per task, subscriber queues | initialise, update, finalise, subscribe | coordinator, event stream |
| executor, conditions, message adapter | frame of one run | attempts, steps, branches, waiting for messages | Telegram, cancel flag |
| schedule algorithm (schedule.py) | none | next occurrence, random windows, eligible days | task service, coordinator |
| client pool (integrations/client_pool.py) | clients, leases, pending acquires, a lock per account | acquire, release, disconnect, close | runs, account service |
| accounts and logins (features/accounts) | login flows, accounts table | start, code, password, QR, cancel, logout | client pool, session files |
| command executions (features/bot/execution.py, repositories/command_executions.py) | bot_command_executions table, workers | submit, claim, execute, complete, deliver, recover, prune | executors, runner, Telegram |
| command configuration (features/bot/commands.py) | bot_command_configs with revisions | create, edit, delete | command executions |
| bindings and points (repositories/bot.py, points.py) | bindings, codes, points | bind, unbind, roles, daily check-in | bot handlers |
| Telegram bot runtime (interfaces/telegram) | polling offset, webhook window | poll, webhook, handle | command executions, task service |
| Python runner (runner/service.py) | slots, active, completed, orphaned, quarantine | execute, cancel, sweep, probe | Docker |
| message library | groups and messages with revisions | create, update, delete, resolve | task validation, executor |
| admin sessions, transport keys | sessions table, key ring, nonces | login, touch, revoke, rotate, decrypt | HTTP interface |
| log stream, task event stream | cursors, subscriber queues | subscribe, poll, close | HTTP interface |
| HTTP routes, CLI, configuration, migrations | none of their own | call the services above | |

What makes each of them correct:

* **Runs** of one account and target are serial; a reservation never outlives its run; a cancel
  request ends a run; an outcome is final; a run that says it is running will be settled.
* **The schedule** never runs an occurrence early or twice, passes over one only if it expired or is
  in the history, and an idle enabled task has the timer of its next occurrence.
* **The pool** never disconnects a client in use and never opens one session twice.
* **The command queue** starts an executor at most once per update whatever crashes, keeps its limits
  across processes, tells the truth about what was interrupted, and does not execute a configuration
  other than the one admitted.
* **The runner** never lets a container run unattended, never starts an execution cancelled before its
  start was sent, gives a slot back once, and recovers when Docker does.
* **Logins, chats**: a login leaves no flow, client or lease behind, however it is cancelled.
* **Bot updates** are handled once, none is skipped, and one left over from before a session is never
  handled; a button acts with a role held at that moment; codes bind once, points are paid once a day.
* **Workflows** that validation accepts do not fail for a reason validation exists to exclude; a wait
  overlooks no answer; the progress of a run tells what its last attempt did.
* **The schedule algorithm** arms the earliest remaining point, also over a change of the clock.
* **Administration**: a logout is final, a challenge is used once and lasts as long as advertised; no
  edit overwrites one its editor had not seen; only confirmed Python source is enabled; a slow console
  loses log lines only behind a gap marker and never misses the last state of a task.

The hard behaviours are the awaits: between two of them a coroutine is atomic, at each of them
anything else may run, and at each of them it may be cancelled. Then come the timers (APScheduler
drops a due job while an instance of it is active), restarts (memory and timers vanish, rows stay)
and leases shared between processes. `PROJECT.json` lists each hazard at its line.

## Modules

    CheckinState          shared variables, types, next_run_for, timer synchronisation
     |- TaskAdmin         operations of TaskService and WorkflowService
     |- RunLifecycle      timer callback, run coroutines, cancellation, done callback
         '- CheckinService     both, with time, start, close, crash; the properties
             |- MCCheckinService        TLC instances
             '- CheckinServiceProofs    theorems on types, locks and reservations
                 '- CheckinStateProofs      ... on rows, timers and registries
                     '- CheckinScheduleProofs   ... on occurrences
    ClientPool            one account's client            MCClientPool, ClientPoolProofs
    CommandQueue          queue of one bot, all processes MCCommandQueue, CommandQueueProofs
     '- implements CommandPromise       what is promised for one update

    RunnerSandbox         runner, its client, Docker      MCRunnerSandbox
     '- Services          ... with the next five beside it       MCServices, ServicesProofs
         |- LoginFlows            logins and logout of an account
         |- AccountChats          probes, chat pulls, avatars
         |- MessageWait           waiting for a bot's answer
         |- WorkflowRun           validation and one run of a workflow
         '- ScheduleRuns          next occurrences of a schedule
    TelegramUpdates       polling, webhook, sessions      MCTelegramUpdates, TelegramUpdatesProofs

    Interfaces            the next five side by side      MCInterfaces, InterfacesProofs
     |- BotAccess             codes, bindings, buttons, points
     |- BotCommands           command rows and menus (twice: edits, refreshes)
     |- AdminAccess           transport keys and sessions
     |- LogStream, TaskEvents event streams of the console
     '- MessageLibrary        message groups and their users

Services and Interfaces put instances of modules that share no state side by side: a
behaviour chooses one component (`focus`) in its initial state and moves only that one, so the state
space is the sum of the components' and not their product. Where components do meet, one module models
the meeting: runs with tasks and timers (CheckinService), logins with the lease count of the pool,
the runner with its client and Docker, the library with task drafts and versions, buttons with
bindings, the webhook with the command queue's refusals, validation with execution.

### Check-in service

*State.* `task` and `row` are the tables tasks and task_runs; they survive `Crash`. `job` is the job
store of APScheduler and `cb` a submitted callback that has not taken its first step. `co[r]` is the
asyncio task of run r: `phase` names the await it stands at, `sig` whether `Task.cancel()` was called
and delivered, `watch` and `lease` whether the watcher and a client are still held, `stale` whether
the task's revision moved since the run read it, `snap` the draft it compares at its end. `lock`,
`reserved`, `running` and `tracked` are `locks`, `_manual_reservations`, the running registry and
`_task_run_progress`. A definition of a task is abstracted to its key, the account and target whose
runs it serialises; a draft and a version are known by their keys.

*Time* is the number of planned occurrences that are due (`now`), because the code only compares
occurrences with the present and with each other. `NextRunFor` is next_run_for on these numbers; the
schedule has no occurrence after `MaxOcc`, which is what its end date or horizon does.

*Actions* are the code from one await to the next, with every call in between: `Settle` for instance
writes the run, finalises the progress, recomputes the next occurrence and re-arms the timer, as
`_execute_run` does without an await. A pending cancellation is raised by the next step, so
only `Interrupted`, `CancelledBeforeTry` and `ReleaseInterrupted` can take that step.

*External facts* (code that is not in the repository): `asyncio.Lock` gives itself to waiters in
order and refuses a newcomer while someone waits (`LockFree`); `Task.cancel()` does nothing to a
finished task; `asyncio.run` cancels what is left. APScheduler 3 (`pyproject.toml:25`) runs at most
one instance of a job id, removes a one-shot job from its store when it is due even if it is not
submitted because an instance is active (`InstanceBusy`, `Fire`), does not drop late jobs
(`misfire_grace_time=None` in scheduler.py), cancels submitted callbacks on shutdown, and its wake-up
for a job that is already due is queued ahead of later resumptions of the coroutine that added it
(`TimerSettled`).

*Events* selects what an instance's environment does, so that a run can state its property under
exactly the conditions it needs: `overrun` lets an occurrence fall due during a scheduled run,
`liveEdit` lets an administrator edit, enable or publish a task with a live run, `rearm` lets an
enabled task be enabled or published again, `retire` disables, archives and restores; the others name
themselves.

### Client pool

Accounts share no state, so the module models one. The sections under the account's lock are the
labels `mark`, `get`, `unmark`, `lease` (acquire), `release`, `drop` (disconnect_account) and `close`;
a section that awaits Telethon keeps the lock in `connecting` or `disconnecting`. `turn` is the
coroutine the loop is running: a free lock without waiters is taken without suspending, so it goes on
into its next section; otherwise it queues. `mine` is the client in a caller's frame, `link` what
became of each client. Cancellation is possible at every await, including while queued.

### Command queue

A row of bot_command_executions has its status, the command (which creation of it, and its revision)
it was admitted for, its owner and the state of its reply. A repository call is one transaction under
the bot's gate row and therefore one action; a worker's action goes on to its next await, so `Claim`
takes the row, re-reads revision and role and, unless the command is Python, starts the executor. A
Python command first awaits the runner's health (`probing`) and then starts with what it read before.
Time appears only as rows that may be overdue: a queued row at any time, a lease if nobody attends
the row any more or if its coroutine was suspended beyond it (`stall`). Everything that goes wrong is
counted in `events`, bounded by `MaxEvents`. A reply is sent in two steps: Telegram accepts it (`Accept`,
which counts it in `shown`), and its coroutine records it (`Sent`, `SendFailed`). Between the two the process
can die and the request can time out, and the transaction of finish_delivery can fail; then the row is
overdue in the end and the reply is sent again. `ran`, `starts` and `shown` are history variables.

CommandPromise is the abstract specification: an update is admitted once, its executor starts at most
once, its outcome is final, "succeeded" implies that it started and "cancelled" that it did not, and
at most `MaxTries` replies are shown, none before the outcome. The refinement mapping reads the phase
of an update off its row.

### Python runner

The manager's awaits are docker commands; what happens between two of them is one action. `pc[i]` is
where the execution of id i stands, `sweeper` where the maintenance task does, `box` what Docker holds
and `late` a create whose command failed and that the daemon may still carry out. `posts`, `client` and
`deleting` are the bot's calls: one POST per id, one DELETE when the caller gives up, which may overtake
the POST. `dockerUp` changes at any time; a command that fails may still have had its effect.
RunnerContained asks for sound books (a slot is given back exactly once, the replay window is bounded),
`Supervised` and `CancelledNeverStarts`; `Supervised` ties the daemon's containers to the manager's books; `Recovers` is
stated under the only assumption the code can rest on, that Docker stays reachable from some time on.

### Logins and chats

LoginFlows is one account: its row, the manager's two dictionaries (`registered`, `current`), the lock
`start` holds over the drop of the pooled client, each flow's client and the await its request or QR
waiter is at. A cancellation may arrive at every await; the logout tests its conditions once and then
awaits three times. The pool is one bit, whether it holds a lease. AccountChats is its counterpart for
those who borrow the pooled client: a probe registers a handler on it, a pull hands its lease to a
background download.

### Workflows, waiting and schedules

In WorkflowRun a workflow is a function from paths to steps; a path is the position the progress of a
run gives a step (`<<3, 2, 1>>`: the first step of the second branch of the third step), so that nested
lists need no recursive operator. Validation threads what it knows through the lists; here that is
`Knowledge`, a function of each step's "before" and "behind", and `Allowed` is what it then asks of
each step. The executor goes to the sibling of the innermost step that has one (`After`). The module
starts from every candidate workflow (MCServices: about 6,000, all orders of waits,
requests, extractions and one or two conditions in both formats) that `Accepted` lets pass, and executes
it: a step may fail for each reason its handler has, rules may
match or miss as their variables allow, any rule of a strict condition may raise, retries start afresh, the cancel flag is read between
steps. So AcceptedRuns relates two independent parts of the code: what validation promises and what the
executor needs. `shown` is the live progress. MessageWait refines one step of it, the wait, down to
the events, the look-back and the pause inside the inspection of a message. ScheduleRuns computes
`next_runs` (the first eligible day with a candidate after the cutoff, and its earliest) on days of
`DayLength` ticks with one change of the clock by as much as a day; the reference it is compared with
is the set of points of all days of the schedule (`Due`), not a second algorithm. CheckinState uses
next_run_for by the contract EarliestIsArmed states, the first occurrence after the cutoff, without the
exception for a local time the clock leaves out (see the observations).

### Telegram updates and the bot

TelegramUpdates models both transports over several sessions of the service. Telegram (external) holds an
update until a later offset confirms it or a webhook request was answered; answers can get lost, and two
requests can carry the same update. The handler is one action that ends well or is refused by the command
queue (`CommandAdmissionUnavailable`). BotAccess is what a handled update may do: codes, bindings, the
role of a command, the two-step buttons (`press` waits for Telegram between the test of the role and the
action), points. BotCommands holds the rows administrators edit, with the page each editor has on the
screen, and the two managed menus a refresh sets one after the other.

### Administration

AdminAccess joins the key ring, the nonces, the limiter and the sessions with their table: a request
encrypts for a challenge at some time and arrives at another, the table can fail in every operation, and
a restart loses everything in memory. LogStream reads rotating files in a thread, one file after the
other, while lines are written. TaskEvents has one-place queues whose ids coalesce; a run may change its
task before it publishes (`ChangeSilently`, `Report`), and `owes` says which runs have done so. In MessageLibrary
the routes run in worker threads, so single transactions interleave.

## Runs

| Run | Instance | Shows |
|---|---|---|
| serial_runs | 2 tasks, 1 key, 3 runs, 1 occurrence, manual, test, cancel, close | MutualExclusion, NoLeakedReservation, RunningRowIsLive while three runs of any kind queue on one key and are cancelled anywhere |
| occurrences | 1 task, 2 keys, 3 runs, 3 occurrences, skips, live edits, overruns, crash, retire | TimerMatchesRow, NeverEarly, NoOccurrenceLost |
| settled_schedule | 1 task, 2 keys, 3 runs, 2 occurrences, manual, test, skip, rearm, crash, retire | ScheduleHasTimer, ConsumedOnce, LiveStateAgrees, OutcomeIsFinal, ManualKeepsSchedule, without cancellation, overrun and live edits |
| run_liveness | 1 task, 1 key, 2 runs, cancel | CancelEndsRun, KeyIsFreed under FairSpec |
| client_pool | 3 callers, 3 clients, all events | CountsCover, OneSession, LeasedStaysConnected |
| command_queue | 2 processes with one worker and one delivery worker each, 2 updates and rows, 2 users, Python and HTTP, 2 disturbances of any kind, 2 attempts | LimitsKept, OneExecutor, AdmittedRevision, PromiseKept (refinement) |
| services | RunnerSandbox with 2 executions, 1 slot, a window of 1 and 1 container of a crashed manager; LoginFlows with 2 flows; AccountChats with 2 requests and 2 photos; MessageWait with 2 messages and senders that may not be learned; WorkflowRun with its candidates and 2 attempts; ScheduleRuns with 3 days of 4 ticks | RunnerContained, AccountsLeaveNothing, AcceptedRuns, ProgressTold, NoReplyMissed, EarliestIsArmed |
| interfaces | BotAccess with 1 user and 2 codes; BotCommands with 3 commands and one editor, and with 2 commands and two refreshes; AdminAccess with 2 challenges and 1 session; LogStream with 2 subscribers, 3 lines and 1 backup; TaskEvents with 2 streams, 2 runs and 3 changes; MessageLibrary with 2 editors | GrantsHold, CommandsHold, NoSilentLoss, ActsAsAdmin, EditsKeepOthers |
| updates | 2 updates, 2 sessions, 2 concurrent webhook requests, a window of 1, 1 refusal, 1 lost answer, both transports | HandledExactly, StaleNeverHandled, and Delivered under fairness |
| recovery | RunnerSandbox with 1 execution and 1 container of a crashed manager | Recovers under fairness |
| v_live_edit, v_settled | smallest instances | one finding each, below |

Each first run of a component also checks its type invariant. A property of Services,
Interfaces or TelegramUpdates is the conjunction of what its components promise about one subject; the conjuncts are
stated and explained in the component's module.

*Why the bounds are enough to be interesting.* Every conflict in the check-in code is between a run,
the one queued behind it and one that arrives while the first cleans up: three runs. Two tasks with
one key are needed for runs of different tasks that share a lock; two keys for a draft that differs
from the version and for a test run of another key. Three occurrences allow one in progress, one
passed over and one still in the future. Three callers of the pool are a user, an acquirer and the
waiter that separates the acquirer's two sections; three clients allow one to be replaced twice. Two
processes and two rows are the least for which limits, recovery by another process and a late answer
exist; the two workers together reach the Python limit and the limit of one execution per user, while
the limit on all running executions and on the queue length are equal to what two rows can reach and
are therefore exercised only as bounds. Two disturbances allow a second failure during the recovery
from a first.

In the runner, two ids compete for one slot and one place in the replay window, so both overflow. Two
login flows are one and the flow that replaces it; two borrowers of a client are the least that share
its lease. Two messages and a history of two make a message fall out of the look-back (the clicked one
counts as well). Three days of four ticks contain a day before, of and after the change of the clock; it
moves by one tick, two or a whole day in either direction, so that a local time can be left out, repeated, or
pushed onto the next date; and each frequency excludes one of the days. One claimed id fills the
window of two updates; two requests are a retry that races its first delivery; the second session meets
what the first left behind. A code that expires, one that is revoked and two bindings of a user fit into
one user, two codes and one tick; the range of points is crossed by single-setting edits. In AdminAccess
the rotation, the grace period, the nonces and the sessions all end within three ticks and a restart.
The log has one backup and is rotated twice, so a file can disappear unread; queues hold two entries, so
three lines overflow one. Of a task's three changes one may be published, one owed and one made while a
stream sends; a stream is opened only while fewer than `MaxChanges` + 2 ids were used.

*Symmetry* is used for runs, keys, tasks, callers, clients, processes, delivery workers, updates and
users: no definition orders them (rows, which are ordered, are numbers), and the run with liveness
properties does not use it.

*Deadlock* is not checked: every instance has bounds after which nothing is left to do, and a service
whose requests are all answered may stop.

*Fairness.* run_liveness (FairSpec): the loop eventually runs each ready coroutine step (`RunStep`),
each due timer and callback (`TimerStep`), and the watcher, which polls every second. Nothing is assumed
of the executor: `ExecutorReturned` and `FlagObserved` are unfair, so CancelEndsRun holds although an
executor never returns, by way of the watcher and `Task.cancel()`. Awaits of the pool and of the
notification are assumed to return; the code gives them timeouts. updates: the polling loop and the
request handlers are asyncio tasks that are always resumed (`Poll`, `Serve`), and Telegram delivers again
what was not answered (`Arrive`); nothing makes the command queue refuse or the service start or stop.
recovery: the maintenance task and each execution go on when their command ends (weak fairness; commands
have timeouts), and a sweep's removal of one container that keeps being tried while Docker is reachable
succeeds at some time (strong fairness per container). Docker itself owes nothing: `dockerUp` may
change forever, and Recovers then says nothing.

## Findings

Each is a run that must fail, on a property that quotes the repository; details in PROJECT.json.

* **v_live_edit** Editing the draft of an enabled task during its scheduled run bumps the revision
  but synchronises nothing; the run then keeps the consumed occurrence, and the task ends without a
  timer.
* **v_settled** The wait for an answer tests that its future is open, then awaits the sender or the
  buttons, then settles it. When the look-back and an event inspect at the same time, both pass the
  test and the second one raises InvalidStateError; if that is the look-back, the wait fails although the
  answer came.

Observations made while modelling, for which no run is kept. Those that name a property state it in
the module, and TLC refutes it on a small instance (with the events given; OneBackgroundRunPerKey needs
three tasks of one key).

* ScheduleHasTimer with `overrun`: an occurrence that falls due while the previous run still awaits its
  notification is dropped by APScheduler (max_instances 1) with its one-shot job; nothing re-arms the
  enabled task until an administrator touches it or the service restarts.
* NoOccurrenceLost with `cancel`: a cancellation during the result notification enters the handler
  after the outcome was recorded, settles the task a second time and passes over a future occurrence.
* OneBackgroundRunPerKey (coordinator.py:413-415, CheckinService): the done callback discards a
  reservation that a newer run of the key already took over; a further run of the key is then accepted.
* AcquiredIsConnected (client_pool.py:67-68, ClientPool): an acquirer that has given back its mark and
  not yet taken its lease is counted nowhere; the final release of another disconnects the client it is
  about to return.
* AdmittedCommand (docs/custom-command-executors.md:194, CommandQueue): deleting and re-creating a
  command restarts its revisions, so an execution queued for the old command runs the new one. In
  BotCommands the same restart lets an edit of the old row be saved onto the new one.
* ReadyMeansClean (docs/custom-command-executors.md:176, RunnerSandbox): a sweep that awaits Docker
  while a removal fails overwrites the quarantine with its own result; the orphan stays until a later
  sweep.
* CurrentPhotoKept (avatars.py:159-160, AccountChats): the download of an older snapshot of the dialogs
  deletes the stored photo of a newer one.
* Incremental (log_stream.py:1, LogStream): the files are opened one after the other, so a rotation
  during a poll can make the reader miss lines, or publish later ones first.
* ReferencedGroupStays (README.md:314-315, MessageLibrary): the reference check and the deletion of a group are
  two transactions in a worker thread, and a task saved between them refers to a group that is gone.
* AnswerResolves (checkin_messages.py:174, MessageWait): when the target is not known to be a bot, the inspection
  of an answer asks for its sender without a guard (191; lines 121-124 guard the same call). If that fails in
  an event handler, the answer is dropped and the wait times out; in the look-back the exception ends the
  wait. NoReplyMissed excepts such answers.
* FirstAnswerSettles (checkin_messages.py:209-211, MessageWait): an event inspected without a pause can
  overtake the look-back's earlier message.
* Two refreshes of the menus at a time, or one whose second scope fails, leave the two managed scopes
  with different menus; pulling afterwards hides a command whose default was disabled.
* An edit of a command that names no expected revision overwrites whatever is there; the API allows it
  (edits of a message group must name one).
* In a zone that leaves out the time of a schedule at midnight (America/Nuuk moves from 23:00 to 00:00),
  the run of that day falls on the next date (schedule.py:31). A search that starts after midnight begins
  with that date (schedule.py:156-158) and loses the run; EarliestIsArmed excepts it.
* README.md:79-82 says that the console is told of every change of a run. A test run writes its outcome and
  its progress (coordinator.py:300-307, 335-338, 352-355) but publishes only after its notification and the
  release of its client (376), and a scheduled run initialises its progress before it waits for its chat
  (401); until then a console shows the state before.
* A reply that Telegram accepted before the process died, the request timed out or its record failed is sent
  again (docs/custom-command-executors.md:196 allows it); PromiseKept bounds the number.
* The cancel flag is one column for all runs of a task. With two runs of different keys, the one that ends or
  takes its lock first clears it, and the other may never see the request.
* A login that was cancelled during its last await still activates the account; a logout whose database
  write fails after Telegram logged out leaves the row active; tasks enabled during the logout's awaits
  are not seen by it; a run may acquire the account after a login dropped the pooled client, and two
  clients then share one session.
* An avatar download cancelled before its first step keeps its lease (at shutdown only).
* Conditions of the first format are validated as if a message had been waited for and no variable were
  declared, so they may read what is not there; ConditionsReady is stated for the other format.
* The look-back's history request is not bounded by the timeout of its step.
* A cancellation during `pool.release` leaves the finally block before `running.pop`: the finished run
  stays registered, and further manual and test runs of the task are refused until a scheduled run
  replaces the entry. LiveStateAgrees is checked, and RegistryAgrees proved, without cancellation for that
  reason.
* skip-next followed by enabling or publishing an enabled task re-arms the skipped occurrence.
* A busy skip takes over the task's one progress slot; the stored progress of the manual run it
  displaced stays "running".
* A live edit together with a manual run that is cancelled before its first step can execute one
  occurrence twice.
* start() does not settle rows that were running when the process died.
* A cancellation while a client connects, or while it is disconnected, can leave a connected client
  that the pool does not know; one while queuing for `unmark` or `release` leaves a count too high and
  the client connected; one while queuing for `lease` leaves a pooled client that nobody leases.
* A Python command starts with the role and configuration read before the runner's health was
  awaited; a revocation during that await is not seen.
* The delivery workers of one process share one owner id, so a late answer can end another attempt;
  the number of replies stays bounded all the same.
* An executor may start after its row was settled as "unknown" if its worker was suspended beyond the
  lease while it waited for the runner; it still starts once.

## Proofs

All theorems hold for every value of the constants that satisfies the named assumptions
(`ConstAssumption`, `EventsAssumption`, `MaxUserRunsAssumption`, `PoolAssumption`,
`QueueAssumption`, `RunnerAssumption`, `ServicesAssumption`, `TelegramUpdatesAssumption`,
`InterfacesAssumption`). They give constants their types and instances their bounds; one says more.
`WorkflowAssumption` contains `Threaded`: that `Knowledge`, a function defined by recursion over the steps,
solves its equations. This is an induction over data, which the provers cannot do; TLC evaluates it for
every candidate workflow of MCServices. Some theorems
of the check-in service exclude events of the environment; each condition is written in the theorem and
given below with the behaviour that makes it necessary, which TLC finds when the event is added.

**CheckinServiceProofs**
* `TypeCorrect`: TypeOK alone is not inductive, since an action of run r uses r's task and key. The
  strengthening `Typed` adds that every row has a task, every row of a real run a key (`RowsComplete`),
  and that only existing, not administrator-skipped rows have coroutines (`LiveRuns`). The step is
  split into what each action may do to rows (`RowsKept`, `RowsAdded`, `RunsStarted`, together
  `RunFrame`) and the proof of those frames, so that later proofs reuse them.
* `NoEarlyRun` (NeverEarly): callbacks are only submitted for due occurrences (`DueCallbacks`), a row
  is only recorded for a callback's occurrence, and time does not go back.
* `SerialRuns` (MutualExclusion): `LockOwner`, a run in a phase of Holding owns the lock of its key.
  `KeyMoves` states how any step may change lock, reservations and phases; both this theorem and
* `ReservationsEnd` (NoLeakedReservation) follow from it: a reservation is added only with the run
  that holds it and every step that ends a run takes it away.

**CheckinStateProofs**
* `Steps` is what all further proofs about the check-in service stand on: it rewrites the two dozen
  actions into a few kinds of step, each described by what it does to rows, coroutines, timers and
  registries (`StepKinds`; `SettleEffect` and `StartEffect` do the work for the two actions that move many
  things at once). An invariant then has one case for each kind, not one for each action.
* `TimersMatch` (TimerMatchesRow): `Planned` (only enabled tasks have a next occurrence, and only tasks
  that can be run are enabled) and `Armed` (a timer is the task's next occurrence or is over) are inductive
  together with `Down` (what is gone when the service is).
* `ManualRunsKeepSchedules` (ManualKeepsSchedule) and `ProgressAgrees` follow from `Stages` (what the row of a
  run says at each await of its coroutine) and `Books` (a registry entry is a run of its task, and the live
  progress is as recent as the row).
* `RunningRowsAreLive` (RunningRowIsLive), with "crash" not in Events: a crash leaves such rows, and
  `start` does not settle them.
* `RegistryAgrees` (LiveStateAgrees) and `OutcomesAreFinal` (OutcomeIsFinal), without "cancel" and "close":
  `Queuers` (a run that has not got the lock is in no registry that could cancel it), `Calm` (nobody is
  cancelled) and `Registered` (an entry is a live run). With either event, a cancellation during
  `pool.release` leaves the entry behind, and one during the notification replaces the outcome.

**CheckinScheduleProofs**
* `OneInstance` is the part of APScheduler's contract the rest needs: a callback is submitted only when no
  run of the task's job is live.
* `ExecutedOnce` (ConsumedOnce), without "liveEdit": `Consumption` says that whoever executed the occurrence
  that is still its task's next one is under way and will move the task past it (`InProgress`). A live
  edit breaks exactly that.
* `TimersAreThere` (ScheduleHasTimer), without "liveEdit" and "overrun": `Queueing` says where an
  occurrence is: armed before it is due; then still armed, in the submitted callback or with the run that
  will settle it, and nothing of an earlier one is left. Both events lose the timer (v_live_edit; the first
  observation above).
* `OccurrencesAreKept` (NoOccurrenceLost), without "cancel" and "close", and without "liveEdit" where there are
  manual or test runs: `Carrying` says that a run consumes its own occurrence only. A cancelled
  notification settles twice; and a scheduled run that waited for a manual one forgets, on its way into
  the lock, that its task was published meanwhile (two tasks, four runs).

**ClientPoolProofs**
* `PoolTypeCorrect` (TypeOK) includes that the lock's queue holds each waiter once. `Lined`: who waits is at a
  section of the lock, once, and is not the caller that is running. Who takes a section was running or
  the head of the queue (`LeftWaits`), a cancelled waiter leaves from its middle (`WithoutWaits`), and nobody
  else asks again while waiting (`LinedMove`).
* `PoolInvariant` proves the inductive invariant: `Locking` (a caller is in an await exactly when it
  owns the lock, the pool is empty meanwhile, and close() runs on a closed pool), `Frames` (callers
  beyond get() carry a client), `Sole` (a live client is the pool's or the one the lock's owner
  awaits), `Drained` (a client being disconnected has no user) and CountsCover. CountsCover alone is
  not inductive: that an await excludes every other section is what lets a section that returns
  from it change the counters. `CountMoves` relates the size of a set of callers before and after one
  moves.
* `CountersCover`, `SessionIsExclusive` and `UsersKeepTheirClient` follow for any number of callers
  and clients and under any cancellation.

**CommandQueueProofs**
* `StepMoves` sorts the actions by what they do to a row: settle some (`Quiet`), take one
  (`Takes`), start a probed executor (`Begins`), admit one (`Admits`), take or end a reply
  (`TakesReply`, `Replies`). The other lemmas have one case for each.
* `QueueInvariant` proves the inductive invariant IInv. Besides the properties it has `Jobs` (a worker's
  row is running, or given up as unknown, and the revision in its frame is the row's: this is what
  OneExecutor and AdmittedRevision need, because claim looks only at rows, never at other workers),
  `Admitted` (a used row is the only one of its update), `Started` (an update that is unknown, queued or
  probing was not started, one that executes was started once) and `Counted` (replies shown plus
  replies that are being sent and not yet accepted are at most the row's tries).
* `LimitsHold`, `ExecutorIsAlone`, `RevisionIsAdmitted` and `QueueTypeCorrect` follow.
* `QueueKeepsPromise` is the refinement: recovery maps to Settle of the overdue updates, a claim to Settle
  together with StartExecutor, deliveries to Reply, and everything else to a stutter. It needs no
  bound on rows, disturbances or processes; leases may expire at any time.

**ServicesProofs**
* The runner: `RunnerContained` is not inductive: it looks at containers, and what a container may do next depends on
  commands that are on their way to Docker. IInv adds `Slots` (an execution is active exactly while it is
  inside execute), `Starts` (a start is sent only after a create that succeeded, and a create Docker
  carries out late was given up and is never started), `Known` (a container that runs, or will, is
  active or orphaned) and `Barring` (a cancelled id is in the replay window if its POST is yet to come,
  and marked for cancellation if it is being created).
* `Remembers` is the lemma on the replay window that Barring needs, `SlotsCount` the one on cardinalities
  that the type invariant needs (free slots plus active executions make the concurrency). The sweep
  has its own frame (`SweeperFrame`), since it moves several containers in a step.
  `RunnerTypeCorrect` and `ExecutionsContained` follow for any executions, slots and window.
* `AccountsAreLeftClean` (AccountsLeaveNothing): `Logins` says which await of which flow may hold what.
  `Booked`: the one start that awaits the pool holds the manager's lock, nobody is registered while it is
  held, and who is registered is the account's current flow. `Attended`: a flow has its client from its
  registration on, and once it is over or forgotten somebody is disconnecting it; NoForgottenFlow and
  ClientReleased alone say nothing about flows in between. `Borrowers`: every lease belongs to a request or
  to the download it was passed to, and never to both, so the lease count is the size of two sets
  (`BorrowerMoves` follows them through a step).
* `RepliesAreNotMissed` (NoReplyMissed): `Pursued` says where an answer to an open wait is: beyond the
  history that was asked for, in an event or in the history still to be inspected, being inspected, or lost
  with its sender. Each of them leads to the future or to the next; `InspectionStep`, `DispatchStep`, `ChatStep` and
  `FetchStep` are the four kinds of step.
* `ProgressTellsTheAttempt` (ProgressTold) speaks of finished runs; `Told` says of every state what the
  progress shows and why. `Reported`: what is shown as running, done or failed was started by this
  attempt and nothing else was, only the current step runs, and a failure ends the attempt. `Ordered`: what was started lies
  before the current step (`Ahead` is what lies behind it), all conditions around it were started, at most
  one branch of each condition was entered, and the outermost list is complete at success. `MoveNext` and
  `MoveInto` are its two kinds of move, to a next step and into a branch; `AllExecuted` says that a list
  is behind a run that found no next step.
* `AcceptedWorkflowsRun` (AcceptedRuns): `Running` says that the context of a run `Covers` what validation
  knew before the step it stands at, on every path through every accepted workflow: the sources validation
  relies on were executed, and every variable that is set has the type validation gave it. The lemmas
  follow one step (`SendCovers` ... `ExtractCovers`), the entry of a branch (`WithinCovers`), and a run
  that leaves any number of nested conditions at once (`JoinCovers`, `ClimbCovers`, `AfterCovers`: what a
  condition joins is no more than the end of the branch taken knows). The condition on the first format is
  the one of the property.
* `EarliestOccurrenceIsArmed` (EarliestIsArmed): the armed occurrence is NextRunFor of its cutoff
  (`Planned`), and `NextIsEarliest` compares NextRunFor with the points of every day. `Localized` says which
  instant a wall time is read as and that it is the first to show it (`First`); whoever is the first to show
  its time is later on the clock than all before it, and on no earlier date (`FirstIsLater`), although the
  clock may go back. So candidates of a later day are not earlier (`CandidatesOrdered`; here a change is at
  most a day), and a day before the cutoff's has none after it, except a time carried into a later date.
* `ServicesTypeCorrect` (ServicesTypeOK) collects the types.

**TelegramUpdatesProofs**
* `Frame` says where the two transports, the lock and Telegram's queue stand (`Sessions`, `Deliveries`,
  `Accepted`: a request that may still handle its update arrived in this session, after what the session
  discarded). `StaleUpdatesAreNeverHandled` follows.
* `Ledger` counts attempts: HandledExactly speaks of updates Telegram no longer delivers and of ones handled
  too often, and is not inductive because it forgets refusals. `Account` adds, for every update, what
  offset, window and Telegram's queue say about the last attempt (`Done` or `Open`); `Asked` adds the
  same for the update of a request that is under way. `ClaimEffect` and `WithdrawEffect` are the lemmas on the
  bounded window. `UpdatesAreHandledExactly` follows for any window, updates, requests and sessions.

**InterfacesProofs**
* `ButtonsActAsAdmin` (ActsAsAdmin): a button waits for Telegram between its test and its act; `Carried` says
  what it carries across that wait.
* `EditsAreNeverLost` (EditsKeepOthers): a saved edit compares revisions, not contents. `Rows` and `Pages`
  give every row an origin, and say that the row of a page's origin has the page's contents if it still has
  its revision (`Follows`), through renames, pulls, reordering, and a name that is taken again.
* `CommandsAreHeld` (CommandsHold): the confirmed source is the stored one (`Confirmed`); a refresh nobody
  disturbed has set the scopes it is past (`Solitary`).
* `GrantsAreHeld` (GrantsHold): `Bindings` (a code that is open has no binding), `Points` (a user was paid on
  the dates up to the last one, within the limits), `Vault` (a challenge that waits still has its key and its
  nonce: the grace period covers the lifetime of a nonce through every rotation) and `LogoutStep`.
* `ConsolesAreTold` (FreshOrNotified, a part of NoSilentLoss): a console that shows less than was published has
  an event to take or holds one, and what is not published is owed by a run.
* `NothingIsLostSilently` (NoSilentLoss): GapMarked compares neighbours in a queue and is not inductive, since
  one poll puts many lines into it and empties it in between. `Marked` says what a queue is: the newest
  lines without a hole up to the last one published, behind a gap unless they go on from what its stream
  was sent last. That a poll leaves a queue so (LogStream's `Delivered` is a recursive function of the lines'
  number) would be an induction; since no induction theorem can be instantiated, the proof takes
  the least number of lines for which it fails (`LeastNat`) and shows that one line less fails too.
  `Streaming` adds where the reader and the streams stand.
* `InterfacesTypeCorrect` (InterfacesTypeOK): most of the types follow from the invariants above. What they leave
  open are the `*Bounded`: a row has no higher revision than there were writes (`RowWritten`), menus and
  pulls show commands there are, keys, nonces, sessions and codes are of the right kinds and end in time.
  The limiter of failed logins holds at most its number of failures, because the old ones are taken
  from its front before it is asked (`FailuresLeft`), and is asked before a failure is added.

Only model-checked: the liveness properties (CancelEndsRun, KeyIsFreed, Delivered, Recovers), which are
out of the provers' reach. Every invariant and every action property that a passing run checks, and
the refinement of CommandPromise, is stated by a theorem.

## Not modelled

* *Values.* The comparison of texts and numbers in conditions, the wording of messages and logs, field
  validation (lengths, URLs, selectors), encryption itself, presenters and pages. A condition's rule
  matches, misses or raises; everything downstream of that choice is modelled.
* *Test executions and the rate limit of the command queue*: a test execution is a row without a reply,
  and the limit refuses an admission without a trace.
* *Executors of commands*: one step of CommandQueue (RunnerSandbox for Python). safe_http keeps no state.
* *The audit log*, which is only written, and the readers of history, logs and the dashboard.
* *Schema creation and column migrations*, configuration, the command line (a front end of modelled
  operations), core events and ports, which no code path of the service connects.
* *Edits of a command without an expected revision*; *zones whose clock changes twice within the
  calendar of an instance*.
* *Changes the console is not told of by design*: the name of an account, and what the command line does to a
  task in a process of its own.
* *Cancelling a whole HTTP request* of the administration where its handler has no await after its first
  write: it ends before or after its one transaction.

## Plan

Every safety property the passing runs check is proved. What is left: test executions and the rate limit
in CommandQueue.
