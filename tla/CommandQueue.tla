---------------------------- MODULE CommandQueue ----------------------------
(***************************************************************************)
(* The persistent queue of custom commands: rows of the table              *)
(* bot_command_executions for one bot, shared by the worker and delivery   *)
(* coroutines of several service processes.  Each repository call is one   *)
(* transaction under the bot's gate; a coroutine's step is the code        *)
(* between two awaits.  A process that restarts is a new process: it has a *)
(* new owner id.                                                           *)
(***************************************************************************)
EXTENDS Naturals, FiniteSets

CONSTANTS
  Procs,          \* incarnations of CommandExecutionService (a bound)
  Workers,        \* worker coroutines of a process
  Senders,        \* delivery coroutines of a process
  Updates,        \* Telegram updates that carry the command
  Actors,         \* users
  Kinds,          \* executor types, "python" or others
  MaxRows,        \* rows a behaviour can create (a bound)
  MaxEvents,      \* disturbances: QueueEvents, failed replies (a bound)
  MaxWorkers, PythonWorkers, QueueLimit,   \* ExecutorPolicy
  MaxTries,       \* delivery attempts per row
  QueueEvents,    \* "edit", "recreate", "revoke", "crash", "stall", "close",
                  \* "dbError", "prune"
  None

Rows == 1 .. MaxRows

ASSUME QueueAssumption ==
  /\ MaxRows \in Nat /\ MaxEvents \in Nat \ {0} /\ MaxTries \in Nat
  /\ MaxWorkers \in Nat /\ PythonWorkers \in Nat /\ QueueLimit \in Nat
  /\ None \notin Procs \cup Updates \cup Nat

VARIABLES
  proc,    \* "new", "up", "closing" or "down"
  config,  \* the command: which creation of it, its revision (0: deleted),
           \* and whether the users hold a role it allows
  events,  \* disturbances so far
  row,     \* bot_command_executions, in the order of created_at
  work,    \* what each worker coroutine is doing
  send,    \* the row each delivery coroutine is sending
  accepted,  \* the delivery coroutines whose message Telegram has accepted
  ran,     \* commands (creation and revision) each row's executor was started with
  starts,  \* how often the executor was started for each update
  shown    \* replies Telegram accepted for each update

vars == <<proc, config, events, row, work, send, accepted, ran, starts, shown>>

Terminal == {"succeeded", "failed", "unknown", "cancelled"}
Statuses == Terminal \cup {"none", "queued", "running"}

Command   == [life : Nat, rev : Nat]
NoCommand == [life |-> 0, rev |-> 0]

NoRow == [status |-> "none", update |-> None, actor |-> None, kind |-> None,
          command |-> NoCommand, owner |-> None, reply |-> "pending", tries |-> 0]
Idle  == [row |-> 0, stage |-> "idle", command |-> NoCommand, granted |-> FALSE]

Row  == [status : Statuses, update : Updates \cup {None}, actor : Actors \cup {None},
         kind : Kinds \cup {None}, command : Command, owner : Procs \cup {None},
         reply : {"pending", "sending", "sent", "failed", "pruned"}, tries : 0 .. MaxTries]
\* command and granted: the configuration and the permission _execute has read.
Work == [row : Rows \cup {0}, stage : {"idle", "probing", "executing"},
         command : Command, granted : BOOLEAN]

\* Every variable has its type.
TypeOK ==
  /\ proc \in [Procs -> {"new", "up", "closing", "down"}]
  /\ config \in [command : Command, granted : BOOLEAN]
  /\ events \in 0 .. MaxEvents
  /\ row \in [Rows -> Row]
  /\ work \in [Procs \X Workers -> Work]
  /\ send \in [Procs \X Senders -> Rows \cup {0}]
  /\ accepted \subseteq Procs \X Senders
  /\ ran \in [Rows -> SUBSET Command]
  /\ starts \in [Updates -> Nat]
  /\ shown \in [Updates -> Nat]

Init ==
  /\ proc = [p \in Procs |-> "new"]
  /\ config = [command |-> [life |-> 1, rev |-> 1], granted |-> TRUE]
  /\ events = 0
  /\ row = [e \in Rows |-> NoRow]
  /\ work = [w \in Procs \X Workers |-> Idle]
  /\ send = [d \in Procs \X Senders |-> 0]
  /\ accepted = {}
  /\ ran = [e \in Rows |-> {}]
  /\ starts = [u \in Updates |-> 0]
  /\ shown = [u \in Updates |-> 0]

Exists == config.command.rev > 0
Ready  == Exists /\ config.granted
Live  == {e \in Rows : row[e].status \in {"queued", "running"}}
Used(e) == row[e].status # "none"

-----------------------------------------------------------------------------
(* Admission *)

Start(p) ==
  /\ proc[p] = "new"
  /\ proc' = [proc EXCEPT ![p] = "up"]
  /\ UNCHANGED <<config, events, row, work, send, accepted, ran, starts, shown>>

Queued(u, a, k) ==
  [NoRow EXCEPT !.status = "queued", !.update = u, !.actor = a, !.kind = k,
                !.command = config.command]

\* The row id the next insertion gets.
Fresh(e) == ~Used(e) /\ \A f \in Rows : f < e => Used(f)

\* submit: an update that has a row already only gets that row back.
Enqueue(p, e, u, a, k) ==
  /\ proc[p] = "up" /\ Ready
  /\ Fresh(e)
  /\ \A f \in Rows : row[f].update # u
  /\ Cardinality(Live) < QueueLimit
  /\ row' = [row EXCEPT ![e] = Queued(u, a, k)]
  /\ UNCHANGED <<proc, config, events, work, send, accepted, ran, starts, shown>>

-----------------------------------------------------------------------------
(* Leases, expiry and recovery *)

Attended(e) ==
  \/ \E w \in Procs \X Workers : work[w].row = e
  \/ \E d \in Procs \X Senders : send[d] = e

\* Rows whose queue time or lease may be over: a queued row can wait longer
\* than queue_seconds; a lease is not given back in time because its process
\* died, or was suspended for longer than the lease.
Overdue ==
  {e \in Rows : \/ row[e].status = "queued"
                \/ /\ row[e].owner # None
                   /\ Attended(e) => "stall" \in QueueEvents}

\* One more disturbance, of which a behaviour has a bounded number.
Disturbed(n) == events' = events + n /\ events' <= MaxEvents

\* Suspended coroutines are disturbances.
Suspended(late) == Disturbed(Cardinality({e \in late : Attended(e)}))

\* Mutant: an interrupted execution is queued again.
RecoveredRequeued(x) ==
  CASE x.status = "running" -> [x EXCEPT !.status = "queued", !.owner = None]
    [] x.status = "queued"  -> [x EXCEPT !.status = "cancelled"]
    [] OTHER                -> [x EXCEPT !.reply = "failed", !.owner = None]

\* _recover: what becomes of an overdue row.
Recovered(x) ==
  CASE x.status = "running" -> [x EXCEPT !.status = "unknown", !.owner = None]
    [] x.status = "queued"  -> [x EXCEPT !.status = "cancelled"]
    [] OTHER                -> [x EXCEPT !.reply = "failed", !.owner = None]

\* The table after _recover, when the rows in late are overdue.
Table(late) == [e \in Rows |-> IF e \in late THEN Recovered(row[e]) ELSE row[e]]

-----------------------------------------------------------------------------
(* Execution *)

Running(t) == {e \in Rows : t[e].status = "running"}

\* Mutant: the running rows of the same user are not looked at.
ClaimableAnyActor(t, e) ==
  /\ Cardinality(Running(t)) < MaxWorkers
  /\ t[e].status = "queued"
  /\ t[e].kind = "python" =>
       Cardinality({f \in Running(t) : t[f].kind = "python"}) < PythonWorkers

\* The limits under which claim hands out row e of table t.
Claimable(t, e) ==
  /\ Cardinality(Running(t)) < MaxWorkers
  /\ t[e].status = "queued"
  /\ \A f \in Running(t) : t[f].actor # t[e].actor
  /\ t[e].kind = "python" =>
       Cardinality({f \in Running(t) : t[f].kind = "python"}) < PythonWorkers

Idling(p, w) == proc[p] = "up" /\ work[<<p, w>>] = Idle

\* The executor of row e begins.
Began(e, u, command) ==
  /\ ran' = [ran EXCEPT ![e] = @ \cup {command}]
  /\ starts' = [starts EXCEPT ![u] = @ + 1]

Job(e, stage) ==
  [row |-> e, stage |-> stage, command |-> config.command, granted |-> config.granted]

\* Mutant: the revision is not compared.
UnchangedIfExists(x) == Exists

\* CONFIG_CHANGED otherwise.
UnchangedSince(x) == Exists /\ config.command.rev = x.command.rev

\* claim finds nothing to do, but recovers.
ClaimNothing(p, w, late) ==
  /\ Idling(p, w)
  /\ ~\E e \in Rows : Claimable(Table(late), e)
  /\ row' = Table(late) /\ Suspended(late)
  /\ UNCHANGED <<proc, config, work, send, accepted, ran, starts, shown>>

\* claim takes the oldest row it may, and _execute goes on in the same step
\* as far as it can: the command's revision and the user's role are read
\* again, and a Python command first awaits the runner's health.
Claim(p, w, late, e) ==
  LET t     == Table(late)
      slow  == t[e].kind = "python"
      taken == [t EXCEPT ![e].status = "running", ![e].owner = p]
  IN  /\ Idling(p, w)
      /\ Claimable(t, e)
      /\ \A f \in Rows : f < e => ~Claimable(t, f)
      /\ \/ /\ UnchangedSince(t[e]) /\ slow
            /\ row' = taken
            /\ work' = [work EXCEPT ![<<p, w>>] = Job(e, "probing")]
            /\ UNCHANGED <<ran, starts>>
         \/ /\ UnchangedSince(t[e]) /\ ~slow /\ config.granted
            /\ row' = taken
            /\ work' = [work EXCEPT ![<<p, w>>] = Job(e, "executing")]
            /\ Began(e, t[e].update, config.command)
         \/ /\ UnchangedSince(t[e]) => (~slow /\ ~config.granted)
            /\ \/ row' = [t EXCEPT ![e].status = "failed"]
               \/ "dbError" \in QueueEvents /\ row' = taken
            /\ UNCHANGED <<work, ran, starts>>
      /\ Suspended(late)
      /\ UNCHANGED <<proc, config, send, accepted, shown>>

\* Mutant: the row is completed whoever owns it and whatever it says.
CompletedUnchecked(e, p, status) ==
  [row EXCEPT ![e].status = status, ![e].owner = None]

\* complete: only the owner of a running row records its outcome.
Completed(e, p, status) ==
  IF row[e].status = "running" /\ row[e].owner = p
  THEN [row EXCEPT ![e].status = status, ![e].owner = None]
  ELSE row

\* The worker's finally block; the transaction may fail.
Finish(p, w, status) ==
  LET e == work[<<p, w>>].row
  IN  /\ \/ row' = Completed(e, p, status) /\ UNCHANGED events
         \/ "dbError" \in QueueEvents /\ UNCHANGED row /\ Disturbed(1)
      /\ work' = [work EXCEPT ![<<p, w>>] = Idle]

\* The runner answered: the executor starts with what was read before.
Probed(p, w) ==
  LET job == work[<<p, w>>]
  IN  /\ proc[p] = "up" /\ job.stage = "probing"
      /\ \/ /\ job.granted
            /\ work' = [work EXCEPT ![<<p, w>>].stage = "executing"]
            /\ Began(job.row, row[job.row].update, job.command)
            /\ UNCHANGED <<row, events>>
         \/ Finish(p, w, "failed") /\ UNCHANGED <<ran, starts>>
      /\ UNCHANGED <<proc, config, send, accepted, shown>>

\* The executor returned, failed or timed out.
Executed(p, w) ==
  /\ proc[p] = "up" /\ work[<<p, w>>].stage = "executing"
  /\ \E status \in {"succeeded", "failed"} : Finish(p, w, status)
  /\ UNCHANGED <<proc, config, send, accepted, ran, starts, shown>>

\* close() cancelled the worker: what the executor did is not known.
Interrupted(p, w) ==
  /\ proc[p] = "closing" /\ work[<<p, w>>] # Idle
  /\ Finish(p, w, "unknown")
  /\ UNCHANGED <<proc, config, send, accepted, ran, starts, shown>>

-----------------------------------------------------------------------------
(* Delivery *)

\* Mutant: a fourth attempt is made.
DeliverableOnceMore(t, e) ==
  t[e].status \in Terminal /\ t[e].reply \in {"pending", "failed"}

Deliverable(t, e) ==
  /\ t[e].status \in Terminal
  /\ t[e].reply \in {"pending", "failed"}
  /\ t[e].tries < MaxTries

\* claim_delivery: the oldest reply to send; one that failed before may still
\* be backing off.  Every claim recovers, whether or not it finds a reply.
ClaimDelivery(p, d, late) ==
  LET t == Table(late)
  IN  /\ proc[p] = "up" /\ send[<<p, d>>] = 0
      /\ \/ /\ ~\E e \in Rows : Deliverable(t, e) /\ t[e].reply = "pending"
            /\ row' = t
            /\ UNCHANGED send
         \/ \E e \in Rows :
              /\ Deliverable(t, e)
              /\ \A f \in Rows : (f < e /\ Deliverable(t, f)) => t[f].reply = "failed"
              /\ row' = [t EXCEPT ![e].reply = "sending", ![e].tries = @ + 1,
                                  ![e].owner = p]
              /\ send' = [send EXCEPT ![<<p, d>>] = e]
      /\ Suspended(late)
      /\ UNCHANGED <<proc, config, work, accepted, ran, starts, shown>>

\* Telegram accepts the message. A request that is still under way when its
\* coroutine ends is counted before.
Accept(p, d) ==
  LET e == send[<<p, d>>]
  IN  /\ e # 0 /\ <<p, d>> \notin accepted
      /\ accepted' = accepted \cup {<<p, d>>}
      /\ shown' = [shown EXCEPT ![row[e].update] = @ + 1]
      /\ UNCHANGED <<proc, config, events, row, work, send, ran, starts>>

\* finish_delivery: only while the row is being sent by this process. The
\* transaction may fail, after the n disturbances that led to it.
Delivered(p, d, reply, n) ==
  LET e == send[<<p, d>>]
  IN  /\ \/ /\ row' = IF row[e].reply = "sending" /\ row[e].owner = p
                      THEN [row EXCEPT ![e].reply = reply, ![e].owner = None]
                      ELSE row
            /\ Disturbed(n)
         \/ "dbError" \in QueueEvents /\ UNCHANGED row /\ Disturbed(n + 1)
      /\ send' = [send EXCEPT ![<<p, d>>] = 0]
      /\ accepted' = accepted \ {<<p, d>>}

Sent(p, d) ==
  /\ proc[p] = "up" /\ <<p, d>> \in accepted
  /\ Delivered(p, d, "sent", 0)
  /\ UNCHANGED <<proc, config, work, ran, starts, shown>>

\* An error, a timeout or close(); Telegram may have accepted the message.
SendFailed(p, d) ==
  /\ send[<<p, d>>] # 0
  /\ \/ proc[p] = "up" /\ Delivered(p, d, "failed", 1)
     \/ proc[p] = "closing" /\ Delivered(p, d, "failed", 0)
  /\ UNCHANGED <<proc, config, work, ran, starts, shown>>

-----------------------------------------------------------------------------
(* Processes, configuration, retention *)

Close(p) ==
  /\ proc[p] = "up"
  /\ proc' = [proc EXCEPT ![p] = "closing"]
  /\ Disturbed(1)
  /\ UNCHANGED <<config, row, work, send, accepted, ran, starts, shown>>

\* close() has gathered its coroutines.
Closed(p) ==
  /\ proc[p] = "closing"
  /\ \A w \in Workers : work[<<p, w>>] = Idle
  /\ \A d \in Senders : send[<<p, d>>] = 0
  /\ proc' = [proc EXCEPT ![p] = "down"]
  /\ UNCHANGED <<config, events, row, work, send, accepted, ran, starts, shown>>

Crash(p) ==
  /\ proc[p] \in {"up", "closing"}
  /\ proc' = [proc EXCEPT ![p] = "down"]
  /\ Disturbed(1)
  /\ work' = [x \in Procs \X Workers |-> IF x[1] = p THEN Idle ELSE work[x]]
  /\ send' = [x \in Procs \X Senders |-> IF x[1] = p THEN 0 ELSE send[x]]
  /\ accepted' = {x \in accepted : x[1] # p}
  /\ UNCHANGED <<config, row, ran, starts, shown>>

\* mutate_bot_command_config on an existing command.
EditCommand ==
  /\ Exists
  /\ config' = [config EXCEPT !.command.rev = @ + 1]
  /\ Disturbed(1)
  /\ UNCHANGED <<proc, row, work, send, accepted, ran, starts, shown>>

DeleteCommand ==
  /\ Exists
  /\ config' = [config EXCEPT !.command.rev = 0]
  /\ Disturbed(1)
  /\ UNCHANGED <<proc, row, work, send, accepted, ran, starts, shown>>

\* mutate_bot_command_config on a missing command counts from 1 again.
CreateCommand ==
  /\ ~Exists
  /\ config' = [config EXCEPT !.command = [life |-> config.command.life + 1, rev |-> 1]]
  /\ Disturbed(1)
  /\ UNCHANGED <<proc, row, work, send, accepted, ran, starts, shown>>

\* The user's binding loses or gets back the role the command needs.
ChangeRole ==
  /\ config' = [config EXCEPT !.granted = ~@]
  /\ Disturbed(1)
  /\ UNCHANGED <<proc, row, work, send, accepted, ran, starts, shown>>

\* prune: the row is gone after retention_days, when Telegram no longer repeats
\* the update; its status stays here as history.
Prune(e) ==
  /\ row[e].status \in Terminal /\ row[e].reply # "pruned"
  /\ row' = [row EXCEPT ![e].reply = "pruned", ![e].owner = None]
  /\ Disturbed(1)
  /\ UNCHANGED <<proc, config, work, send, accepted, ran, starts, shown>>

-----------------------------------------------------------------------------
Admission ==
  \/ \E p \in Procs : Start(p)
  \/ \E p \in Procs, e \in Rows, u \in Updates, a \in Actors, k \in Kinds :
       Enqueue(p, e, u, a, k)

WorkerStep(p, w) ==
  \/ \E late \in SUBSET Overdue :
       ClaimNothing(p, w, late) \/ \E e \in Rows : Claim(p, w, late, e)
  \/ Probed(p, w) \/ Executed(p, w) \/ Interrupted(p, w)

SenderStep(p, d) ==
  \/ \E late \in SUBSET Overdue : ClaimDelivery(p, d, late)
  \/ Accept(p, d) \/ Sent(p, d) \/ SendFailed(p, d)

Environment ==
  \/ "prune" \in QueueEvents /\ \E e \in Rows : Prune(e)
  \/ \E p \in Procs : \/ "close" \in QueueEvents /\ (Close(p) \/ Closed(p))
                      \/ "crash" \in QueueEvents /\ Crash(p)
  \/ "edit" \in QueueEvents /\ EditCommand
  \/ "recreate" \in QueueEvents /\ (DeleteCommand \/ CreateCommand)
  \/ "revoke" \in QueueEvents /\ ChangeRole

Next ==
  \/ Admission
  \/ \E p \in Procs : \/ \E w \in Workers : WorkerStep(p, w)
                      \/ \E d \in Senders : SenderStep(p, d)
  \/ Environment

Spec == Init /\ [][Next]_vars

-----------------------------------------------------------------------------
(* Properties *)

RowsOf(u) == {e \in Rows : row[e].update = u}

\* The phase of CommandPromise, read off the rows.
Phase ==
  [u \in Updates |-> IF RowsOf(u) = {} THEN "new"
                     ELSE IF RowsOf(u) \cap Live # {} THEN "admitted"
                     ELSE row[CHOOSE e \in RowsOf(u) : TRUE].status]

Promise == INSTANCE CommandPromise WITH phase <- Phase, replies <- shown

\* The queue keeps the promise of docs/custom-command-executors.md, whatever
\* crashes, is edited or answers late.
PromiseKept == Promise!Spec

\* claim never lets more executions run than the policy allows, nor two of
\* one user, however many processes share the queue.
LimitsKept ==
  /\ Cardinality(Running(row)) <= MaxWorkers
  /\ Cardinality({e \in Running(row) : row[e].kind = "python"}) <= PythonWorkers
  /\ \A e, f \in Running(row) : row[e].actor = row[f].actor => e = f

\* A worker owns the row it executes as long as the row says running, and
\* nobody else works on that row.
OneExecutor ==
  \A x, y \in Procs \X Workers :
    (work[x].row # 0 /\ work[x].row = work[y].row) => x = y

\* A configuration edited while its execution is queued is not executed: the
\* executor starts with the revision that was admitted or not at all, also
\* when it first waits for the runner.
AdmittedRevision ==
  \A e \in Rows : \A command \in ran[e] : command.rev = row[e].command.rev

\* docs/custom-command-executors.md:194: a configuration changed while the
\* execution is queued prevents it.
AdmittedCommand == \A e \in Rows : ran[e] \subseteq {row[e].command}
=============================================================================
