--------------------------- MODULE RunnerSandbox ---------------------------
(***************************************************************************)
(* The Python runner: DockerSandbox with its HTTP handlers, the client in  *)
(* the bot process that posts one execution per id and deletes the ids it  *)
(* gives up, and the Docker daemon they command.  Every await of the       *)
(* manager is a docker command; what happens between two of them is one    *)
(* action.  A command that fails may still have had its effect.            *)
(***************************************************************************)
EXTENDS Naturals, Sequences, FiniteSets, Functions

CONSTANTS
  Ids,          \* execution ids the bot posts
  Old,          \* containers a crashed manager left behind
  Concurrency,  \* settings.concurrency
  Window        \* ids remember_finished keeps (1024 in the code; a bound)

ASSUME RunnerAssumption ==
  /\ Concurrency \in Nat \ {0} /\ Window \in Nat \ {0}
  /\ Ids \cap Old = {}
  /\ IsFiniteSet(Ids) /\ IsFiniteSet(Old)

VARIABLES
  ready, quarantined,  \* the manager's flags
  active, cancelReq, orphaned,
  completed,           \* finished and cancelled ids, oldest first
  free,                \* value of the slots semaphore
  pc,                  \* where each execution is
  deleting,            \* DELETE handlers that await their removal
  sweeper,             \* the maintenance task
  posts,               \* POSTs that have not arrived yet
  client,              \* the bot's call of each execution
  dockerUp,            \* whether the daemon answers
  box,                 \* each container
  issued,              \* executions whose start command was sent
  late,                \* failed creates the daemon may still carry out
  barred               \* history: ids deleted before their start was sent

flags == <<ready, quarantined>>
books == <<active, cancelReq, completed, free>>
daemon == <<dockerUp, late>>
wires == <<posts, client>>
vars == <<ready, quarantined, active, cancelReq, orphaned, completed, free, pc,
          deleting, sweeper, posts, client, dockerUp, box, issued, late, barred>>

Boxes == Ids \cup Old
Waits == {"bootprobe", "orphans", "list", "each", "probe", "sleep", "off"}

Init ==
  /\ ready = FALSE /\ quarantined = FALSE
  /\ active = {} /\ cancelReq = {} /\ orphaned = {} /\ completed = <<>>
  /\ free = Concurrency
  /\ pc = [i \in Ids |-> "idle"]
  /\ deleting = {}
  /\ sweeper = [at |-> "bootprobe", todo |-> {}, failed |-> FALSE, startup |-> FALSE]
  /\ posts = Ids /\ client = [i \in Ids |-> "waits"]
  /\ dockerUp \in BOOLEAN
  /\ box = [b \in Boxes |-> IF b \in Old THEN "running" ELSE "none"]
  /\ issued = {} /\ late = {} /\ barred = {}

RunnerTypeOK ==
  /\ {ready, quarantined, dockerUp} \subseteq BOOLEAN
  /\ active \cup cancelReq \cup orphaned \cup deleting \cup issued \cup late \cup barred
       \cup posts \subseteq Ids
  /\ completed \in Seq(Ids) /\ Len(completed) <= Window
  /\ free \in 0 .. Concurrency /\ free + Cardinality(active) = Concurrency
  /\ pc \in [Ids -> {"idle", "creating", "starting", "cleaning", "done"}]
  /\ sweeper \in [at : Waits, todo : SUBSET Boxes, failed : BOOLEAN, startup : BOOLEAN]
  /\ client \in [Ids -> {"waits", "deletes", "left"}]
  /\ box \in [Boxes -> {"none", "made", "running", "exited"}]

-----------------------------------------------------------------------------
(* The client: execute posts once and never retries; a timeout or a        *)
(* cancellation of its caller sends one DELETE, which may overtake the POST *)
(* or find the execution anywhere.                                         *)

GiveUp(i) ==
  /\ client[i] = "waits"
  /\ i \in posts \/ pc[i] \in {"creating", "starting", "cleaning"}
  /\ client' = [client EXCEPT ![i] = "deletes"]
  /\ UNCHANGED <<flags, books, orphaned, pc, deleting, sweeper, posts, daemon, box, issued, barred>>

-----------------------------------------------------------------------------
(* Executions *)

Serving == sweeper.at # "off" /\ sweeper.at # "bootprobe" /\ ~sweeper.startup

\* ids once i is remembered; a known id keeps its place.
Remember(ids, i) ==
  LET grown == IF i \in Range(ids) THEN ids ELSE Append(ids, i)
  IN IF Len(grown) > Window THEN Tail(grown) ELSE grown

Admits(i) ==
  /\ ready /\ free > 0
  /\ i \notin active \cup Range(completed)

\* A POST arrives: refused for a reason the client is told, or given a slot.
Execute(i) ==
  /\ Serving
  /\ i \in posts
  /\ posts' = posts \ {i}
  /\ UNCHANGED <<flags, cancelReq, completed, orphaned, deleting, sweeper, client, daemon, box,
                 issued, barred>>
  /\ IF Admits(i)
     THEN /\ active' = active \cup {i}
          /\ free' = free - 1
          /\ pc' = [pc EXCEPT ![i] = "creating"]
     ELSE UNCHANGED <<active, free, pc>>

\* Mutant: the cancellation is looked at before the create, not after it.
CreatedUnasked(i) ==
  /\ pc[i] = "creating" /\ dockerUp
  /\ box' = [box EXCEPT ![i] = "made"]
  /\ pc' = [pc EXCEPT ![i] = "starting"]
  /\ issued' = issued \cup {i}
  /\ UNCHANGED <<flags, books, orphaned, deleting, sweeper, wires, daemon, barred>>

\* docker create succeeded; a cancellation that came meanwhile ends it here.
Created(i) ==
  /\ pc[i] = "creating" /\ dockerUp
  /\ box' = [box EXCEPT ![i] = "made"]
  /\ IF i \in cancelReq
     THEN pc' = [pc EXCEPT ![i] = "cleaning"] /\ UNCHANGED issued
     ELSE pc' = [pc EXCEPT ![i] = "starting"] /\ issued' = issued \cup {i}
  /\ UNCHANGED <<flags, books, orphaned, deleting, sweeper, wires, daemon, barred>>

\* create failed, ran into a deadline, or its handler was cancelled: the
\* daemon may still make the container.
CreateFails(i) ==
  /\ pc[i] = "creating"
  /\ pc' = [pc EXCEPT ![i] = "cleaning"]
  /\ late' \in {late, late \cup {i}}
  /\ UNCHANGED <<flags, books, orphaned, deleting, sweeper, wires, dockerUp, box, issued, barred>>

\* start ended with a result, an error or a deadline; killing the docker
\* command does not stop the container.
StartEnds(i) ==
  /\ pc[i] = "starting"
  /\ pc' = [pc EXCEPT ![i] = "cleaning"]
  /\ box' \in {box, [box EXCEPT ![i] = IF @ = "running" THEN "exited" ELSE @]}
  /\ UNCHANGED <<flags, books, orphaned, deleting, sweeper, wires, daemon, issued, barred>>

\* remove: rm, and an empty listing when rm failed.  ok is its outcome.
Removal(i, ok) ==
  IF ok
  THEN /\ dockerUp
       /\ box' = [box EXCEPT ![i] = "none"]
       /\ orphaned' = orphaned \ {i}
       /\ UNCHANGED flags
  ELSE /\ ~dockerUp
       /\ box' \in {box, [box EXCEPT ![i] = "none"]}
       /\ orphaned' = orphaned \cup {i}
       /\ ready' = FALSE /\ quarantined' = TRUE

\* The finally block: the shielded removal, then the books whatever it did.
Cleaned(i) ==
  /\ pc[i] = "cleaning"
  /\ \E ok \in BOOLEAN : Removal(i, ok)
  /\ pc' = [pc EXCEPT ![i] = "done"]
  /\ active' = active \ {i}
  /\ cancelReq' = cancelReq \ {i}
  /\ completed' = Remember(completed, i)
  /\ free' = free + 1
  /\ barred' = barred \ (Range(completed) \ Range(completed'))
  /\ UNCHANGED <<deleting, sweeper, wires, daemon, issued>>

\* DELETE: remembered first, so that a delayed POST is refused.
Cancel(i) ==
  /\ Serving
  /\ client[i] = "deletes"
  /\ client' = [client EXCEPT ![i] = "left"]
  /\ completed' = Remember(completed, i)
  /\ IF i \in active
     THEN cancelReq' = cancelReq \cup {i} /\ deleting' = deleting \cup {i}
     ELSE UNCHANGED <<cancelReq, deleting>>
  /\ barred' = (barred \ ((Range(completed) \ Range(completed')) \ active))
                 \cup ({i} \ issued)
  /\ UNCHANGED <<flags, active, free, orphaned, pc, sweeper, posts, daemon, box, issued>>

CancelRemoves(i) ==
  /\ i \in deleting
  /\ \E ok \in BOOLEAN : Removal(i, ok)
  /\ deleting' = deleting \ {i}
  /\ UNCHANGED <<books, pc, sweeper, wires, daemon, issued, barred>>

-----------------------------------------------------------------------------
(* probe, sweep and maintenance *)

SweeperOnly == UNCHANGED <<books, pc, deleting, wires, daemon, issued, barred>>
At(s) == sweeper.at = s
Move(s) == sweeper' = [sweeper EXCEPT !.at = s]

\* A docker command of the maintenance raised: readiness goes, the rest of
\* the round is skipped.  While the service boots it does not come up.
MaintenanceRaises ==
  /\ ~dockerUp
  /\ sweeper.at \in {"list", "each"}
  /\ ready' = FALSE
  /\ sweeper' = [sweeper EXCEPT !.at = IF sweeper.startup THEN "off" ELSE "sleep", !.todo = {}]
  /\ UNCHANGED <<quarantined, orphaned, box>>
  /\ SweeperOnly

BeginSweep(startup) ==
  sweeper' = [at |-> "orphans", todo |-> orphaned, failed |-> FALSE, startup |-> startup]

Probe ==
  /\ sweeper.at \in {"bootprobe", "probe"}
  /\ \/ dockerUp /\ ready' = ~quarantined
     \/ ~dockerUp /\ ready' = FALSE
  /\ IF At("probe") THEN Move("sleep") ELSE BeginSweep(ready')
  /\ UNCHANGED <<quarantined, orphaned, box>>
  /\ SweeperOnly

Wake ==
  /\ At("sleep")
  /\ BeginSweep(FALSE)
  /\ UNCHANGED <<flags, orphaned, box>>
  /\ SweeperOnly

SweepOrphan(i) ==
  /\ At("orphans") /\ i \in sweeper.todo
  /\ \E ok \in BOOLEAN :
       /\ Removal(i, ok)
       /\ sweeper' = [sweeper EXCEPT !.todo = @ \ {i}, !.failed = @ \/ ~ok]
  /\ SweeperOnly

OrphansDone ==
  /\ At("orphans") /\ sweeper.todo = {}
  /\ Move("list")
  /\ UNCHANGED <<flags, orphaned, box>>
  /\ SweeperOnly

\* After its start-up sweep the service serves and the maintenance begins.
Finish == IF sweeper.startup THEN BeginSweep(FALSE)
          ELSE sweeper' = [sweeper EXCEPT !.at = "probe", !.todo = {}]

SweepList ==
  /\ At("list")
  /\ \/ /\ dockerUp
        /\ sweeper' = [sweeper EXCEPT !.at = "each", !.todo = {b \in Boxes : box[b] # "none"}]
        /\ UNCHANGED flags
     \/ /\ ~dockerUp
        /\ Finish
        /\ ready' = FALSE /\ quarantined' = TRUE
  /\ UNCHANGED <<orphaned, box>>
  /\ SweeperOnly

\* A label can only run out when the execution's own deadline has passed.
Expirable(b) == IF b \in Ids THEN pc[b] \in {"cleaning", "done"} ELSE TRUE

\* One listed container: inspected, and removed when it expired or the
\* manager starts.  A container that went meanwhile fails its inspection.
SweepEach(b) ==
  /\ At("each") /\ b \in sweeper.todo
  /\ UNCHANGED <<quarantined, orphaned>>
  /\ SweeperOnly
  /\ \/ /\ dockerUp /\ box[b] # "none"
        /\ ~sweeper.startup
        /\ sweeper' = [sweeper EXCEPT !.todo = @ \ {b}]
        /\ UNCHANGED <<ready, box>>
     \/ /\ dockerUp /\ box[b] # "none"
        /\ sweeper.startup \/ Expirable(b)
        /\ sweeper' = [sweeper EXCEPT !.todo = @ \ {b}]
        /\ box' = [box EXCEPT ![b] = "none"]
        /\ UNCHANGED ready
     \/ /\ ~dockerUp \/ box[b] = "none"
        /\ sweeper' = [sweeper EXCEPT !.todo = @ \ {b}, !.failed = TRUE]
        /\ ready' \in (IF dockerUp THEN {ready} ELSE {ready, FALSE})
        /\ UNCHANGED box

\* Mutant: a sweep that fails quarantines, and one that succeeds lifts nothing.
SweepEndsSticky ==
  /\ At("each") /\ sweeper.todo = {}
  /\ quarantined' = (quarantined \/ sweeper.failed)
  /\ Finish
  /\ UNCHANGED <<ready, orphaned, box>>
  /\ SweeperOnly

\* The verdict of this sweep replaces the flag, whoever set it meanwhile.
SweepEnds ==
  /\ At("each") /\ sweeper.todo = {}
  /\ quarantined' = sweeper.failed
  /\ Finish
  /\ UNCHANGED <<ready, orphaned, box>>
  /\ SweeperOnly

\* Shutdown stops the maintenance and removes what still runs.
Shutdown ==
  /\ Serving
  /\ sweeper' = [sweeper EXCEPT !.at = "off", !.todo = {}]
  /\ deleting' = deleting \cup active
  /\ UNCHANGED <<flags, books, orphaned, pc, wires, daemon, box, issued, barred>>

-----------------------------------------------------------------------------
(* The Docker daemon *)

DaemonOnly == UNCHANGED <<flags, books, orphaned, pc, deleting, sweeper, wires, issued, barred>>

DockerFlips ==
  /\ dockerUp' = ~dockerUp
  /\ DaemonOnly /\ UNCHANGED <<box, late>>

\* The daemon starts the container a start was sent for, however late.
Started(i) ==
  /\ i \in issued /\ box[i] = "made"
  /\ box' = [box EXCEPT ![i] = "running"]
  /\ DaemonOnly /\ UNCHANGED daemon

LateCreate(i) ==
  /\ i \in late
  /\ late' = late \ {i}
  /\ box' \in {box, [box EXCEPT ![i] = "made"]}
  /\ DaemonOnly /\ UNCHANGED dockerUp

-----------------------------------------------------------------------------
Execution(i) == \/ Created(i) \/ CreateFails(i) \/ StartEnds(i) \/ Cleaned(i)
                \/ CancelRemoves(i)
Maintenance == \/ Probe \/ Wake \/ OrphansDone \/ SweepList \/ SweepEnds \/ MaintenanceRaises
               \/ \E i \in Ids : SweepOrphan(i)
               \/ \E b \in Boxes : SweepEach(b)
Requests(i) == GiveUp(i) \/ Execute(i) \/ Cancel(i)
Environment == \/ DockerFlips \/ Shutdown
               \/ \E i \in Ids : Started(i) \/ LateCreate(i)

Next == (\E i \in Ids : Execution(i) \/ Requests(i)) \/ Maintenance \/ Environment

\* Coroutines go on when their command ends; Docker itself owes nothing.
Fairness ==
  /\ WF_vars(Maintenance)
  /\ \A i \in Ids : WF_vars(Execution(i)) /\ WF_vars(LateCreate(i))
  /\ \A b \in Boxes : SF_vars(SweepEach(b) /\ box'[b] = "none")

Spec == Init /\ [][Next]_vars /\ Fairness

-----------------------------------------------------------------------------
(* What the runner promises *)

\* User code never runs unattended: a container that runs belongs to an
\* execution under way or to the orphans each sweep tries again.
Supervised ==
  \A i \in Ids : box[i] = "running" => i \in active \cup orphaned

\* An execution whose DELETE was answered before its start was sent is never
\* started, whether the DELETE overtook its POST or found it creating.
CancelledNeverStarts == barred \cap issued = {}

\* Both, on sound books: a slot is given back exactly once, the replay window
\* stays bounded, and no user code outlives the manager's knowledge of it.
RunnerContained == RunnerTypeOK /\ Supervised /\ CancelledNeverStarts

\* Once Docker stays reachable, an unfinished execution ends, the manager
\* becomes ready again and again, and no container of a finished execution
\* or of an earlier manager stays.
Recovers ==
  (<>[](dockerUp /\ sweeper.at # "off"))
    => /\ []<>ready
       /\ <>[](\A b \in Boxes : box[b] # "none" => b \in active)

\* The documented quarantine: nothing new is accepted while the removal of
\* an earlier execution is not confirmed.  (A sweep that ends meanwhile lifts
\* it: see the README.)
ReadyMeansClean == ready => orphaned = {}
=============================================================================
