--------------------------- MODULE ServicesProofs ---------------------------
(***************************************************************************)
(* The safety of the services a check-in relies on, for any executions,    *)
(* slots, flows, requests, messages, workflows and schedules: the Python   *)
(* runner gives slots back once, never lets user code run unattended and   *)
(* never starts what was cancelled; accounts leave no login, client or     *)
(* lease behind; a wait overlooks no answer; an accepted workflow finds    *)
(* what it needs and its progress tells what it did; a schedule arms its   *)
(* next point.                                                             *)
(***************************************************************************)
EXTENDS Services, FiniteSetTheorems, WellFoundedInduction, TLAPS

-----------------------------------------------------------------------------
(* The Python runner *)

Inside == {"creating", "starting", "cleaning"}

\* An execution holds a slot exactly while it is inside execute; its POST has
\* arrived once it left "idle".
Slots ==
  \A i \in Ids : /\ i \in active <=> pc[i] \in Inside
                 /\ i \in posts => pc[i] = "idle"

\* A start is sent only after a create that succeeded, and a create that the
\* daemon carries out late was given up.
Starts ==
  \A i \in Ids : /\ pc[i] \in {"idle", "creating"} => i \notin issued
                 /\ i \in late => pc[i] \in {"cleaning", "done"} /\ i \notin issued

\* A container that runs, or that a start on its way will make run, is in the
\* manager's books.
Known ==
  \A i \in Ids : /\ box[i] = "running" => i \in issued
                 /\ box[i] \in {"made", "running"} /\ i \in issued => i \in active \cup orphaned

\* A cancelled execution was not started; it is refused, or stopped after its
\* create.
Barring ==
  \A i \in barred : /\ i \notin issued
                    /\ pc[i] = "idle" => i \in Range(completed)
                    /\ pc[i] = "creating" => i \in cancelReq

IInv == RunnerTypeOK /\ Slots /\ Starts /\ Known /\ Barring

-----------------------------------------------------------------------------
(* The replay window *)

\* remember_finished keeps the window's size and holds the id it was given.
LEMMA Remembers ==
  ASSUME NEW ids \in Seq(Ids), Len(ids) <= Window, NEW i \in Ids
  PROVE  /\ Remember(ids, i) \in Seq(Ids)
         /\ Len(Remember(ids, i)) <= Window
         /\ i \in Range(Remember(ids, i))
<1>1. CASE i \in Range(ids)
  BY <1>1, RunnerAssumption DEF Remember
<1>2. CASE i \notin Range(ids)
  <2> DEFINE grown == Append(ids, i)
  <2>1. grown \in Seq(Ids) /\ Len(grown) = Len(ids) + 1 /\ grown[Len(grown)] = i
    OBVIOUS
  <2>2. CASE Len(grown) > Window
    <3>1. Remember(ids, i) = Tail(grown)
      BY <1>2, <2>2 DEF Remember
    <3>2. Len(grown) >= 2
      BY <2>1, <2>2, RunnerAssumption
    <3>3. /\ Tail(grown) \in Seq(Ids) /\ Len(Tail(grown)) = Len(grown) - 1
          /\ Tail(grown)[Len(grown) - 1] = i
      BY <2>1, <3>2
    <3>4. Len(grown) - 1 \in DOMAIN Tail(grown)
      BY <2>1, <3>2, <3>3
    <3>5. Tail(grown)[Len(grown) - 1] \in Range(Tail(grown))
      BY <3>4 DEF Range
    <3>6. Len(Tail(grown)) <= Window
      BY <2>1, <3>3, RunnerAssumption
    <3> HIDE DEF grown
    <3> QED BY <3>1, <3>3, <3>5, <3>6
  <2>3. CASE ~(Len(grown) > Window)
    <3>1. Remember(ids, i) = grown
      BY <1>2, <2>3 DEF Remember
    <3>2. Len(grown) \in DOMAIN grown
      BY <2>1
    <3> QED BY <2>1, <2>3, <3>1, <3>2, RunnerAssumption DEF Range
  <2> QED BY <2>2, <2>3
<1> QED BY <1>1, <1>2

-----------------------------------------------------------------------------
(* Slots *)

\* A slot is taken with an execution that was outside, and given back with one
\* that was inside.
LEMMA SlotsCount ==
  ASSUME RunnerTypeOK, NEW i \in Ids
  PROVE  /\ Cardinality(active) \in Nat /\ free + Cardinality(active) = Concurrency
         /\ i \notin active => Cardinality(active \cup {i}) = Cardinality(active) + 1
         /\ i \in active => Cardinality(active \ {i}) = Cardinality(active) - 1
         /\ i \in active => free + 1 \in 0 .. Concurrency
<1>1. active \subseteq Ids /\ free \in 0 .. Concurrency /\ Concurrency \in Nat
  BY RunnerAssumption DEF RunnerTypeOK
<1>2. IsFiniteSet(active)
  BY <1>1, FS_Subset, RunnerAssumption
<1>3. Cardinality(active) \in Nat
  BY <1>2, FS_CardinalityType
<1>4. i \notin active => Cardinality(active \cup {i}) = Cardinality(active) + 1
  BY <1>2, FS_AddElement
<1>5. i \in active => Cardinality(active \ {i}) = Cardinality(active) - 1
  BY <1>2, FS_RemoveElement
<1>6. i \in active => Cardinality(active) # 0
  BY <1>2, FS_EmptySet
<1>7. free + Cardinality(active) = Concurrency
  BY DEF RunnerTypeOK
<1> QED BY <1>1, <1>3, <1>4, <1>5, <1>6, <1>7

-----------------------------------------------------------------------------
(* The invariant *)

LEMMA Starting == Init => IInv
<1> SUFFICES ASSUME Init PROVE IInv
  OBVIOUS
<1>1. Cardinality({}) = 0
  BY FS_EmptySet
<1>2. RunnerTypeOK
  <2>1. completed \in Seq(Ids) /\ Len(completed) <= Window
    BY RunnerAssumption DEF Init
  <2>2. free \in 0 .. Concurrency /\ free + Cardinality(active) = Concurrency
    BY <1>1, RunnerAssumption DEF Init
  <2>3. sweeper \in [at : Waits, todo : SUBSET Boxes, failed : BOOLEAN, startup : BOOLEAN]
    BY DEF Init, Waits
  <2>4. {ready, quarantined, dockerUp} \subseteq BOOLEAN
    BY DEF Init
  <2>5. /\ pc \in [Ids -> {"idle", "creating", "starting", "cleaning", "done"}]
        /\ client \in [Ids -> {"waits", "deletes", "left"}]
        /\ box \in [Boxes -> {"none", "made", "running", "exited"}]
    BY DEF Init
  <2> QED BY <2>1, <2>2, <2>3, <2>4, <2>5 DEF Init, RunnerTypeOK
<1>3. Slots /\ Starts /\ Known /\ Barring
  BY RunnerAssumption DEF Init, Slots, Starts, Known, Barring, Inside, Boxes
<1> QED BY <1>2, <1>3 DEF IInv

\* What the steps of one execution do to its books.
LEMMA ExecutionSteps ==
  ASSUME IInv, NEW i \in Ids, Created(i) \/ CreateFails(i) \/ StartEnds(i)
  PROVE  IInv'
<1> USE DEF IInv
<1>1. CASE Created(i)
  <2>1. RunnerTypeOK'
    BY <1>1 DEF Created, RunnerTypeOK, Boxes, books, flags, wires, daemon
  <2>2. Slots'
    BY <1>1 DEF Created, RunnerTypeOK, Slots, Inside, books, wires
  <2>3. Starts' /\ Known' /\ Barring'
    BY <1>1 DEF Created, RunnerTypeOK, Slots, Starts, Known, Barring, Inside, Boxes, books, wires,
                daemon
  <2> QED BY <2>1, <2>2, <2>3
<1>2. CASE CreateFails(i)
  <2>1. RunnerTypeOK'
    BY <1>2 DEF CreateFails, RunnerTypeOK, Boxes, books, flags, wires
  <2>2. Slots' /\ Starts' /\ Known' /\ Barring'
    BY <1>2 DEF CreateFails, RunnerTypeOK, Slots, Starts, Known, Barring, Inside, Boxes, books,
                wires
  <2> QED BY <2>1, <2>2
<1>3. CASE StartEnds(i)
  <2>1. RunnerTypeOK'
    BY <1>3 DEF StartEnds, RunnerTypeOK, Boxes, books, flags, wires, daemon
  <2>2. Slots' /\ Starts' /\ Known' /\ Barring'
    BY <1>3 DEF StartEnds, RunnerTypeOK, Slots, Starts, Known, Barring, Inside, Boxes, books,
                wires, daemon
  <2> QED BY <2>1, <2>2
<1> QED BY <1>1, <1>2, <1>3

\* The end of an execution, and the handler of a DELETE that removes it too.
LEMMA RemovalSteps ==
  ASSUME IInv, NEW i \in Ids, Cleaned(i) \/ CancelRemoves(i)
  PROVE  IInv'
<1> USE DEF IInv
<1>1. CASE Cleaned(i)
  <2>1. i \in active
    BY <1>1 DEF Cleaned, Slots, Inside
  <2>2. /\ completed' \in Seq(Ids) /\ Len(completed') <= Window /\ i \in Range(completed')
    BY <1>1, Remembers DEF Cleaned, RunnerTypeOK
  <2>3. free' \in 0 .. Concurrency /\ free' + Cardinality(active') = Concurrency
    BY <1>1, <2>1, SlotsCount, RunnerAssumption DEF Cleaned, RunnerTypeOK
  <2>4. PICK ok \in BOOLEAN : Removal(i, ok)
    BY <1>1 DEF Cleaned
  <2>5. /\ box' \in {box, [box EXCEPT ![i] = "none"]}
        /\ orphaned' = orphaned \cup {i} \/ (orphaned' = orphaned \ {i} /\ box'[i] = "none")
        /\ {ready, quarantined}' \subseteq BOOLEAN
    BY <2>4 DEF Removal, RunnerTypeOK, Boxes, flags
  <2>6. RunnerTypeOK'
    BY <1>1, <2>2, <2>3, <2>5 DEF Cleaned, RunnerTypeOK, Boxes, wires, daemon
  <2>7. Slots' /\ Starts' /\ Known'
    BY <1>1, <2>5 DEF Cleaned, RunnerTypeOK, Slots, Starts, Known, Inside, Boxes, wires, daemon
  <2>8. Barring'
    BY <1>1 DEF Cleaned, RunnerTypeOK, Slots, Barring, Inside, wires, daemon
  <2> QED BY <2>6, <2>7, <2>8
<1>2. CASE CancelRemoves(i)
  <2>1. PICK ok \in BOOLEAN : Removal(i, ok)
    BY <1>2 DEF CancelRemoves
  <2>2. /\ box' \in {box, [box EXCEPT ![i] = "none"]}
        /\ orphaned' = orphaned \cup {i} \/ (orphaned' = orphaned \ {i} /\ box'[i] = "none")
        /\ {ready, quarantined}' \subseteq BOOLEAN
    BY <2>1 DEF Removal, RunnerTypeOK, Boxes, flags
  <2>3. RunnerTypeOK'
    BY <1>2, <2>2 DEF CancelRemoves, RunnerTypeOK, Boxes, books, wires, daemon
  <2>4. Slots' /\ Starts' /\ Known' /\ Barring'
    BY <1>2, <2>2 DEF CancelRemoves, RunnerTypeOK, Slots, Starts, Known, Barring, Inside, Boxes,
                      books, wires, daemon
  <2> QED BY <2>3, <2>4
<1> QED BY <1>1, <1>2

\* What the bot's calls do.
LEMMA RequestSteps ==
  ASSUME IInv, NEW i \in Ids, Requests(i)
  PROVE  IInv'
<1> USE DEF IInv
<1>1. CASE GiveUp(i)
  BY <1>1 DEF GiveUp, RunnerTypeOK, Slots, Starts, Known, Barring, Inside, Boxes, flags, books,
              daemon
<1>2. CASE Execute(i) /\ Admits(i)
  <2>1. i \notin active /\ free - 1 \in 0 .. Concurrency
    BY <1>2, RunnerAssumption DEF Admits, RunnerTypeOK
  <2>2. free' \in 0 .. Concurrency /\ free' + Cardinality(active') = Concurrency
    BY <1>2, <2>1, SlotsCount, RunnerAssumption DEF Execute, RunnerTypeOK
  <2>3. RunnerTypeOK'
    BY <1>2, <2>2 DEF Execute, RunnerTypeOK, Boxes, flags, daemon
  <2>4. Slots' /\ Starts' /\ Known' /\ Barring'
    BY <1>2 DEF Execute, Admits, RunnerTypeOK, Slots, Starts, Known, Barring, Inside, flags, daemon
  <2> QED BY <2>3, <2>4
<1>3. CASE Execute(i) /\ ~Admits(i)
  BY <1>3 DEF Execute, RunnerTypeOK, Slots, Starts, Known, Barring, Inside, Boxes, flags, daemon
<1>4. CASE Cancel(i)
  <2>1. /\ completed' \in Seq(Ids) /\ Len(completed') <= Window /\ i \in Range(completed')
    BY <1>4, Remembers DEF Cancel, RunnerTypeOK
  <2>2. RunnerTypeOK'
    BY <1>4, <2>1 DEF Cancel, RunnerTypeOK, Boxes, flags, daemon
  <2>3. Slots' /\ Starts' /\ Known'
    BY <1>4 DEF Cancel, RunnerTypeOK, Slots, Starts, Known, Inside, Boxes, flags, daemon
  <2>4. Barring'
    BY <1>4, <2>1 DEF Cancel, RunnerTypeOK, Slots, Barring, Inside, flags, daemon
  <2> QED BY <2>2, <2>3, <2>4
<1> QED BY <1>1, <1>2, <1>3, <1>4 DEF Requests

\* The states the maintenance task can be moved to.
LEMMA SweeperMoves ==
  ASSUME RunnerTypeOK, NEW a \in Waits, NEW w \in BOOLEAN
  PROVE  /\ [sweeper EXCEPT !.at = a] \in
              [at : Waits, todo : SUBSET Boxes, failed : BOOLEAN, startup : BOOLEAN]
         /\ [sweeper EXCEPT !.at = a, !.todo = {}]
              \in [at : Waits, todo : SUBSET Boxes, failed : BOOLEAN, startup : BOOLEAN]
         /\ [sweeper EXCEPT !.at = a, !.todo = {b \in Boxes : box[b] # "none"}]
              \in [at : Waits, todo : SUBSET Boxes, failed : BOOLEAN, startup : BOOLEAN]
         /\ [at |-> "orphans", todo |-> orphaned, failed |-> FALSE, startup |-> w]
              \in [at : Waits, todo : SUBSET Boxes, failed : BOOLEAN, startup : BOOLEAN]
<1>1. /\ sweeper \in [at : Waits, todo : SUBSET Boxes, failed : BOOLEAN, startup : BOOLEAN]
      /\ orphaned \subseteq Boxes
  BY DEF RunnerTypeOK, Boxes
<1>2. "orphans" \in Waits /\ FALSE \in BOOLEAN
  BY DEF Waits
<1>3. [at |-> "orphans", todo |-> orphaned, failed |-> FALSE, startup |-> w] \in
        [at : Waits, todo : SUBSET Boxes, failed : BOOLEAN, startup : BOOLEAN]
  BY <1>1, <1>2
<1> QED BY <1>1, <1>3

\* A container less to look at, whatever came of it.
LEMMA SweeperGoesOn ==
  ASSUME RunnerTypeOK, NEW b, NEW w \in BOOLEAN
  PROVE  /\ [sweeper EXCEPT !.todo = @ \ {b}] \in
              [at : Waits, todo : SUBSET Boxes, failed : BOOLEAN, startup : BOOLEAN]
         /\ [sweeper EXCEPT !.todo = @ \ {b}, !.failed = w]
              \in [at : Waits, todo : SUBSET Boxes, failed : BOOLEAN, startup : BOOLEAN]
<1>1. sweeper \in [at : Waits, todo : SUBSET Boxes, failed : BOOLEAN, startup : BOOLEAN]
  BY DEF RunnerTypeOK
<1>2. sweeper.todo \ {b} \in SUBSET Boxes
  BY <1>1
<1> QED BY <1>1, <1>2

\* The maintenance task only ever removes containers, and forgets an orphan
\* only with its container.
LEMMA SweeperFrame ==
  ASSUME IInv, Maintenance
  PROVE  /\ SweeperOnly
         /\ {ready, quarantined}' \subseteq BOOLEAN
         /\ sweeper' \in [at : Waits, todo : SUBSET Boxes, failed : BOOLEAN, startup : BOOLEAN]
         /\ \/ box' = box
            \/ \E b \in Boxes : box' = [box EXCEPT ![b] = "none"]
         /\ orphaned' \subseteq Ids
         /\ \A i \in Ids : i \in orphaned => i \in orphaned' \/ box'[i] = "none"
<1> USE DEF IInv, RunnerTypeOK
<1>1. CASE \E i \in Ids : SweepOrphan(i)
  <2>1. PICK i \in Ids : SweepOrphan(i)
    BY <1>1
  <2>2. PICK ok \in BOOLEAN :
          Removal(i, ok) /\ sweeper' = [sweeper EXCEPT !.todo = @ \ {i}, !.failed = @ \/ ~ok]
    BY <2>1 DEF SweepOrphan
  <2>3. /\ box' \in {box, [box EXCEPT ![i] = "none"]}
        /\ orphaned' = orphaned \cup {i} \/ (orphaned' = orphaned \ {i} /\ box'[i] = "none")
        /\ {ready, quarantined}' \subseteq BOOLEAN
    BY <2>2 DEF Removal, Boxes, flags
  <2>4. sweeper' \in [at : Waits, todo : SUBSET Boxes, failed : BOOLEAN, startup : BOOLEAN]
    BY <2>2, SweeperGoesOn, (sweeper.failed \/ ~ok) \in BOOLEAN
  <2> QED BY <2>1, <2>3, <2>4 DEF SweepOrphan, Boxes
<1>2. CASE \E b \in Boxes : SweepEach(b)
  <2>1. PICK b \in Boxes : SweepEach(b)
    BY <1>2
  <2>2. /\ SweeperOnly /\ UNCHANGED <<quarantined, orphaned>>
        /\ ready' \in {ready, FALSE}
        /\ box' \in {box, [box EXCEPT ![b] = "none"]}
        /\ sweeper' \in {[sweeper EXCEPT !.todo = @ \ {b}],
                        [sweeper EXCEPT !.todo = @ \ {b}, !.failed = TRUE]}
    BY <2>1 DEF SweepEach
  <2>3. sweeper' \in [at : Waits, todo : SUBSET Boxes, failed : BOOLEAN, startup : BOOLEAN]
    BY <2>2, SweeperGoesOn
  <2> QED BY <2>2, <2>3
<1>3. CASE Probe \/ Wake \/ OrphansDone \/ SweepEnds \/ SweepList \/ MaintenanceRaises
  <2>1. SweeperOnly /\ UNCHANGED <<orphaned, box>>
    BY <1>3 DEF Probe, Wake, OrphansDone, SweepEnds, SweepList, MaintenanceRaises
  <2>2. {ready, quarantined}' \subseteq BOOLEAN
    BY <1>3 DEF Probe, Wake, OrphansDone, SweepEnds, SweepList, MaintenanceRaises, flags
  <2>3. /\ sweeper.at \in Waits /\ sweeper.todo \subseteq Boxes /\ orphaned \subseteq Boxes
        /\ {sweeper.failed, sweeper.startup} \subseteq BOOLEAN
    BY DEF Boxes
  <2>4. sweeper' \in [at : Waits, todo : SUBSET Boxes, failed : BOOLEAN, startup : BOOLEAN]
    <3>1. CASE Probe
      <4>1. ready' \in BOOLEAN /\ "sleep" \in Waits
        BY <2>2 DEF Waits
      <4>2. sweeper' = [sweeper EXCEPT !.at = "sleep"] \/ BeginSweep(ready')
        BY <3>1 DEF Probe, Move
      <4> QED BY <4>1, <4>2, SweeperMoves DEF BeginSweep
    <3>2. CASE Wake \/ OrphansDone
      BY <3>2, SweeperMoves DEF Wake, OrphansDone, Move, BeginSweep, Waits
    <3>3. CASE SweepEnds \/ SweepList
      <4>1. FALSE \in BOOLEAN /\ "probe" \in Waits /\ "each" \in Waits
        BY DEF Waits
      <4>2. \/ sweeper' = [sweeper EXCEPT !.at = "probe", !.todo = {}]
            \/ sweeper' = [sweeper EXCEPT !.at = "each", !.todo = {b \in Boxes : box[b] # "none"}]
            \/ BeginSweep(FALSE)
        BY <3>3 DEF SweepEnds, SweepList, Finish
      <4> QED BY <4>1, <4>2, SweeperMoves DEF BeginSweep
    <3>4. CASE MaintenanceRaises
      BY <3>4, <2>3 DEF MaintenanceRaises, Waits
    <3> QED BY <1>3, <3>1, <3>2, <3>3, <3>4
  <2> QED BY <2>1, <2>2, <2>3, <2>4
<1> QED BY <1>1, <1>2, <1>3 DEF Maintenance

LEMMA SweeperSteps ==
  ASSUME IInv, Maintenance
  PROVE  IInv'
<1> USE DEF IInv
<1>1. SweeperOnly
  BY SweeperFrame
<1>2. RunnerTypeOK'
  BY <1>1, SweeperFrame DEF SweeperOnly, RunnerTypeOK, Boxes, books, wires, daemon
<1>3. Slots' /\ Starts' /\ Barring'
  BY <1>1 DEF SweeperOnly, Slots, Starts, Barring, books, wires, daemon
<1>4. Known'
  BY <1>1, SweeperFrame DEF SweeperOnly, RunnerTypeOK, Known, Boxes, books
<1> QED BY <1>2, <1>3, <1>4

\* Docker, and the service that stops.
LEMMA EnvironmentSteps ==
  ASSUME IInv, Environment
  PROVE  IInv'
<1> USE DEF IInv
<1>1. CASE DockerFlips
  BY <1>1 DEF DockerFlips, DaemonOnly, RunnerTypeOK, Slots, Starts, Known, Barring, flags, books,
              wires
<1>2. CASE Shutdown
  BY <1>2 DEF Shutdown, RunnerTypeOK, Slots, Starts, Known, Barring, Waits, flags, books, wires,
              daemon
<1>3. CASE \E i \in Ids : Started(i)
  BY <1>3 DEF Started, DaemonOnly, RunnerTypeOK, Slots, Starts, Known, Barring, Boxes, flags,
              books, wires, daemon
<1>4. CASE \E i \in Ids : LateCreate(i)
  BY <1>4 DEF LateCreate, DaemonOnly, RunnerTypeOK, Slots, Starts, Known, Barring, Boxes, flags,
              books, wires
<1> QED BY <1>1, <1>2, <1>3, <1>4 DEF Environment

LEMMA Invariance == IInv /\ [Next]_vars => IInv'
<1> SUFFICES ASSUME IInv, [Next]_vars PROVE IInv'
  OBVIOUS
<1>1. CASE \E i \in Ids : Execution(i) \/ Requests(i)
  BY <1>1, ExecutionSteps, RemovalSteps, RequestSteps DEF Execution
<1>2. CASE Maintenance
  BY <1>2, SweeperSteps
<1>3. CASE Environment
  BY <1>3, EnvironmentSteps
<1>4. CASE UNCHANGED vars
  BY <1>4 DEF vars, IInv, RunnerTypeOK, Slots, Starts, Known, Barring
<1> QED BY <1>1, <1>2, <1>3, <1>4 DEF Next

-----------------------------------------------------------------------------
\* Every reachable state is well typed: in particular the semaphore of the
\* slots and the active executions always add up to settings.concurrency, and
\* the replay window never outgrows its limit (runner/service.py).
THEOREM RunnerTypeCorrect == Spec => []RunnerTypeOK
<1>1. IInv => RunnerTypeOK
  BY DEF IInv
<1>2. Spec => Init /\ [][Next]_vars
  BY DEF Spec
<1> QED BY <1>1, <1>2, Starting, Invariance, PTL

\* The books are sound, a container that runs is one of an execution under way or of an orphan the
\* sweeps still try to remove, and an execution that was deleted before its
\* start was sent never starts, however DELETE, POST, create, a late answer of
\* Docker and the sweep interleave.
THEOREM ExecutionsContained == Spec => []RunnerContained
<1>1. IInv => RunnerContained
  BY DEF IInv, Known, Barring, RunnerContained, Supervised, CancelledNeverStarts
<1>2. Spec => Init /\ [][Next]_vars
  BY DEF Spec
<1> QED BY <1>1, <1>2, Starting, Invariance, PTL

-----------------------------------------------------------------------------
(* Logins *)

\* The start that awaits the pool has the manager's lock, nobody is registered
\* meanwhile, and a flow that is registered is the current one.
Booked ==
  /\ \A f \in Flows : loginAt[f] = "pool" => lock = f
  /\ lock # NoFlow => registered = {}
  /\ registered \subseteq {current}

\* A flow has a client from its registration until it is forgotten, and one
\* that is forgotten or over is being disconnected.
Attended(f) ==
  /\ flow[f].stage = "new" =>
       ~ flow[f].client /\ f \notin registered /\ loginAt[f] \in {"none", "pool"}
  /\ loginAt[f] = "pool" => flow[f].stage = "new"
  /\ flow[f].client => f \in registered \cup leaving \/ loginAt[f] = "disconnect"
  /\ flow[f].client /\ flow[f].stage \in {"completed", "failed"} =>
       f \in leaving \/ loginAt[f] = "disconnect"

Logins == Login!LoginTypeOK /\ Booked /\ \A f \in Flows : Attended(f)

FlowState == [method : {"qr", "phone"}, stage : Login!Stages, client : BOOLEAN]

LEMMA LoginsInit == Login!Init => Logins
<1>. SUFFICES ASSUME Login!Init PROVE Logins
  OBVIOUS
<1>1. authorized \in BOOLEAN
  BY Zenon DEF Login!Init
<1>2. Login!LoginTypeOK
  BY <1>1 DEF Login!Init, Login!LoginTypeOK, Login!Awaits, Login!Stages
<1>. QED
  BY <1>2 DEF Logins, Booked, Attended, Login!Init

\* Where a flow goes to, the others stay.
LEMMA GotoEffect ==
  ASSUME loginAt \in [Flows -> Login!Awaits], waiting \subseteq Flows,
         NEW f \in Flows, NEW a \in Login!Awaits, Login!Goto(f, a)
  PROVE  /\ loginAt' \in [Flows -> Login!Awaits] /\ waiting' \subseteq Flows
         /\ loginAt'[f] = a
         /\ \A g \in Flows \ {f} : loginAt'[g] = loginAt[g]
BY DEF Login!Goto

LEMMA StageEffect ==
  ASSUME flow \in [Flows -> FlowState],
         NEW f \in Flows, NEW s \in Login!Stages, Login!Stage(f, s)
  PROVE  /\ flow' \in [Flows -> FlowState]
         /\ flow'[f].stage = s /\ flow'[f].client = flow[f].client
         /\ \A g \in Flows \ {f} : flow'[g] = flow[g]
BY DEF Login!Stage, FlowState

\* The awaits of a request or a waiter that ends with no more than a new
\* stage: from an await of Telegram to another, or to the end.
Talks(f) ==
  \/ Login!SubmitPhone(f) \/ Login!SubmitCode(f) \/ Login!SubmitPassword(f)
  \/ Login!TelegramFails(f) \/ Login!Connected(f) \/ Login!Checked(f) \/ Login!QrCreated(f)
  \/ Login!QrTimeout(f) \/ Login!CodeSent(f) \/ Login!CodeExpired(f)
  \/ Login!PasswordNeeded(f) \/ Login!SignedIn(f) \/ Login!Pulled(f)

Talking == {"connect", "check", "qr", "wait", "send", "code", "password", "pull"}

\* What such a step does: it keeps the client, and a flow that is over goes on
\* to its disconnection.
TalksOn(f) ==
  /\ UNCHANGED <<registered, current, lock, leaving>>
  /\ flow'[f].client = flow[f].client
  /\ loginAt[f] \in Talking \/ (loginAt[f] = "none" /\ f \in registered)
  /\ loginAt'[f] # "pool"
  /\ \/ flow'[f].stage = flow[f].stage
     \/ flow'[f].stage \in {"qr_pending", "code_pending", "phone_required", "password_pending"}
     \/ flow'[f].stage \in {"completed", "failed"} /\ loginAt'[f] = "disconnect"
  /\ \A g \in Flows \ {f} : flow'[g] = flow[g] /\ loginAt'[g] = loginAt[g]

LEMMA TalkEffect ==
  ASSUME Login!LoginTypeOK, NEW f \in Flows, Talks(f)
  PROVE  Login!LoginTypeOK' /\ TalksOn(f)
<1>. USE DEF Login!LoginTypeOK, TalksOn
<1>0. flow \in [Flows -> FlowState] /\ loginAt \in [Flows -> Login!Awaits]
  BY DEF FlowState
<1>1. ASSUME UNCHANGED <<registered, current, lock, leaving, leased, enabled, logout>>,
             account' \in {"none", "active", "inactive"}, authorized' \in BOOLEAN,
             loginAt[f] \in Talking \/ (loginAt[f] = "none" /\ f \in registered),
             NEW s \in Login!Stages, NEW a \in Login!Awaits \ {"pool"},
             Login!Stage(f, s) \/ (UNCHANGED flow /\ s = flow[f].stage), Login!Goto(f, a),
             \/ s = flow[f].stage
             \/ s \in {"qr_pending", "code_pending", "phone_required", "password_pending"}
             \/ s \in {"completed", "failed"} /\ a = "disconnect"
      PROVE  Login!LoginTypeOK' /\ TalksOn(f)
  <2>1. /\ loginAt' \in [Flows -> Login!Awaits] /\ waiting' \subseteq Flows /\ loginAt'[f] = a
        /\ \A g \in Flows \ {f} : loginAt'[g] = loginAt[g]
    BY <1>0, <1>1, GotoEffect
  <2>2. /\ flow' \in [Flows -> FlowState] /\ flow'[f].stage = s
        /\ flow'[f].client = flow[f].client
        /\ \A g \in Flows \ {f} : flow'[g] = flow[g]
    BY <1>0, <1>1, StageEffect
  <2>3. {authorized, leased, enabled}' \subseteq BOOLEAN
    BY <1>1
  <2>. QED
    BY <1>1, <2>1, <2>2, <2>3 DEF FlowState
<1>. DEFINE Rest == UNCHANGED <<registered, current, lock, leaving, leased, enabled, logout>>
<1>2. flow[f].stage \in Login!Stages
  BY <1>0 DEF FlowState
<1>. USE DEF Login!Awaits, Login!Stages, Talking
<1>3. CASE Login!SubmitPhone(f) \/ Login!SubmitCode(f) \/ Login!SubmitPassword(f)
  <2>1. PICK a \in {"connect", "code", "password"} : Login!Goto(f, a)
    BY <1>3 DEF Login!SubmitPhone, Login!SubmitCode, Login!SubmitPassword, Login!Submit
  <2>2. /\ Rest /\ UNCHANGED <<account, authorized, flow>>
        /\ loginAt[f] = "none" /\ f \in registered
    BY <1>3 DEF Login!SubmitPhone, Login!SubmitCode, Login!SubmitPassword, Login!Submit,
       Login!FlowOnly, Login!others, Login!books, Login!rows
  <2>. QED
    BY <1>1, <1>2, <2>1, <2>2
<1>4. CASE Login!TelegramFails(f)
  <2>1. Rest /\ UNCHANGED <<account, authorized>> /\ loginAt[f] \in Talking
    BY <1>4 DEF Login!TelegramFails, Login!Raises, Login!FlowOnly, Login!others, Login!books,
       Login!rows
  <2>2. \/ Login!Stage(f, "failed") /\ Login!Goto(f, "disconnect")
        \/ UNCHANGED flow /\ (Login!Goto(f, "fail") \/ Login!Goto(f, "none"))
    BY <1>4 DEF Login!TelegramFails, Login!Raises
  <2>. QED
    BY <1>1, <1>2, <2>1, <2>2
<1>5. ASSUME Rest, authorized' \in BOOLEAN, loginAt[f] \in Talking, Login!Complete(f)
      PROVE  Login!LoginTypeOK' /\ TalksOn(f)
  <2>1. /\ account' = "active"
        /\ \/ Login!Goto(f, "pull") /\ UNCHANGED flow
           \/ Login!Goto(f, "disconnect") /\ Login!Stage(f, "completed")
    BY <1>5 DEF Login!Complete
  <2>. QED
    BY <1>1, <1>2, <1>5, <2>1
<1>6. CASE Login!Checked(f)
  <2>1. Rest /\ authorized' = authorized /\ loginAt[f] \in Talking
    BY <1>6 DEF Login!Checked, Login!FlowOnly, Login!others, Login!books
  <2>2. \/ Login!Complete(f)
        \/ UNCHANGED <<account, flow>> /\ (Login!Goto(f, "qr") \/ Login!Goto(f, "send"))
    BY <1>6 DEF Login!Checked
  <2>. QED
    BY <1>1, <1>2, <1>5, <2>1, <2>2
<1>7. CASE Login!SignedIn(f)
  <2>1. Rest /\ authorized' = TRUE /\ loginAt[f] \in Talking /\ Login!Complete(f)
    BY <1>7 DEF Login!SignedIn, Login!FlowOnly, Login!others, Login!books
  <2>. QED
    BY <1>5, <2>1
<1>8. CASE Login!Connected(f) \/ Login!QrTimeout(f)
  <2>1. Rest /\ UNCHANGED <<account, authorized, flow>> /\ loginAt[f] \in Talking
    BY <1>8 DEF Login!Connected, Login!QrTimeout, Login!FlowOnly, Login!others, Login!books,
       Login!rows
  <2>2. Login!Goto(f, "check") \/ Login!Goto(f, "qr") \/ Login!Goto(f, "none")
    BY <1>8 DEF Login!Connected, Login!QrTimeout
  <2>. QED
    BY <1>1, <1>2, <2>1, <2>2
<1>9. CASE \/ Login!QrCreated(f) \/ Login!CodeSent(f) \/ Login!CodeExpired(f)
           \/ Login!PasswordNeeded(f) \/ Login!Pulled(f)
  <2>1. Rest /\ UNCHANGED <<account, authorized>> /\ loginAt[f] \in Talking
    BY <1>9 DEF Login!QrCreated, Login!CodeSent, Login!CodeExpired, Login!PasswordNeeded,
       Login!Pulled, Login!FlowOnly, Login!others, Login!books, Login!rows
  <2>2. \/ /\ \E s \in {"qr_pending", "code_pending", "phone_required", "password_pending"} :
                 Login!Stage(f, s)
           /\ Login!Goto(f, "wait") \/ Login!Goto(f, "none")
        \/ Login!Stage(f, "completed") /\ Login!Goto(f, "disconnect")
    BY <1>9 DEF Login!QrCreated, Login!CodeSent, Login!CodeExpired, Login!PasswordNeeded,
       Login!Pulled
  <2>. QED
    BY <1>1, <2>1, <2>2
<1>. QED
  BY <1>3, <1>4, <1>6, <1>7, <1>8, <1>9 DEF Talks

\* Start, the forgetting and the disconnection of flow f, by the manager.
Manages(f) ==
  \/ \E m \in {"qr", "phone"} : Login!Start(f, m)
  \/ Login!StartRegisters(f) \/ Login!FailStart(f) \/ Login!Disconnected(f)
  \/ Login!Cancel(f) \/ Login!CancelEnds(f)

LEMMA ManageEffect ==
  ASSUME Logins, NEW f \in Flows, Manages(f)
  PROVE  Logins'
<1>0. /\ flow \in [Flows -> FlowState] /\ loginAt \in [Flows -> Login!Awaits]
      /\ waiting \subseteq Flows /\ Login!LoginTypeOK /\ Booked
      /\ \A g \in Flows : Attended(g)
  BY DEF Logins, FlowState, Login!LoginTypeOK
<1>. USE DEF Login!Awaits, Login!Stages
<1>1. CASE \E m \in {"qr", "phone"} : Login!Start(f, m)
  <2>1. PICK m \in {"qr", "phone"} : Login!Start(f, m)
    BY <1>1
  <2>2. /\ UNCHANGED <<account, authorized, leased, enabled, current, leaving, logout>>
        /\ lock = NoFlow /\ lock' = f /\ registered' = registered \ {current}
        /\ flow[f].stage = "new" /\ Login!Goto(f, "pool")
        /\ flow' = [flow EXCEPT ![f].method = m]
    BY <2>1 DEF Login!Start, Login!LockFree, Login!rows, Login!others
  <2>3. /\ loginAt' \in [Flows -> Login!Awaits] /\ waiting' \subseteq Flows
        /\ loginAt'[f] = "pool"
        /\ \A g \in Flows \ {f} : loginAt'[g] = loginAt[g]
    BY <1>0, <2>2, GotoEffect
  <2>4. /\ flow' \in [Flows -> FlowState] /\ \A g \in Flows \ {f} : flow'[g] = flow[g]
        /\ flow'[f].stage = flow[f].stage /\ flow'[f].client = flow[f].client
    BY <1>0, <2>2 DEF FlowState
  <2>5. Login!LoginTypeOK'
    BY <1>0, <2>2, <2>3, <2>4 DEF Login!LoginTypeOK, FlowState
  <2>6. Booked'
    BY <1>0, <2>2, <2>3, ServicesAssumption DEF Booked, Login!FlowAssumption
  <2>7. ASSUME NEW g \in Flows PROVE Attended(g)'
    <3>1. CASE g = f
      BY <1>0, <2>2, <2>3, <2>4, <3>1 DEF Attended
    <3>2. CASE g # f /\ g # current
      BY <1>0, <2>2, <2>3, <2>4, <3>2 DEF Attended
    <3>3. CASE g # f /\ g = current
      <4>1. flow[g].stage \in {"new", "completed", "failed"}
        BY <1>0, <2>1, <3>3, ServicesAssumption DEF Login!Start, Login!Supersedes,
           Login!ActiveStages, FlowState, Login!FlowAssumption
      <4>. QED
        BY <1>0, <2>2, <2>3, <2>4, <3>3, <4>1 DEF Attended
    <3>. QED
      BY <3>1, <3>2, <3>3
  <2>. QED
    BY <2>5, <2>6, <2>7 DEF Logins
<1>2. CASE Login!StartRegisters(f)
  <2>1. /\ UNCHANGED <<account, authorized, leased, enabled, leaving, logout>>
        /\ loginAt[f] = "pool" /\ lock = f /\ lock' = NoFlow /\ registered = {}
        /\ flow[f].stage = "new" /\ f # NoFlow
    BY <1>0, <1>2, ServicesAssumption DEF Login!StartRegisters, Login!rows, Login!others,
       Booked, Attended, Login!FlowAssumption
  <2>2. CASE UNCHANGED <<registered, current, flow>> /\ Login!Goto(f, "none")
    <3>1. /\ loginAt' \in [Flows -> Login!Awaits] /\ waiting' \subseteq Flows
          /\ loginAt'[f] = "none"
          /\ \A g \in Flows \ {f} : loginAt'[g] = loginAt[g]
      BY <1>0, <2>2, GotoEffect
    <3>2. Login!LoginTypeOK' /\ Booked'
      BY <1>0, <2>1, <2>2, <3>1 DEF Login!LoginTypeOK, Booked
    <3>3. ASSUME NEW g \in Flows PROVE Attended(g)'
      BY <1>0, <2>1, <2>2, <3>1 DEF Attended
    <3>. QED
      BY <3>2, <3>3 DEF Logins
  <2>3. ASSUME NEW a \in {"connect", "none"}, NEW s \in {"connecting", "phone_required"},
               registered' = {f}, current' = f, Login!Goto(f, a),
               flow' = [flow EXCEPT ![f].stage = s, ![f].client = TRUE]
        PROVE  Logins'
    <3>1. /\ loginAt' \in [Flows -> Login!Awaits] /\ waiting' \subseteq Flows
          /\ loginAt'[f] = a
          /\ \A g \in Flows \ {f} : loginAt'[g] = loginAt[g]
      BY <1>0, <2>3, GotoEffect
    <3>2. /\ flow' \in [Flows -> FlowState] /\ \A g \in Flows \ {f} : flow'[g] = flow[g]
          /\ flow'[f].stage = s
      BY <1>0, <2>3 DEF FlowState
    <3>3. Login!LoginTypeOK' /\ Booked'
      BY <1>0, <2>1, <2>3, <3>1, <3>2 DEF Login!LoginTypeOK, Booked, FlowState
    <3>4. ASSUME NEW g \in Flows PROVE Attended(g)'
      BY <1>0, <2>1, <2>3, <3>1, <3>2 DEF Attended
    <3>. QED
      BY <3>3, <3>4 DEF Logins
  <2>. QED
    BY <1>2, <2>1, <2>2, <2>3 DEF Login!StartRegisters
<1>3. ASSUME registered' = registered \ {f},
             current' = (IF current = f THEN NoFlow ELSE current),
             UNCHANGED <<account, authorized, leased, enabled, lock, flow, logout>>,
             leaving' = leaving \cup {f} \/ (leaving' = leaving /\ loginAt'[f] = "disconnect"),
             loginAt[f] # "pool", flow[f].stage # "new", waiting' \subseteq Flows,
             loginAt' \in [Flows -> Login!Awaits], loginAt'[f] # "pool",
             \A g \in Flows \ {f} : loginAt'[g] = loginAt[g]
      PROVE  Logins'
  <2>1. Login!LoginTypeOK'
    BY <1>0, <1>3 DEF Login!LoginTypeOK
  <2>2. Booked'
    BY <1>0, <1>3 DEF Booked
  <2>3. ASSUME NEW g \in Flows PROVE Attended(g)'
    BY <1>0, <1>3 DEF Attended
  <2>. QED
    BY <2>1, <2>2, <2>3 DEF Logins
<1>4. CASE Login!FailStart(f)
  <2>1. Login!Goto(f, "disconnect") /\ loginAt[f] = "fail"
    BY <1>4 DEF Login!FailStart
  <2>2. /\ loginAt' \in [Flows -> Login!Awaits] /\ waiting' \subseteq Flows
        /\ loginAt'[f] = "disconnect"
        /\ \A g \in Flows \ {f} : loginAt'[g] = loginAt[g]
    BY <1>0, <2>1, GotoEffect
  <2>. QED
    BY <1>0, <1>3, <1>4, <2>1, <2>2 DEF Login!FailStart, Login!rows, Login!others, Attended
<1>5. CASE Login!Cancel(f)
  <2>1. /\ loginAt' \in [Flows -> Login!Awaits] /\ waiting' \subseteq Flows
        /\ loginAt'[f] \in {loginAt[f], "none"}
        /\ \A g \in Flows \ {f} : loginAt'[g] = loginAt[g]
    <3>1. CASE Login!Goto(f, "none")
      BY <1>0, <3>1, GotoEffect
    <3>2. CASE UNCHANGED <<loginAt, waiting>>
      BY <1>0, <3>2
    <3>. QED
      BY <1>5, <3>1, <3>2 DEF Login!Cancel
  <2>2. flow[f].stage # "new" /\ loginAt[f] # "pool"
    BY <1>0, <1>5 DEF Login!Cancel, Attended
  <2>. QED
    BY <1>3, <1>5, <2>1, <2>2 DEF Login!Cancel, Login!rows, Login!others
<1>6. CASE Login!Disconnected(f) \/ Login!CancelEnds(f)
  <2>1. /\ UNCHANGED <<account, authorized, leased, enabled, registered, current, lock, logout>>
        /\ flow' = [flow EXCEPT ![f].client = FALSE] /\ leaving' \in {leaving, leaving \ {f}}
    BY <1>6 DEF Login!Disconnected, Login!CancelEnds, Login!FlowOnly, Login!rows, Login!others,
       Login!books
  <2>2. /\ loginAt' \in [Flows -> Login!Awaits] /\ waiting' \subseteq Flows
        /\ loginAt'[f] = loginAt[f] \/ (loginAt[f] = "disconnect" /\ loginAt'[f] = "none")
        /\ \A g \in Flows \ {f} : loginAt'[g] = loginAt[g]
    <3>1. CASE Login!Disconnected(f)
      BY <1>0, <3>1, GotoEffect DEF Login!Disconnected
    <3>2. CASE Login!CancelEnds(f)
      BY <1>0, <3>2 DEF Login!CancelEnds
    <3>. QED
      BY <1>6, <3>1, <3>2
  <2>3. /\ flow' \in [Flows -> FlowState] /\ \A g \in Flows \ {f} : flow'[g] = flow[g]
        /\ flow'[f].stage = flow[f].stage /\ ~ flow'[f].client
    BY <1>0, <2>1 DEF FlowState
  <2>4. Login!LoginTypeOK'
    BY <1>0, <2>1, <2>2, <2>3 DEF Login!LoginTypeOK, FlowState
  <2>5. Booked'
    BY <1>0, <2>1, <2>2 DEF Booked
  <2>6. ASSUME NEW g \in Flows PROVE Attended(g)'
    BY <1>0, <2>1, <2>2, <2>3 DEF Attended
  <2>. QED
    BY <2>4, <2>5, <2>6 DEF Logins
<1>. QED
  BY <1>1, <1>2, <1>4, <1>5, <1>6 DEF Manages

LEMMA LoginsStep == Logins /\ [Login!Next]_loginVars => Logins'
<1>. SUFFICES ASSUME Logins, [Login!Next]_loginVars PROVE Logins'
  OBVIOUS
<1>0. Login!LoginTypeOK /\ Booked /\ \A g \in Flows : Attended(g)
  BY DEF Logins
<1>1. ASSUME NEW f \in Flows, Talks(f) PROVE Logins'
  <2>1. Login!LoginTypeOK' /\ TalksOn(f)
    BY <1>0, <1>1, TalkEffect
  <2>2. Booked'
    BY <1>0, <2>1 DEF TalksOn, Booked
  <2>3. ASSUME NEW g \in Flows PROVE Attended(g)'
    <3>1. CASE g = f
      BY <1>0, <2>1, <3>1 DEF TalksOn, Attended, Talking
    <3>2. CASE g # f
      BY <1>0, <2>1, <3>2 DEF TalksOn, Attended
    <3>. QED
      BY <3>1, <3>2
  <2>. QED
    BY <2>1, <2>2, <2>3 DEF Logins
<1>2. CASE \/ Login!Logout \/ Login!OtherUsers
           \/ UNCHANGED loginVars
  <2>1. UNCHANGED <<registered, current, lock, flow, loginAt, waiting, leaving>>
    BY <1>2 DEF Login!Logout, Login!LogoutBegins, Login!LogoutDrops, Login!LogoutTelegram,
       Login!LogoutEnds, Login!LogoutOnly, Login!OtherUsers, Login!books, loginVars
  <2>2. Login!LoginTypeOK'
    <3>1. /\ account' \in {account, "inactive"}
          /\ logout' \in {"idle", "dropping", "telegram", "disconnect"}
      BY <1>0, <1>2 DEF Login!Logout, Login!LogoutBegins, Login!LogoutDrops, Login!LogoutTelegram,
         Login!LogoutEnds, Login!OtherUsers, loginVars, Login!rows, Login!LoginTypeOK
    <3>2. {authorized', leased', enabled'} \subseteq BOOLEAN
      BY <1>0, <1>2 DEF Login!Logout, Login!LogoutBegins, Login!LogoutDrops, Login!LogoutTelegram,
         Login!LogoutEnds, Login!LogoutOnly, Login!OtherUsers, loginVars, Login!rows, Login!others,
         Login!LoginTypeOK
    <3>. QED
      BY <1>0, <2>1, <3>1, <3>2 DEF Login!LoginTypeOK
  <2>3. Booked' /\ \A g \in Flows : Attended(g)'
    BY <1>0, <2>1 DEF Booked, Attended
  <2>. QED
    BY <2>2, <2>3 DEF Logins
<1>. QED
  BY <1>1, <1>2, ManageEffect DEF Login!Next, Login!Step, Talks, Manages

LEMMA LoginsRelease == Logins => Login!NoForgottenFlow /\ Login!ClientReleased
BY DEF Logins, Booked, Attended, Login!NoForgottenFlow, Login!ClientReleased, Login!LoginTypeOK,
   Login!ActiveStages

-----------------------------------------------------------------------------
(* Chats *)

\* A request has a lease of its own or has passed it on to a download, and a
\* handler is registered while its probe waits for the reply only.
Borrows(u) ==
  /\ user[u] # "idle" => fetch[u] = "none"
  /\ fetch[u] # "none" => shot[u] # 0
  /\ u \in listening => user[u] = "listening"

Borrowers == Chats!ChatsTypeOK /\ Chats!LeasesBalanced /\ \A u \in Users : Borrows(u)

LEMMA SameCounts ==
  /\ \A S : Chats!Cardinality(S) = Cardinality(S)
  /\ IsFiniteSet(Users)
BY ServicesAssumption
DEF Chats!Cardinality, Cardinality, Chats!ChatAssumption, Chats!IsFiniteSet, IsFiniteSet

\* Leaving out one member or adding one counts for one.
LEMMA OneLess ==
  ASSUME IsFiniteSet(Users), NEW S \in SUBSET Users, NEW T \in SUBSET Users, NEW u \in Users
  PROVE  /\ Cardinality(S) \in Nat
         /\ u \in S /\ T = S \ {u} => Cardinality(T) = Cardinality(S) - 1
         /\ u \notin S /\ T = S \cup {u} => Cardinality(T) = Cardinality(S) + 1
<1>1. IsFiniteSet(S) /\ IsFiniteSet(T)
  BY FS_Subset
<1>. QED
  BY <1>1, FS_CardinalityType, FS_AddElement, FS_RemoveElement
\* A step of user u moves u only.
Only(u) ==
  /\ user' \in [Users -> Chats!At] /\ fetch' \in [Users -> Chats!Fetching]
  /\ shot' \in [Users -> Photos \cup {0}]
  /\ row' \in [known : BOOLEAN, current : BOOLEAN, photo : Photos \cup {0}]
  /\ files' \subseteq Photos
  /\ \A v \in Users \ {u} : user'[v] = user[v] /\ fetch'[v] = fetch[v] /\ shot'[v] = shot[v]
  /\ listening' \ {u} = listening \ {u}
  /\ UNCHANGED <<chatActive, photo, closing>>

\* What a step of u does to its lease: it takes one, passes it on, gives it
\* back, or keeps it.
Takes(u) ==
  /\ user[u] = "idle" /\ user'[u] # "idle" /\ fetch[u] = "none" /\ fetch'[u] = "none"
  /\ leases' = leases + 1 /\ listening' = listening
HandsOver(u) ==
  /\ user[u] = "dialogs" /\ user'[u] = "idle" /\ fetch'[u] # "none" /\ shot'[u] # 0
  /\ UNCHANGED <<leases, listening>>
GivesBack(u) ==
  /\ \/ user[u] = "release" /\ user'[u] = "idle" /\ fetch'[u] = fetch[u]
     \/ fetch[u] = "release" /\ fetch'[u] = "none" /\ user'[u] = user[u]
  /\ leases' = leases - 1 /\ UNCHANGED <<shot, listening>>
Keeps(u) ==
  /\ user'[u] # "idle" <=> user[u] # "idle"
  /\ fetch'[u] # "none" <=> fetch[u] # "none"
  /\ shot'[u] = shot[u] \/ fetch'[u] = "none"
  /\ u \in listening' => user'[u] = "listening"
  /\ leases' = leases

LEMMA BorrowerMoves ==
  ASSUME Borrowers, NEW u \in Users, Chats!Step(u)
  PROVE  Only(u) /\ (Takes(u) \/ HandsOver(u) \/ GivesBack(u) \/ Keeps(u))
<1>. USE DEF Borrowers, Chats!ChatsTypeOK, Chats!At, Chats!Fetching, Only, Borrows
<1>1. CASE Chats!Probe(u) \/ Chats!Pull(u)
  <2>1. PICK a \in {"sending", "dialogs"} : Chats!Acquire(u, a)
    BY <1>1 DEF Chats!Probe, Chats!Pull
  <2>. QED
    BY <2>1 DEF Takes, Chats!Acquire, Chats!Goto, Chats!cache, Chats!world
<1>2. CASE Chats!ProbeSent(u) \/ Chats!ProbeReplied(u) \/ Chats!ProbeEnds(u)
  BY <1>2 DEF Keeps, Chats!ProbeSent, Chats!ProbeReplied, Chats!ProbeEnds, Chats!ProbeOnly,
     Chats!Goto, Chats!cache, Chats!world
<1>3. CASE Chats!Snapshot(u) \/ Chats!PullFails(u)
  BY <1>3 DEF Keeps, Chats!Snapshot, Chats!PullFails, Chats!Goto, Chats!cache, Chats!world
<1>4. CASE \E seen \in BOOLEAN : Chats!PullEnds(u, seen)
  <2>1. PICK seen \in BOOLEAN : Chats!PullEnds(u, seen)
    BY <1>4
  <2>2. row' \in [known : BOOLEAN, current : BOOLEAN, photo : Photos \cup {0}]
    BY <2>1 DEF Chats!PullEnds, Chats!Upserted
  <2>3. CASE fetch' = [fetch EXCEPT ![u] = "scheduled"] /\ Chats!Goto(u, "idle")
    BY <2>1, <2>2, <2>3 DEF HandsOver, Chats!PullEnds, Chats!Goto, Chats!world
  <2>4. CASE UNCHANGED fetch /\ Chats!Goto(u, "release")
    BY <2>1, <2>2, <2>4 DEF Keeps, Chats!PullEnds, Chats!Goto, Chats!world
  <2>. QED
    BY <2>1, <2>3, <2>4 DEF Chats!PullEnds
<1>5. CASE Chats!Release(u)
  BY <1>5 DEF GivesBack, Chats!Release, Chats!Goto, Chats!cache, Chats!world
<1>6. CASE Chats!Lock(u) \/ Chats!Store(u) \/ Chats!NoFile(u)
  <2>1. fetch[u] \in {"scheduled", "locked"} /\ UNCHANGED <<leases, user, shot, listening, row>>
    BY <1>6 DEF Chats!Lock, Chats!Store, Chats!NoFile, Chats!FetchOnly
  <2>2. Chats!FetchGoto(u, "release") \/ Chats!FetchGoto(u, "locked")
    BY <1>6 DEF Chats!Lock, Chats!Store, Chats!NoFile
  <2>3. files' \subseteq Photos
    <3>1. CASE Chats!Store(u)
      BY <3>1 DEF Chats!Store
    <3>2. CASE Chats!Lock(u) \/ Chats!NoFile(u)
      BY <3>2 DEF Chats!Lock, Chats!NoFile
    <3>. QED
      BY <1>6, <3>1, <3>2
  <2>. QED
    BY <1>6, <2>1, <2>2, <2>3 DEF Keeps, Chats!Lock, Chats!Store, Chats!NoFile, Chats!FetchOnly,
       Chats!FetchGoto, Chats!world
<1>7. CASE Chats!FetchEnds(u)
  BY <1>7 DEF GivesBack, Chats!FetchEnds, Chats!FetchOnly, Chats!FetchGoto, Chats!world
<1>. QED
  BY <1>1, <1>2, <1>3, <1>4, <1>5, <1>6, <1>7 DEF Chats!Step

LEMMA BorrowersStep == Borrowers /\ [Chats!Next]_chatsVars => Borrowers'
<1>. SUFFICES ASSUME Borrowers, [Chats!Next]_chatsVars PROVE Borrowers'
  OBVIOUS
<1>. DEFINE H == Chats!Holders
            D == Chats!Downloads
<1>0. /\ Chats!ChatsTypeOK /\ leases \in Nat /\ closing \in BOOLEAN
      /\ H \subseteq Users /\ D \subseteq Users /\ IsFiniteSet(Users)
      /\ H' \subseteq Users /\ D' \subseteq Users
      /\ Cardinality(H) \in Nat /\ Cardinality(D) \in Nat
      /\ leases >= Cardinality(H) + Cardinality(D)
      /\ ~closing => leases = Cardinality(H) + Cardinality(D)
      /\ listening \subseteq Users /\ \A u \in Users : Borrows(u)
  <2>1. H \subseteq Users /\ D \subseteq Users /\ H' \subseteq Users /\ D' \subseteq Users
    BY DEF Chats!Holders, Chats!Downloads
  <2>2. Cardinality(H) \in Nat /\ Cardinality(D) \in Nat
    BY <2>1, SameCounts, OneLess, FS_Subset, FS_CardinalityType
  <2>. QED
    BY <2>1, <2>2, SameCounts DEF Borrowers, Chats!ChatsTypeOK, Chats!LeasesBalanced
<1>1. ASSUME Chats!ChatsTypeOK', \A u \in Users : Borrows(u)',
             leases' >= Cardinality(H') + Cardinality(D'),
             ~closing' => leases' = Cardinality(H') + Cardinality(D')
      PROVE  Borrowers'
  <2>1. (listening \subseteq Chats!Holders)'
    BY <1>1 DEF Borrows, Chats!Holders, Chats!ChatsTypeOK
  <2>. QED
    BY <1>1, <2>1, SameCounts DEF Borrowers, Chats!LeasesBalanced
<1>2. ASSUME NEW u \in Users, Chats!Step(u) PROVE Borrowers'
  <2>1. Only(u) /\ (Takes(u) \/ HandsOver(u) \/ GivesBack(u) \/ Keeps(u))
    BY <1>2, BorrowerMoves
  <2>2. \A v \in Users : Borrows(v)'
    BY <1>0, <2>1 DEF Borrows, Only, Takes, HandsOver, GivesBack, Keeps
  <2>3. listening' \subseteq Users
    BY <1>0, <2>1 DEF Only
  <2>4. \/ /\ u \notin H /\ H' = H \cup {u} /\ D' = D /\ leases' = leases + 1
        \/ /\ u \in H /\ H' = H \ {u} /\ u \notin D /\ D' = D \cup {u} /\ leases' = leases
        \/ /\ u \in H /\ H' = H \ {u} /\ D' = D /\ leases' = leases - 1
        \/ /\ u \in D /\ D' = D \ {u} /\ H' = H /\ leases' = leases - 1
        \/ H' = H /\ D' = D /\ leases' = leases
    <3>1. CASE Takes(u)
      BY <2>1, <3>1 DEF Takes, Only, Chats!Holders, Chats!Downloads
    <3>2. CASE HandsOver(u)
      BY <1>0, <2>1, <3>2 DEF HandsOver, Only, Borrows, Chats!Holders, Chats!Downloads
    <3>3. CASE GivesBack(u)
      BY <2>1, <3>3 DEF GivesBack, Only, Chats!Holders, Chats!Downloads
    <3>4. CASE Keeps(u)
      BY <2>1, <3>4 DEF Keeps, Only, Chats!Holders, Chats!Downloads
    <3>. QED
      BY <2>1, <3>1, <3>2, <3>3, <3>4
  <2>5. leases' - Cardinality(H') - Cardinality(D') = leases - Cardinality(H) - Cardinality(D)
    <3>. HIDE DEF H, D
    <3>1. CASE u \notin H /\ H' = H \cup {u} /\ D' = D /\ leases' = leases + 1
      BY <1>0, <3>1, OneLess
    <3>2. CASE u \in H /\ H' = H \ {u} /\ u \notin D /\ D' = D \cup {u} /\ leases' = leases
      BY <1>0, <3>2, OneLess
    <3>3. CASE u \in H /\ H' = H \ {u} /\ D' = D /\ leases' = leases - 1
      BY <1>0, <3>3, OneLess
    <3>4. CASE u \in D /\ D' = D \ {u} /\ H' = H /\ leases' = leases - 1
      BY <1>0, <3>4, OneLess
    <3>. QED
      BY <2>4, <3>1, <3>2, <3>3, <3>4
  <2>6. /\ Cardinality(H') \in Nat /\ Cardinality(D') \in Nat
        /\ leases' \in Int /\ closing' = closing
    <3>1. leases' \in Int /\ closing' = closing
      BY <1>0, <2>1, <2>4 DEF Only
    <3>. HIDE DEF H, D
    <3>. QED
      BY <1>0, <3>1, OneLess
  <2>7. /\ leases' >= Cardinality(H') + Cardinality(D')
        /\ ~closing' => leases' = Cardinality(H') + Cardinality(D')
        /\ leases' \in Nat
    <3>. HIDE DEF H, D
    <3>. QED
      BY <1>0, <2>5, <2>6
  <2>8. Chats!ChatsTypeOK'
    BY <1>0, <2>1, <2>3, <2>7 DEF Chats!ChatsTypeOK, Only
  <2>. QED
    BY <1>1, <2>2, <2>7, <2>8
<1>3. CASE Chats!Close
  <2>1. /\ H' = H /\ D' \subseteq D /\ leases' = leases /\ closing' = TRUE
    BY <1>0, <1>3 DEF Chats!Close, Chats!Holders, Chats!Downloads, Chats!ChatsTypeOK
  <2>2. Cardinality(D') <= Cardinality(D) /\ Cardinality(D') \in Nat
    <3>. HIDE DEF H, D
    <3>. QED
      BY <1>0, <2>1, FS_Subset, FS_CardinalityType
  <2>3. Chats!ChatsTypeOK' /\ \A u \in Users : Borrows(u)'
    BY <1>0, <1>3 DEF Chats!Close, Chats!ChatsTypeOK, Chats!Fetching, Chats!cache, Borrows
  <2>4. /\ leases' >= Cardinality(H') + Cardinality(D')
        /\ ~closing' => leases' = Cardinality(H') + Cardinality(D')
    <3>. HIDE DEF H, D
    <3>. QED
      BY <1>0, <2>1, <2>2
  <2>. QED
    BY <1>1, <2>3, <2>4
<1>4. CASE Chats!PhotoChanges \/ Chats!AccountFlips \/ UNCHANGED chatsVars
  <2>1. UNCHANGED <<leases, user, shot, listening, fetch, row, files, closing>>
    BY <1>4 DEF Chats!PhotoChanges, Chats!AccountFlips, Chats!cache, chatsVars
  <2>2. photo' \in Photos \cup {0} /\ chatActive' \in BOOLEAN
    BY <1>0, <1>4 DEF Chats!PhotoChanges, Chats!AccountFlips, chatsVars, Chats!ChatsTypeOK
  <2>3. Chats!ChatsTypeOK' /\ (\A u \in Users : Borrows(u)') /\ H' = H /\ D' = D
    BY <1>0, <2>1, <2>2 DEF Chats!ChatsTypeOK, Borrows, Chats!Holders, Chats!Downloads
  <2>. QED
    BY <1>0, <1>1, <2>1, <2>3
<1>. QED
  BY <1>2, <1>3, <1>4 DEF Chats!Next

LEMMA BorrowersInit == Chats!Init => Borrowers
<1>. SUFFICES ASSUME Chats!Init PROVE Borrowers
  OBVIOUS
<1>1. Chats!Holders = {} /\ Chats!Downloads = {} /\ leases = 0 /\ listening = {}
  BY DEF Chats!Init, Chats!Holders, Chats!Downloads
<1>2. Chats!LeasesBalanced
  BY <1>1, SameCounts, FS_EmptySet DEF Chats!LeasesBalanced
<1>3. Chats!ChatsTypeOK /\ \A u \in Users : Borrows(u)
  BY DEF Chats!Init, Chats!ChatsTypeOK, Chats!At, Chats!Fetching, Borrows
<1>. QED
  BY <1>2, <1>3 DEF Borrowers

-----------------------------------------------------------------------------
(* Waiting for an answer *)

Looked == {i.id : i \in looking}
Message == [text : Wait!Texts, bot : BOOLEAN]
Inspection(ids) == [id : ids, source : {"event", "history"}, stage : {"sender", "buttons"}]

\* Only messages of the chat are received, fetched and inspected.
Received ==
  /\ events \in Seq(0 .. Len(chat)) /\ history \in Seq(0 .. Len(chat))
  /\ beyond \subseteq 0 .. Len(chat)
  /\ looking \subseteq Inspection(0 .. Len(chat))
  /\ dropped \subseteq 0 .. Len(chat)

\* A sender is asked for, and can fail to be told, only when the target is not known.
Asked ==
  /\ \A i \in looking : i.stage = "sender" => askSender
  /\ dropped # {} => askSender

\* Once the history is fetched, an answer to an open wait is not lost: it is yet
\* to be inspected, or being inspected, or was beyond the history, or lost its sender.
Pursued ==
  /\ phase \in {"looking", "waiting"} /\ future = Wait!None =>
       Wait!Answers \subseteq beyond \cup Wait!Range(events) \cup Wait!Range(history)
                               \cup Looked \cup dropped
  /\ phase = "waiting" => history = <<>>
  /\ future.kind = "timeout" => phase = "returned" /\ Wait!NoReplyMissed

Pursuit == Wait!WaitTypeOK /\ Received /\ Asked /\ Pursued

LEMMA PursuitInit == Wait!Init => Pursuit
<1>. SUFFICES ASSUME Wait!Init PROVE Pursuit
  OBVIOUS
<1>1. /\ chat = <<>> /\ edited = "old" /\ editable \in BOOLEAN /\ askSender \in BOOLEAN
      /\ phase = "off" /\ events = <<>> /\ history = <<>> /\ beyond = {} /\ looking = {}
      /\ dropped = {} /\ future = [kind |-> "none", id |-> -1]
  BY DEF Wait!Init, Wait!None, Wait!Settled, Wait!Nobody
<1>2. Wait!WaitTypeOK
  BY <1>1, ServicesAssumption DEF Wait!WaitTypeOK, Wait!MessageIds, Wait!Nobody, Wait!WaitAssumption
<1>3. Received /\ Asked /\ Pursued
  BY <1>1 DEF Received, Asked, Pursued
<1>. QED
  BY <1>2, <1>3 DEF Pursuit

\* The types that hold through every step of an inspection.
LEMMA WaitTyped ==
  ASSUME Pursuit
  PROVE  /\ chat \in Seq(Message) /\ Len(chat) \in Nat /\ Len(chat) <= MaxMessage
         /\ MaxMessage \in Nat /\ 0 .. Len(chat) \subseteq Wait!MessageIds
         /\ edited \in Wait!Texts \cup {"old"}
BY ServicesAssumption DEF Pursuit, Wait!WaitTypeOK, Message, Wait!MessageIds, Wait!WaitAssumption

\* What an inspection of message n does: it may settle the wait, and the
\* inspections of others go on,
Inspects(n, others) ==
  /\ looking' \subseteq Inspection(0 .. Len(chat))
  /\ others \subseteq looking'
  /\ \A i \in looking' : i.stage = "sender" => askSender
  /\ \/ future' = future
     \/ future' # Wait!None /\ future'.kind \in {"received", "failed", "broken"} /\ future'.id = n
        /\ future' \in [kind : {"none", "received", "failed", "timeout", "broken", "raised"},
                       id : Wait!MessageIds \cup {Wait!Nobody}]

\* and an answer that does not settle the wait is looked at further.
StaysPursued(n) == future' = Wait!None /\ n \in Wait!Answers => n \in Looked'

LEMMA JudgeEffect ==
  ASSUME Pursuit, NEW n \in 0 .. Len(chat), NEW source \in {"event", "history"},
         NEW others \in SUBSET looking, Wait!Judge(n, source, others)
  PROVE  Inspects(n, others) /\ StaysPursued(n)
<1>. USE DEF Wait!Settled, Wait!None, Wait!Nobody, Inspects, StaysPursued
<1>0. /\ n \in Wait!MessageIds /\ looking \subseteq Inspection(0 .. Len(chat))
      /\ \A i \in looking : i.stage = "sender" => askSender
  BY WaitTyped DEF Pursuit, Received, Asked
<1>1. CASE Wait!TextOf(n) = "failure"
  <2>. DEFINE i == [id |-> n, source |-> source, stage |-> "buttons"]
  <2>1. looking' = others \cup {i} /\ future' = future
    BY <1>1 DEF Wait!Judge
  <2>2. i \in Inspection(0 .. Len(chat)) /\ i.id = n /\ i.stage = "buttons"
    BY DEF Inspection
  <2>. QED
    BY <1>0, <2>1, <2>2 DEF Looked
<1>2. CASE Wait!TextOf(n) = "success"
  <2>1. /\ looking' = others
        /\ future' = IF ~Wait!Done THEN Wait!Settled("received", n)
                     ELSE IF source = "history" THEN Wait!Settled("broken", n) ELSE future
    BY <1>2 DEF Wait!Judge
  <2>. QED
    BY <1>0, <2>1, WaitTyped DEF Wait!Done, Wait!MessageIds
<1>3. CASE Wait!TextOf(n) \notin {"failure", "success"}
  <2>1. looking' = others /\ future' = future
    BY <1>3 DEF Wait!Judge
  <2>2. n \notin Wait!Answers
    BY <1>3 DEF Wait!Answers, Wait!TextOf, Wait!Decisive
  <2>. QED
    BY <1>0, <2>1, <2>2
<1>. QED
  BY <1>1, <1>2, <1>3

LEMMA BeginEffect ==
  ASSUME Pursuit, NEW n \in 0 .. Len(chat), NEW source \in {"event", "history"},
         Wait!Begin(n, source)
  PROVE  Inspects(n, looking) /\ StaysPursued(n)
<1>. USE DEF StaysPursued
<1>0. /\ looking \subseteq Inspection(0 .. Len(chat))
      /\ \A i \in looking : i.stage = "sender" => askSender
  BY DEF Pursuit, Received, Asked
<1>1. CASE Wait!Done
  BY <1>0, <1>1 DEF Wait!Begin, Wait!Done, Inspects
<1>2. CASE ~Wait!Relevant(n)
  <2>1. n \notin Wait!Answers
    BY <1>2 DEF Wait!Relevant, Wait!Answers, Wait!FromBot, Wait!Decisive
  <2>. QED
    BY <1>0, <1>2, <2>1 DEF Wait!Begin, Inspects
<1>3. CASE ~Wait!Done /\ Wait!Relevant(n) /\ askSender
  <2>. DEFINE i == [id |-> n, source |-> source, stage |-> "sender"]
  <2>1. looking' = looking \cup {i} /\ future' = future
    BY <1>3 DEF Wait!Begin
  <2>2. i \in Inspection(0 .. Len(chat)) /\ i.id = n
    BY DEF Inspection
  <2>. QED
    BY <1>0, <1>3, <2>1, <2>2 DEF Looked, Inspects
<1>4. CASE ~Wait!Done /\ Wait!Relevant(n) /\ ~askSender
  <2>1. Wait!Judge(n, source, looking)
    BY <1>4 DEF Wait!Begin
  <2>. QED
    BY <2>1, JudgeEffect
<1>. QED
  BY <1>1, <1>2, <1>3, <1>4

LEMMA SeqGrows == ASSUME NEW S, NEW T, S \subseteq T, NEW q \in Seq(S) PROVE q \in Seq(T)
OBVIOUS

LEMMA OneBefore ==
  ASSUME NEW S, NEW e \in S, NEW q \in Seq(S)
  PROVE  /\ <<e>> \o q \in Seq(S) /\ Len(<<e>> \o q) = Len(q) + 1 /\ (<<e>> \o q)[1] = e
         /\ \A i \in 1 .. Len(q) : (<<e>> \o q)[i + 1] = q[i]
<1>1. <<e>> \in Seq(S) /\ Len(<<e>>) = 1 /\ <<e>>[1] = e
  OBVIOUS
<1>. QED
  BY <1>1

LEMMA RangeEffect ==
  ASSUME NEW S, NEW q \in Seq(S)
  PROVE  /\ \A e \in S : Append(q, e) \in Seq(S) /\ Wait!Range(Append(q, e)) = Wait!Range(q) \cup {e}
         /\ q # <<>> => /\ Head(q) \in S /\ Tail(q) \in Seq(S)
                        /\ Wait!Range(q) = {Head(q)} \cup Wait!Range(Tail(q))
<1>1. ASSUME NEW e \in S
      PROVE  Append(q, e) \in Seq(S) /\ Wait!Range(Append(q, e)) = Wait!Range(q) \cup {e}
  <2>. DEFINE a == Append(q, e)
  <2>1. /\ a \in Seq(S) /\ Len(q) \in Nat /\ DOMAIN q = 1 .. Len(q)
        /\ DOMAIN a = 1 .. Len(q) + 1 /\ a[Len(q) + 1] = e
        /\ \A i \in 1 .. Len(q) : a[i] = q[i]
    OBVIOUS
  <2>. HIDE DEF a
  <2>2. ASSUME NEW i \in DOMAIN a PROVE a[i] \in Wait!Range(q) \cup {e}
    <3>1. i = Len(q) + 1 \/ i \in DOMAIN q
      BY <2>1
    <3>. QED
      BY <2>1, <3>1 DEF Wait!Range
  <2>3. ASSUME NEW i \in DOMAIN q PROVE q[i] \in Wait!Range(a)
    <3>1. i \in DOMAIN a /\ a[i] = q[i]
      BY <2>1
    <3>. QED
      BY <3>1 DEF Wait!Range
  <2>4. e \in Wait!Range(a)
    <3>1. Len(q) + 1 \in DOMAIN a
      BY <2>1
    <3>. QED
      BY <2>1, <3>1 DEF Wait!Range
  <2>. QED
    BY <2>1, <2>2, <2>3, <2>4 DEF Wait!Range, a
<1>2. ASSUME q # <<>>
      PROVE  /\ Head(q) \in S /\ Tail(q) \in Seq(S)
             /\ Wait!Range(q) = {Head(q)} \cup Wait!Range(Tail(q))
  <2>1. /\ Len(q) \in Nat \ {0} /\ Head(q) = q[1] /\ DOMAIN q = 1 .. Len(q)
        /\ DOMAIN Tail(q) = 1 .. Len(q) - 1
        /\ \A i \in 1 .. Len(q) - 1 : Tail(q)[i] = q[i + 1]
    BY <1>2
  <2>2. ASSUME NEW i \in DOMAIN q PROVE q[i] \in {Head(q)} \cup Wait!Range(Tail(q))
    <3>1. CASE i = 1
      BY <2>1, <3>1
    <3>2. CASE i # 1
      <4>1. i - 1 \in DOMAIN Tail(q) /\ Tail(q)[i - 1] = q[i]
        BY <2>1, <3>2
      <4>. QED
        BY <4>1 DEF Wait!Range
    <3>. QED
      BY <3>1, <3>2
  <2>3. ASSUME NEW i \in DOMAIN Tail(q) PROVE Tail(q)[i] \in Wait!Range(q)
    BY <2>1 DEF Wait!Range
  <2>4. Head(q) \in Wait!Range(q)
    BY <2>1 DEF Wait!Range
  <2>. QED
    BY <1>2, <2>2, <2>3, <2>4 DEF Wait!Range
<1>. QED
  BY <1>1, <1>2

\* Where an answer can be.
Places == beyond \cup Wait!Range(events) \cup Wait!Range(history) \cup Looked \cup dropped

\* An inspection leaves no answer without a place.
LEMMA InspectionStep ==
  ASSUME Pursuit, NEW n \in 0 .. Len(chat), NEW others \in SUBSET looking, Inspects(n, others),
         phase # "returned", UNCHANGED <<chat, edited, editable, askSender, phase, beyond>>,
         dropped' = dropped \/ (askSender /\ dropped' = dropped \cup {n}),
         events' \in Seq(0 .. Len(chat)), history' \in Seq(0 .. Len(chat)),
         history = <<>> => history' = <<>>,
         Places \subseteq beyond \cup Wait!Range(events') \cup Wait!Range(history') \cup {n}
                           \cup {o.id : o \in others} \cup dropped,
         n \in Looked' \cup dropped' \/ future' # Wait!None \/ n \notin Wait!Answers
  PROVE  Pursuit'
<1>1. Wait!WaitTypeOK'
  <2>1. looking' \subseteq Inspection(Wait!MessageIds)
    BY WaitTyped DEF Inspects, Inspection
  <2>2. future' \in [kind : {"none", "received", "failed", "timeout", "broken", "raised"},
                     id : Wait!MessageIds \cup {Wait!Nobody}]
    BY DEF Inspects, Pursuit, Wait!WaitTypeOK
  <2>3. events' \in Seq(Wait!MessageIds) /\ history' \in Seq(Wait!MessageIds)
    <3>1. 0 .. Len(chat) \subseteq Wait!MessageIds
      BY WaitTyped
    <3>. QED
      BY <3>1, SeqGrows
  <2>. QED
    BY <2>1, <2>2, <2>3, WaitTyped DEF Pursuit, Wait!WaitTypeOK, Inspection
<1>2. Received' /\ Asked'
  BY DEF Received, Asked, Pursuit, Inspects
<1>3. Wait!Answers' = Wait!Answers
  BY DEF Wait!Answers
<1>4. future' = Wait!None => future = Wait!None
  BY DEF Inspects
<1>5. {o.id : o \in others} \subseteq Looked'
  BY DEF Inspects, Looked
<1>6. future'.kind # "timeout"
  BY DEF Pursuit, Pursued, Inspects
<1>7. phase \in {"looking", "waiting"} /\ future' = Wait!None =>
        Wait!Answers \subseteq beyond \cup Wait!Range(events') \cup Wait!Range(history')
                                \cup Looked' \cup dropped'
  <2>. SUFFICES ASSUME phase \in {"looking", "waiting"}, future' = Wait!None,
                       NEW m \in Wait!Answers
                PROVE  m \in beyond \cup Wait!Range(events') \cup Wait!Range(history')
                                \cup Looked' \cup dropped'
    OBVIOUS
  <2>1. m \in Places
    BY <1>4 DEF Pursuit, Pursued, Places
  <2>. QED
    BY <1>5, <2>1
<1>8. Pursued'
  BY <1>3, <1>6, <1>7 DEF Pursued, Pursuit, Wait!Range
<1>. QED
  BY <1>1, <1>2, <1>8 DEF Pursuit

LEMMA DispatchStep ==
  ASSUME Pursuit,
         \/ Wait!Dispatch \/ Wait!Look \/ Wait!SenderKnown
         \/ Wait!SenderFailed /\ phase' # "returned"
  PROVE  Pursuit'
<1>0. /\ events \in Seq(0 .. Len(chat)) /\ history \in Seq(0 .. Len(chat))
      /\ looking \subseteq Inspection(0 .. Len(chat))
  BY DEF Pursuit, Received
<1>1. CASE Wait!Dispatch
  <2>. DEFINE n == Head(events)
  <2>1. /\ n \in 0 .. Len(chat) /\ Tail(events) \in Seq(0 .. Len(chat))
        /\ Wait!Range(events) = {n} \cup Wait!Range(Tail(events))
    BY <1>0, <1>1, RangeEffect DEF Wait!Dispatch
  <2>2. Inspects(n, looking) /\ StaysPursued(n)
    BY <1>1, <2>1, BeginEffect DEF Wait!Dispatch
  <2>3. /\ UNCHANGED <<chat, edited, editable, askSender, phase, history, beyond, dropped>>
        /\ events' = Tail(events) /\ phase # "returned"
    BY <1>1 DEF Wait!Dispatch, Wait!ends
  <2>4. Places \subseteq beyond \cup Wait!Range(events') \cup Wait!Range(history') \cup {n}
                         \cup {o.id : o \in looking} \cup dropped
    BY <2>1, <2>3 DEF Places, Looked
  <2>5. events' \in Seq(0 .. Len(chat)) /\ history' \in Seq(0 .. Len(chat))
    BY <1>0, <2>1, <2>3
  <2>6. history = <<>> => history' = <<>>
    BY <2>3
  <2>. HIDE DEF n
  <2>. QED
    BY <2>1, <2>2, <2>3, <2>4, <2>5, <2>6, InspectionStep DEF StaysPursued
<1>2. CASE Wait!Look
  <2>. DEFINE n == Head(history)
  <2>1. /\ n \in 0 .. Len(chat) /\ Tail(history) \in Seq(0 .. Len(chat))
        /\ Wait!Range(history) = {n} \cup Wait!Range(Tail(history))
    BY <1>0, <1>2, RangeEffect DEF Wait!Look
  <2>2. Inspects(n, looking) /\ StaysPursued(n)
    BY <1>2, <2>1, BeginEffect DEF Wait!Look
  <2>3. /\ UNCHANGED <<chat, edited, editable, askSender, phase, events, beyond, dropped>>
        /\ history' = Tail(history) /\ phase # "returned" /\ history # <<>>
    BY <1>2 DEF Wait!Look, Wait!ends
  <2>4. Places \subseteq beyond \cup Wait!Range(events') \cup Wait!Range(history') \cup {n}
                         \cup {o.id : o \in looking} \cup dropped
    BY <2>1, <2>3 DEF Places, Looked
  <2>5. events' \in Seq(0 .. Len(chat)) /\ history' \in Seq(0 .. Len(chat))
    BY <1>0, <2>1, <2>3
  <2>6. history = <<>> => history' = <<>>
    BY <2>3
  <2>. HIDE DEF n
  <2>. QED
    BY <2>1, <2>2, <2>3, <2>4, <2>5, <2>6, InspectionStep DEF StaysPursued
<1>3. CASE Wait!SenderKnown
  <2>1. PICK i \in looking :
             IF Wait!FromBot(i.id) THEN Wait!Judge(i.id, i.source, looking \ {i})
             ELSE looking' = looking \ {i} /\ UNCHANGED future
    BY <1>3 DEF Wait!SenderKnown
  <2>2. i.id \in 0 .. Len(chat) /\ i.source \in {"event", "history"}
    BY <1>0 DEF Inspection
  <2>3. Inspects(i.id, looking \ {i}) /\ StaysPursued(i.id)
    <3>1. CASE Wait!FromBot(i.id)
      BY <2>1, <2>2, <3>1, JudgeEffect
    <3>2. CASE ~Wait!FromBot(i.id)
      <4>1. i.id \notin Wait!Answers
        BY <3>2 DEF Wait!FromBot, Wait!Answers
      <4>. QED
        BY <1>0, <2>1, <3>2, <4>1 DEF Inspects, StaysPursued, Pursuit, Asked
    <3>. QED
      BY <3>1, <3>2
  <2>4. /\ UNCHANGED <<chat, edited, editable, askSender, phase, events, history, beyond, dropped>>
        /\ phase # "returned"
    BY <1>3 DEF Wait!SenderKnown, Wait!ends
  <2>5. Looked \subseteq {i.id} \cup {o.id : o \in looking \ {i}}
    BY DEF Looked
  <2>. QED
    BY <1>0, <2>2, <2>3, <2>4, <2>5, InspectionStep DEF Places, StaysPursued
<1>4. CASE Wait!SenderFailed /\ phase' # "returned"
  <2>1. PICK i \in looking : /\ i.stage = "sender" /\ looking' = looking \ {i}
                             /\ dropped' = dropped \cup {i.id} /\ UNCHANGED <<phase, future>>
    BY <1>4 DEF Wait!SenderFailed
  <2>2. /\ UNCHANGED <<chat, edited, editable, askSender, events, history, beyond>>
        /\ phase # "returned"
    BY <1>4 DEF Wait!SenderFailed, Wait!ends
  <2>3. i.id \in 0 .. Len(chat)
    BY <1>0 DEF Inspection
  <2>4. Inspects(i.id, looking \ {i}) /\ askSender
    BY <1>0, <2>1 DEF Inspects, Pursuit, Asked
  <2>5. Looked \subseteq {i.id} \cup {o.id : o \in looking \ {i}}
    BY DEF Looked
  <2>. QED
    BY <1>0, <2>1, <2>2, <2>3, <2>4, <2>5, InspectionStep DEF Places
<1>. QED
  BY <1>1, <1>2, <1>3, <1>4

\* The chat goes on.
LEMMA ChatStep ==
  ASSUME Pursuit, Wait!Post \/ Wait!Edit PROVE Pursuit'
<1>0. /\ events \in Seq(0 .. Len(chat)) /\ history \in Seq(0 .. Len(chat))
      /\ looking \subseteq Inspection(0 .. Len(chat)) /\ beyond \subseteq 0 .. Len(chat)
      /\ dropped \subseteq 0 .. Len(chat)
      /\ Wait!WaitTypeOK /\ Asked
  BY DEF Pursuit, Received
<1>1. ASSUME NEW n \in 0 .. Len(chat'), Len(chat) <= Len(chat'), Len(chat') <= MaxMessage,
             chat' \in Seq(Message), edited' \in Wait!Texts \cup {"old"},
             Wait!Heard(n), Wait!Answers' \subseteq Wait!Answers \cup {n},
             phase # "returned",
             UNCHANGED <<editable, askSender, phase, history, beyond, looking, dropped, future>>
      PROVE  Pursuit'
  <2>0. /\ Len(chat) \in Nat /\ Len(chat') \in Nat /\ MaxMessage \in Nat
        /\ 0 .. Len(chat) \subseteq 0 .. Len(chat')
        /\ 0 .. Len(chat') \subseteq Wait!MessageIds
    BY <1>1, WaitTyped DEF Wait!MessageIds
  <2>1. /\ events' \in Seq(0 .. Len(chat'))
        /\ Wait!Range(events) \subseteq Wait!Range(events')
        /\ phase \in {"looking", "waiting"} => n \in Wait!Range(events')
    <3>1. events \in Seq(0 .. Len(chat'))
      BY <1>0, <2>0, SeqGrows
    <3>2. CASE events' = Append(events, n)
      BY <1>1, <3>1, <3>2, RangeEffect
    <3>3. CASE events' = events /\ ~Wait!Listening
      BY <3>1, <3>3 DEF Wait!Listening
    <3>. QED
      BY <1>1, <3>2, <3>3 DEF Wait!Heard
  <2>2. Received' /\ Asked'
    BY <1>0, <1>1, <2>0, <2>1 DEF Received, Asked, Inspection
  <2>3. Wait!WaitTypeOK'
    <3>1. /\ events' \in Seq(Wait!MessageIds) /\ history' \in Seq(Wait!MessageIds)
          /\ chat' \in Seq([text : Wait!Texts, bot : BOOLEAN])
      BY <1>0, <1>1, <2>0, <2>1, SeqGrows DEF Message, Wait!WaitTypeOK
    <3>. QED
      BY <1>0, <1>1, <3>1 DEF Wait!WaitTypeOK
  <2>4. Pursued'
    BY <1>1, <2>1 DEF Pursuit, Pursued, Looked, Wait!Range
  <2>. QED
    BY <2>2, <2>3, <2>4 DEF Pursuit
<1>2. CASE Wait!Post
  <2>1. PICK t \in Wait!Texts, b \in BOOLEAN : chat' = Append(chat, [text |-> t, bot |-> b])
    BY <1>2 DEF Wait!Post
  <2>2. /\ chat' \in Seq(Message) /\ Len(chat') = Len(chat) + 1 /\ Len(chat') <= MaxMessage
        /\ \A i \in 1 .. Len(chat) : chat'[i] = chat[i]
    BY <1>2, <2>1, WaitTyped DEF Wait!Post, Message
  <2>3. Wait!Answers' \subseteq Wait!Answers \cup {Len(chat) + 1}
    BY <1>2, <2>2, WaitTyped DEF Wait!Post, Wait!Answers
  <2>. QED
    BY <1>1, <1>2, <2>2, <2>3, WaitTyped DEF Wait!Post
<1>3. CASE Wait!Edit
  <2>1. Wait!Answers' \subseteq Wait!Answers \cup {0}
    BY <1>3 DEF Wait!Edit, Wait!Answers
  <2>. QED
    BY <1>1, <1>3, <2>1, WaitTyped DEF Wait!Edit
<1>. QED
  BY <1>2, <1>3

\* The history and what is beyond it are all messages that may answer.
LEMMA FetchStep ==
  ASSUME Pursuit, Wait!Fetch PROVE Pursuit'
<1>. DEFINE own == [i \in DOMAIN chat |-> i]
            all == (IF editable THEN <<0>> ELSE <<>>) \o own
            cut == IF Len(all) > Limit THEN Len(all) - Limit ELSE 0
<1>0. /\ Wait!WaitTypeOK /\ Received /\ Asked /\ Len(chat) \in Nat /\ DOMAIN chat = 1 .. Len(chat)
      /\ editable \in BOOLEAN /\ Limit \in Nat /\ 0 .. Len(chat) \subseteq Wait!MessageIds
  BY WaitTyped, ServicesAssumption DEF Pursuit, Wait!WaitTypeOK, Wait!WaitAssumption
<1>1. /\ phase = "listening" /\ phase' = "looking"
      /\ history' = SubSeq(all, cut + 1, Len(all)) /\ beyond' = Wait!Range(SubSeq(all, 1, cut))
      /\ UNCHANGED <<chat, edited, editable, askSender, events, looking, dropped, future>>
  BY DEF Wait!Fetch, Wait!ends
<1>2. own \in Seq(0 .. Len(chat)) /\ Len(own) = Len(chat) /\ \A i \in 1 .. Len(chat) : own[i] = i
  BY <1>0
<1>3. /\ all \in Seq(0 .. Len(chat))
      /\ \A n \in Wait!Answers : \E i \in 1 .. Len(all) : all[i] = n
  <2>. HIDE DEF own
  <2>1. CASE editable
    <3>1. 0 \in 0 .. Len(chat) /\ all = <<0>> \o own
      BY <1>0, <2>1
    <3>2. /\ <<0>> \o own \in Seq(0 .. Len(chat)) /\ Len(<<0>> \o own) = Len(chat) + 1
          /\ (<<0>> \o own)[1] = 0
          /\ \A i \in 1 .. Len(chat) : (<<0>> \o own)[i + 1] = i
      BY ONLY <1>2, <3>1, OneBefore
    <3>3. ASSUME NEW n \in Wait!Answers PROVE n + 1 \in 1 .. Len(all) /\ all[n + 1] = n
      BY <1>0, <3>1, <3>2 DEF Wait!Answers
    <3>. QED
      BY <3>1, <3>2, <3>3
  <2>2. CASE ~editable
    <3>1. all = own
      BY <1>0, <1>2, <2>2
    <3>2. ASSUME NEW n \in Wait!Answers PROVE n \in 1 .. Len(all) /\ all[n] = n
      BY <1>0, <1>2, <2>2, <3>1 DEF Wait!Answers
    <3>. QED
      BY <1>2, <3>1, <3>2
  <2>. QED
    BY <1>0, <2>1, <2>2
<1>. HIDE DEF all
<1>4. cut \in 0 .. Len(all) /\ Len(all) \in Nat
  BY <1>0, <1>3
<1>. HIDE DEF cut
<1>5. /\ history' \in Seq(0 .. Len(chat)) /\ Len(history') = Len(all) - cut
      /\ \A i \in 1 .. Len(all) - cut : history'[i] = all[cut + i]
  BY <1>1, <1>3, <1>4
<1>6. /\ SubSeq(all, 1, cut) \in Seq(0 .. Len(chat)) /\ Len(SubSeq(all, 1, cut)) = cut
      /\ \A i \in 1 .. cut : SubSeq(all, 1, cut)[i] = all[i]
  BY <1>3, <1>4
<1>7. beyond' \subseteq 0 .. Len(chat)
  BY <1>1, <1>6 DEF Wait!Range
<1>8. ASSUME NEW n \in Wait!Answers PROVE n \in beyond' \cup Wait!Range(history')
  <2>1. PICK i \in 1 .. Len(all) : all[i] = n
    BY <1>3
  <2>2. CASE i <= cut
    <3>1. i \in DOMAIN SubSeq(all, 1, cut) /\ SubSeq(all, 1, cut)[i] = n
      BY <1>4, <1>6, <2>1, <2>2
    <3>. QED
      BY <1>1, <3>1 DEF Wait!Range
  <2>3. CASE i > cut
    <3>1. i - cut \in 1 .. Len(all) - cut /\ cut + (i - cut) = i
      BY <1>4, <2>3
    <3>2. i - cut \in DOMAIN history' /\ history'[i - cut] = n
      BY <1>4, <1>5, <2>1, <3>1
    <3>. QED
      BY <3>2 DEF Wait!Range
  <2>. QED
    BY <1>4, <2>2, <2>3
<1>9. Wait!WaitTypeOK'
  <2>1. history' \in Seq(Wait!MessageIds)
    BY <1>0, <1>5, SeqGrows
  <2>. QED
    BY <1>0, <1>1, <1>7, <2>1 DEF Wait!WaitTypeOK
<1>10. Received' /\ Asked'
  BY <1>0, <1>1, <1>5, <1>7 DEF Received, Asked
<1>11. Pursued'
  <2>1. Wait!Answers' = Wait!Answers
    BY <1>1 DEF Wait!Answers
  <2>. QED
    BY <1>1, <1>8, <2>1 DEF Pursued, Pursuit
<1>. QED
  BY <1>9, <1>10, <1>11 DEF Pursuit

LEMMA PursuitStep == Pursuit /\ [Wait!Next]_waitVars => Pursuit'
<1>. SUFFICES ASSUME Pursuit, [Wait!Next]_waitVars PROVE Pursuit'
  OBVIOUS
<1>0. Wait!WaitTypeOK /\ Received /\ Asked /\ Pursued
  BY DEF Pursuit
<1>1. CASE Wait!ButtonsKnown
  <2>1. PICK i \in looking :
          /\ looking' = looking \ {i}
          /\ future' = IF ~Wait!Done THEN Wait!Settled("failed", i.id)
                       ELSE IF i.source = "history" THEN Wait!Settled("broken", i.id) ELSE future
    BY <1>1 DEF Wait!ButtonsKnown
  <2>2. UNCHANGED <<chat, edited, editable, askSender, phase, events, history, beyond, dropped>>
    BY <1>1 DEF Wait!ButtonsKnown, Wait!ends
  <2>3. i.id \in Wait!MessageIds
    BY <1>0 DEF Wait!WaitTypeOK
  <2>4. /\ future' # Wait!None
        /\ future' = future \/ future'.kind # "timeout"
        /\ future' \in [kind : {"none", "received", "failed", "timeout", "broken", "raised"},
                        id : Wait!MessageIds \cup {Wait!Nobody}]
    BY <1>0, <2>1, <2>3 DEF Wait!Settled, Wait!None, Wait!Nobody, Wait!Done, Wait!WaitTypeOK
  <2>5. phase # "returned"
    BY <1>1 DEF Wait!ButtonsKnown
  <2>6. Wait!WaitTypeOK' /\ Received' /\ Asked'
    BY <1>0, <2>1, <2>2, <2>4 DEF Wait!WaitTypeOK, Received, Asked
  <2>7. Pursued'
    BY <1>0, <2>2, <2>4, <2>5 DEF Pursued
  <2>. QED
    BY <2>6, <2>7 DEF Pursuit
<1>2. CASE Wait!Timeout
  <2>1. /\ phase = "waiting" /\ future = Wait!None /\ phase' = "returned"
        /\ future' = [kind |-> "timeout", id |-> -1]
        /\ UNCHANGED <<chat, edited, editable, askSender, events, history, beyond, looking, dropped>>
    BY <1>2 DEF Wait!Timeout, Wait!Done, Wait!ends, Wait!Settled, Wait!Nobody
  <2>2. Wait!WaitTypeOK' /\ Received' /\ Asked'
    BY <1>0, <2>1 DEF Wait!WaitTypeOK, Received, Asked, Wait!Nobody
  <2>3. Wait!Answers' = Wait!Answers /\ Wait!Range(history) = {}
    BY <1>0, <2>1 DEF Wait!Answers, Pursued, Wait!Range
  <2>4. Pursued'
    BY <1>0, <2>1, <2>3 DEF Asked, Pursued, Wait!NoReplyMissed, Wait!Ahead, Looked
  <2>. QED
    BY <2>2, <2>4 DEF Pursuit
<1>3. CASE Wait!Register \/ Wait!LookedBack \/ Wait!Return \/ UNCHANGED waitVars
  <2>1. /\ UNCHANGED <<chat, edited, editable, askSender, events, history, beyond, looking, dropped, future>>
        /\ \/ phase' = phase
           \/ phase = "off" /\ phase' = "listening"
           \/ phase = "looking" /\ phase' = "waiting" /\ history = <<>>
           \/ phase' = "returned"
    BY <1>3 DEF Wait!Register, Wait!LookedBack, Wait!Return, Wait!ends, waitVars, Wait!Done
  <2>2. Wait!WaitTypeOK' /\ Received' /\ Asked'
    BY <1>0, <2>1 DEF Wait!WaitTypeOK, Received, Asked
  <2>3. Wait!Answers' = Wait!Answers
    BY <2>1 DEF Wait!Answers
  <2>4. Pursued'
    BY <1>0, <2>1, <2>3 DEF Pursued, Wait!NoReplyMissed, Wait!Ahead, Looked
  <2>. QED
    BY <2>2, <2>4 DEF Pursuit
<1>4. CASE (Wait!SenderFailed /\ phase' = "returned") \/ Wait!FetchFailed
  <2>1. /\ UNCHANGED <<chat, edited, editable, askSender, events, history, beyond, dropped>>
        /\ looking' \subseteq looking /\ phase' = "returned"
        /\ \E n \in Wait!MessageIds \cup {Wait!Nobody} : future' = [kind |-> "raised", id |-> n]
    BY <1>0, <1>4 DEF Wait!SenderFailed, Wait!FetchFailed, Wait!ends, Wait!Settled, Wait!WaitTypeOK
  <2>2. Wait!WaitTypeOK' /\ Received' /\ Asked'
    BY <1>0, <2>1 DEF Wait!WaitTypeOK, Received, Asked
  <2>3. Pursued'
    BY <1>0, <2>1 DEF Pursued, Wait!None, Wait!Settled
  <2>. QED
    BY <2>2, <2>3 DEF Pursuit
<1>. QED
  BY <1>1, <1>2, <1>3, <1>4, DispatchStep, ChatStep, FetchStep DEF Wait!Next

-----------------------------------------------------------------------------
(* Least numbers *)

\* A set of natural numbers has a least element.
LEMMA LeastNat ==
  ASSUME NEW T, T \subseteq Nat, T # {}
  PROVE  \E n \in T : \A m \in T : n <= m
<1>1. PICK n \in T : \A m \in T : ~ <<m, n>> \in OpToRel(<, Nat)
  BY WFMin, NatLessThanWellFounded
<1>2. \A m \in T : ~ (m < n)
  <2>. TAKE m \in T
  <2>1. <<m, n>> \in Nat \X Nat /\ <<m, n>>[1] = m /\ <<m, n>>[2] = n
    OBVIOUS
  <2>. QED BY <2>1, <1>1 DEF OpToRel
<1>. QED BY <1>2, SMT

-----------------------------------------------------------------------------
(* The times a schedule runs at *)

\* The quotient of an integer by a positive number.
LEMMA Division ==
  ASSUME NEW D \in Nat \ {0}, NEW x \in Int
  PROVE  x \div D \in Int /\ D * (x \div D) <= x /\ x < D * (x \div D) + D
OBVIOUS

LEMMA DivisionMonotone ==
  ASSUME NEW D \in Nat \ {0}, NEW x \in Int, NEW y \in Int, x <= y
  PROVE  x \div D <= y \div D
<1>. DEFINE a == x \div D
            b == y \div D
<1>1. a \in Int /\ b \in Int /\ D * a <= x /\ y < D * b + D
  BY Division
<1>. HIDE DEF a, b
<1>2. D * a < D * (b + 1)
  BY <1>1
<1>3. a < b + 1
  BY <1>1, <1>2
<1>. QED BY <1>1, <1>3 DEF a, b

\* The wall time of a day is one of the days of the calendar.
LEMMA WallTimes ==
  ASSUME NEW D \in Nat \ {0}, NEW L \in Nat, NEW d \in 0 .. L, NEW t \in 0 .. (D - 1)
  PROVE  /\ d * D + t \in 0 .. ((L + 1) * D - 1)
         /\ \A e \in Int, s \in 0 .. (D - 1) : d < e => d * D + t < e * D + s
<1>1. d * D \in Nat /\ (L + 1) * D \in Nat /\ (d + 1) * D = d * D + D
  OBVIOUS
<1>2. (d + 1) * D <= (L + 1) * D
  OBVIOUS
<1>3. ASSUME NEW e \in Int, NEW s \in 0 .. (D - 1), d < e PROVE d * D + t < e * D + s
  <2>1. (d + 1) * D <= e * D /\ e * D \in Int
    BY <1>3
  <2>. QED BY <1>1, <2>1
<1>. QED BY <1>1, <1>2, <1>3

LEMMA Calendar ==
  /\ DayLength \in Nat \ {0} /\ LastDay \in Nat
  /\ Schedule!Horizon \in Nat /\ Schedule!Horizon = (LastDay + 1) * DayLength
  /\ Schedule!Instants = 0 .. (Schedule!Horizon + DayLength)
<1>1. DayLength \in Nat \ {0} /\ LastDay \in Nat
  BY ServicesAssumption DEF Schedule!ScheduleAssumption
<1>2. (LastDay + 1) * DayLength \in Nat
  BY <1>1
<1>. QED BY <1>1, <1>2 DEF Schedule!Horizon, Schedule!Instants

LEMMA ZoneTyped ==
  ASSUME zone \in Zones
  PROVE  zone.at \in Nat /\ zone.shift \in -DayLength .. DayLength /\ zone.shift \in Int
<1>1. zone.at \in Nat /\ zone.shift \in -DayLength .. DayLength
  BY ServicesAssumption DEF Schedule!ScheduleAssumption
<1>. QED BY <1>1, Calendar

\* The clock and the date of an instant.
LEMMA ClockTyped ==
  ASSUME zone \in Zones, NEW u \in Int
  PROVE  Schedule!Local(u) \in Int /\ Schedule!DateOf(u) \in Int
<1>1. Schedule!Local(u) \in Int
  BY ZoneTyped DEF Schedule!Local
<1>. QED BY <1>1, Calendar, Division DEF Schedule!DateOf

\* An instant that is the first to show its wall time is later on the clock than every
\* earlier instant, and on no earlier date, also after the clock went back.
LEMMA FirstIsLater ==
  ASSUME zone \in Zones, NEW u \in Int, NEW v \in Int, v < u, Schedule!First(u)
  PROVE  Schedule!Local(v) < Schedule!Local(u) /\ Schedule!DateOf(v) <= Schedule!DateOf(u)
<1>0. zone.at \in Nat /\ zone.shift \in Int
  BY ZoneTyped
<1>1. ASSUME u < zone.at \/ v >= zone.at PROVE Schedule!Local(v) < Schedule!Local(u)
  BY <1>0, <1>1 DEF Schedule!Local
<1>2. ASSUME v < zone.at, u >= zone.at PROVE Schedule!Local(v) < Schedule!Local(u)
  <2>. DEFINE w == u + zone.shift
  <2>1. Schedule!Local(u) = w /\ Schedule!Local(v) = v /\ w \in Int
    BY <1>0, <1>2 DEF Schedule!Local
  <2>2. w <= v => FALSE
    <3>. SUFFICES ASSUME w <= v PROVE FALSE
      OBVIOUS
    <3>1. Schedule!Local(w) = w
      BY <1>0, <1>2, <2>1 DEF Schedule!Local
    <3>. HIDE DEF w
    <3>2. w \in Schedule!Shows(Schedule!Local(u))
      BY <2>1, <3>1 DEF Schedule!Shows
    <3>3. u <= w
      BY <3>2 DEF Schedule!First
    <3>. QED BY <2>1, <3>3
  <2>. HIDE DEF w
  <2>. QED BY <2>1, <2>2
<1>3. Schedule!Local(v) < Schedule!Local(u)
  BY <1>0, <1>1, <1>2
<1>4. Schedule!Local(u) \in Int /\ Schedule!Local(v) \in Int /\ DayLength \in Nat \ {0}
  BY ClockTyped, Calendar
<1>5. Schedule!Local(v) <= Schedule!Local(u)
  BY <1>3, <1>4
<1>6. Schedule!Local(v) \div DayLength <= Schedule!Local(u) \div DayLength
  BY <1>4, <1>5, DivisionMonotone
<1>. QED BY <1>3, <1>6 DEF Schedule!DateOf

LEMMA MinIs ==
  ASSUME NEW S, S \subseteq Int, NEW m \in S, \A y \in S : m <= y
  PROVE  Schedule!Min(S) = m
<1>1. \A x \in S : (\A y \in S : x =< y) => x = m
  OBVIOUS
<1>. QED BY <1>1 DEF Schedule!Min

\* The instant of a wall time is read with the offset after the change if that shows it,
\* and no other instant shows the same time before it.
LEMMA Localized ==
  ASSUME zone \in Zones, NEW n \in 0 .. (Schedule!Horizon - 1)
  PROVE  /\ Schedule!Localize(n) = IF n >= zone.at /\ n - zone.shift >= zone.at
                                   THEN n - zone.shift ELSE n
         /\ Schedule!Localize(n) \in Schedule!Instants
         /\ Schedule!First(Schedule!Localize(n))
<1>. DEFINE a == zone.at
            s == zone.shift
            hits == Schedule!Shows(n)
            w == IF n >= a /\ n - s >= a THEN n - s ELSE n
<1>0. /\ a \in Nat /\ s \in Int /\ -DayLength <= s /\ s <= DayLength /\ n \in Nat
      /\ DayLength \in Nat /\ Schedule!Horizon \in Nat /\ n < Schedule!Horizon
      /\ Schedule!Instants = 0 .. (Schedule!Horizon + DayLength)
  BY ZoneTyped, Calendar
<1>1. /\ \A u \in Int : Schedule!Local(u) = IF u >= a THEN u + s ELSE u
      /\ \A m \in Int, u \in Int :
           u \in Schedule!Shows(m) <=> u \in {m, m - s} /\ Schedule!Local(u) = m
  BY <1>0 DEF Schedule!Shows, Schedule!Local
<1>2. Schedule!Localize(n) = IF hits = {} THEN n ELSE Schedule!Min(hits)
  BY DEF Schedule!Localize
<1>3. hits \subseteq Int /\ \A m \in Int : Schedule!Shows(m) \subseteq Int
  BY <1>0 DEF Schedule!Shows
<1>. HIDE DEF a, s, hits
<1>4. w \in Int
  BY <1>0
<1>5. ASSUME NEW u \in hits PROVE u \in Int /\ w <= u
  BY <1>0, <1>1, <1>3 DEF hits
<1>6. hits # {} => w \in hits
  <2>. SUFFICES ASSUME NEW u \in hits PROVE w \in hits
    OBVIOUS
  <2>1. u \in Int /\ u \in {n, n - s} /\ (IF u >= a THEN u + s ELSE u) = n
    BY <1>0, <1>1, <1>3 DEF hits
  <2>2. w \in {n, n - s} /\ (IF w >= a THEN w + s ELSE w) = n
    BY <1>0, <2>1
  <2>. HIDE DEF w
  <2>3. w \in {n, n - s} /\ Schedule!Local(w) = n /\ n \in Int
    BY <1>0, <1>1, <1>4, <2>2
  <2>4. w \in Schedule!Shows(n)
    BY <1>1, <1>4, <2>3
  <2>. QED BY <2>4 DEF hits
<1>7. hits = {} => w = n
  <2>. SUFFICES ASSUME w # n PROVE w \in hits
    OBVIOUS
  <2>1. w \in {n, n - s} /\ (IF w >= a THEN w + s ELSE w) = n
    BY <1>0
  <2>. HIDE DEF w
  <2>2. w \in {n, n - s} /\ Schedule!Local(w) = n /\ n \in Int
    BY <1>0, <1>1, <1>4, <2>1
  <2>3. w \in Schedule!Shows(n)
    BY <1>1, <1>4, <2>2
  <2>. QED BY <2>3 DEF hits
<1>8. Schedule!Localize(n) = w
  <2>1. CASE hits = {}
    BY <1>2, <1>7, <2>1
  <2>2. CASE hits # {}
    <3>. HIDE DEF w
    <3>. QED BY <1>2, <1>3, <1>5, <1>6, <2>2, MinIs
  <2>. QED BY <2>1, <2>2
<1>9. w \in Schedule!Instants
  BY <1>0
<1>10. ASSUME NEW v \in Schedule!Shows(Schedule!Local(w)) PROVE w <= v
  <2>1. Schedule!Local(w) \in Int /\ Schedule!Local(w) = IF w >= a THEN w + s ELSE w
    BY <1>0, <1>1, <1>4
  <2>2. /\ v \in Int /\ v \in {Schedule!Local(w), Schedule!Local(w) - s}
        /\ (IF v >= a THEN v + s ELSE v) = Schedule!Local(w)
    BY <1>1, <1>3, <2>1
  <2>. QED BY <1>0, <2>1, <2>2
<1>. QED BY <1>8, <1>9, <1>10 DEF Schedule!First, w, a, s

\* A schedule, its zone and the draws of its days.
Drawn ==
  schedule \in Schedules /\ zone \in Zones /\ \A d \in Schedule!Days : plan[d] \in Schedule!Draws(d)

LEMMA ScheduleTyped ==
  ASSUME schedule \in Schedules
  PROVE  /\ schedule.type \in {"fixed", "random"}
         /\ {schedule.time, schedule.first, schedule.last} \subseteq 0 .. (DayLength - 1)
         /\ schedule.time \in 0 .. (DayLength - 1)
         /\ schedule.first \in Int /\ schedule.last \in Int
         /\ schedule.count \in Nat \ {0} /\ schedule.start \in Nat /\ schedule.end \in Nat
         /\ schedule.type = "fixed" => schedule.count = 1
BY ServicesAssumption DEF Schedule!ScheduleAssumption

\* A candidate of a day is its fixed time, or lies inside its window; no other instant shows
\* its wall time before it.
LEMMA CandidateKinds ==
  ASSUME Drawn, NEW d \in Schedule!Days, NEW u \in Schedule!Candidates(d)
  PROVE  /\ u \in Schedule!Instants /\ Schedule!First(u)
         /\ \/ /\ schedule.type = "fixed"
               /\ u = Schedule!Localize(d * DayLength + schedule.time)
            \/ schedule.type = "random" /\ Schedule!InWindow(u, d)
<1>0. /\ zone \in Zones /\ d \in 0 .. LastDay /\ DayLength \in Nat \ {0} /\ LastDay \in Nat
      /\ schedule.type \in {"fixed", "random"} /\ schedule.count \in Nat \ {0}
  BY Calendar, ScheduleTyped DEF Drawn, Schedule!Days
<1>1. ASSUME NEW t \in 0 .. (DayLength - 1)
      PROVE  /\ Schedule!Localize(d * DayLength + t) \in Schedule!Instants
             /\ Schedule!First(Schedule!Localize(d * DayLength + t))
  BY <1>0, WallTimes, Calendar, Localized
<1>2. CASE schedule.type = "fixed"
  <2>1. u = Schedule!Localize(d * DayLength + schedule.time)
    BY <1>2 DEF Schedule!Candidates
  <2>. QED BY <1>1, <1>2, <2>1, ScheduleTyped DEF Drawn
<1>3. CASE schedule.type = "random" /\ schedule.count = 1
  <2>1. PICK c \in plan[d] : /\ u = Schedule!Localize(d * DayLength + c)
                             /\ Schedule!InWindow(u, d)
    BY <1>0, <1>3 DEF Schedule!Candidates
  <2>2. c \in schedule.first .. schedule.last
    BY <1>3, <2>1 DEF Drawn, Schedule!Draws
  <2>3. c \in 0 .. (DayLength - 1)
    BY <1>0, <2>2, ScheduleTyped DEF Drawn
  <2>. QED BY <1>1, <1>3, <2>1, <2>3
<1>4. CASE schedule.type = "random" /\ schedule.count # 1
  <2>0. schedule.count > 1 /\ schedule.type # "fixed"
    BY <1>0, <1>4
  <2>1. u \in plan[d]
    BY <2>0 DEF Schedule!Candidates
  <2>2. u \in Schedule!Offsets(d)
    BY <1>4, <2>1 DEF Drawn, Schedule!Draws, Schedule!kSubset
  <2>. QED BY <1>4, <2>2 DEF Schedule!Offsets
<1>. QED BY <1>0, <1>2, <1>3, <1>4

\* The candidates of a later day are not earlier.
LEMMA CandidatesOrdered ==
  ASSUME Drawn, NEW d \in Schedule!Days, NEW e \in Schedule!Days, d < e,
         NEW u \in Schedule!Candidates(d), NEW v \in Schedule!Candidates(e)
  PROVE  u <= v
<1>0. /\ zone \in Zones /\ d \in 0 .. LastDay /\ e \in 0 .. LastDay
      /\ DayLength \in Nat \ {0} /\ LastDay \in Nat /\ u \in Int /\ v \in Int
      /\ zone.at \in Nat /\ zone.shift \in Int /\ zone.shift <= DayLength
  BY Calendar, CandidateKinds, ZoneTyped DEF Drawn, Schedule!Days
<1>1. CASE schedule.type = "random"
  <2>1. Schedule!DateOf(u) = d /\ Schedule!DateOf(v) = e /\ Schedule!First(u)
    BY <1>1, CandidateKinds DEF Schedule!InWindow
  <2>2. v < u => e <= d
    BY <1>0, <2>1, FirstIsLater
  <2>. QED BY <1>0, <2>2
<1>2. CASE schedule.type = "fixed"
  <2>. DEFINE n == d * DayLength + schedule.time
              m == e * DayLength + schedule.time
  <2>1. u = Schedule!Localize(n) /\ v = Schedule!Localize(m)
    BY <1>2, CandidateKinds
  <2>2. schedule.time \in 0 .. (DayLength - 1) /\ Schedule!Horizon = (LastDay + 1) * DayLength
    BY ScheduleTyped, Calendar DEF Drawn
  <2>3. n \in 0 .. (Schedule!Horizon - 1) /\ m \in 0 .. (Schedule!Horizon - 1)
    BY <1>0, <2>2, WallTimes
  <2>4. n + DayLength <= m
    <3>1. (d + 1) * DayLength <= e * DayLength
      BY <1>0
    <3>2. (d + 1) * DayLength = d * DayLength + DayLength /\ d * DayLength \in Nat /\ e * DayLength \in Nat
      BY <1>0
    <3>. HIDE DEF n, m
    <3>. QED BY <1>0, <2>2, <3>1, <3>2 DEF n, m
  <2>. HIDE DEF n, m
  <2>5. n \in Nat /\ m \in Nat
    BY <2>3, Calendar
  <2>. QED BY <1>0, <2>1, <2>3, <2>4, <2>5, Localized
<1>. QED BY <1>1, <1>2, CandidateKinds

\* What NextRunFor returns is the earliest point after the cutoff, but for times that were
\* carried into a later date which the clock shows at the cutoff.
LEMMA NextIsEarliest ==
  ASSUME Drawn, NEW c \in Schedule!Instants
  PROVE  LET r == Schedule!NextRunFor(c) IN
         /\ r \in Schedule!Instants \cup {Schedule!Never}
         /\ r # Schedule!Never => r > c /\ \E d \in Schedule!Due : r \in Schedule!Candidates(d)
         /\ \A d \in Schedule!Due : \A u \in Schedule!Candidates(d) :
              (u > c /\ (Schedule!DateOf(u) = d \/ Schedule!DateOf(c) <= d))
                => r # Schedule!Never /\ r <= u
<1>. DEFINE r == Schedule!NextRunFor(c)
            open == Schedule!Due
            days == {d \in Schedule!Days : /\ Schedule!FirstDay(c) <= d /\ d <= schedule.end
                                           /\ Schedule!Eligible(d) /\ Schedule!Coming(d, c) # {}}
            f == Schedule!DateOf(c)
<1>0. /\ c \in Nat /\ f \in Int /\ schedule.start \in Nat /\ schedule.end \in Nat
      /\ Schedule!Days = 0 .. LastDay /\ LastDay \in Nat /\ zone \in Zones
      /\ \A d \in open : /\ d \in Schedule!Days /\ schedule.start <= d /\ d <= schedule.end
                          /\ Schedule!Eligible(d)
  <2>1. c \in Nat /\ c \in Int
    BY Calendar
  <2>. QED BY <2>1, Calendar, ClockTyped, ScheduleTyped DEF Drawn, Schedule!Days, Schedule!Due
<1>1. Schedule!FirstDay(c) = IF schedule.start >= f THEN schedule.start ELSE f
  <2>. HIDE DEF f
  <2>1. \A x \in {schedule.start, f} : (\A y \in {schedule.start, f} : x >= y) =>
          x = IF schedule.start >= f THEN schedule.start ELSE f
    BY <1>0
  <2>2. \E x \in {schedule.start, f} : \A y \in {schedule.start, f} : x >= y
    BY <1>0
  <2>. QED BY <2>1, <2>2 DEF Schedule!FirstDay, Schedule!Max, f
<1>2. ASSUME NEW d \in open, NEW u \in Schedule!Candidates(d), u > c,
             Schedule!DateOf(u) = d \/ f <= d
      PROVE  d \in days /\ u \in Schedule!Coming(d, c)
  <2>1. u \in Int /\ Schedule!First(u) /\ d \in Int
    BY <1>0, CandidateKinds, Calendar
  <2>2. f <= d
    BY <1>0, <1>2, <2>1, FirstIsLater
  <2>. HIDE DEF f
  <2>3. Schedule!FirstDay(c) <= d
    BY <1>0, <1>1, <2>2
  <2>. QED BY <1>0, <1>2, <2>3 DEF Schedule!Coming
<1>3. r = IF days = {} THEN Schedule!Never
          ELSE Schedule!Min(Schedule!Coming(Schedule!Min(days), c))
  BY DEF Schedule!NextRunFor
<1>4. days \subseteq open /\ days \subseteq Nat
  <2>. HIDE DEF f
  <2>1. schedule.start <= Schedule!FirstDay(c) /\ Schedule!FirstDay(c) \in Int
    BY <1>0, <1>1
  <2>. HIDE DEF r
  <2>. QED BY <1>0, <2>1 DEF Schedule!Due
<1>5. CASE days = {}
  <2>. HIDE DEF days
  <2>. QED BY <1>2, <1>3, <1>5
<1>6. CASE days # {}
  <2>1. PICK d \in days : \A e \in days : d <= e
    BY <1>4, <1>6, LeastNat
  <2>2. Schedule!Min(days) = d
    BY <1>4, <2>1, MinIs
  <2>3. /\ Schedule!Coming(d, c) \subseteq Schedule!Candidates(d)
        /\ Schedule!Coming(d, c) \subseteq Nat /\ Schedule!Coming(d, c) # {}
    BY <2>1, CandidateKinds, Calendar DEF Schedule!Coming
  <2>4. PICK m \in Schedule!Coming(d, c) : \A u \in Schedule!Coming(d, c) : m <= u
    BY <2>3, LeastNat
  <2>5. r = m
    BY <1>3, <1>6, <2>2, <2>3, <2>4, MinIs
  <2>. HIDE DEF r, days
  <2>6. m \in Schedule!Candidates(d) /\ m \in Nat /\ m > c /\ d \in open
    BY <1>4, <2>1, <2>3, <2>4 DEF Schedule!Coming
  <2>7. m \in Schedule!Instants
    BY <1>0, <2>6, CandidateKinds
  <2>8. ASSUME NEW e \in open, NEW u \in Schedule!Candidates(e), u > c,
               Schedule!DateOf(u) = e \/ f <= e
        PROVE  m <= u
    <3>1. e \in days /\ u \in Schedule!Coming(e, c)
      BY <1>2, <2>8
    <3>2. d = e \/ d < e
      BY <1>4, <2>1, <3>1
    <3>3. CASE d = e
      BY <2>4, <3>1, <3>3
    <3>4. CASE d < e
      BY <1>0, <2>6, <3>4, CandidatesOrdered
    <3>. QED BY <3>2, <3>3, <3>4
  <2>9. r # Schedule!Never
    BY <2>5, <2>6 DEF Schedule!Never
  <2>. QED BY <2>5, <2>6, <2>7, <2>8, <2>9 DEF r
<1>. QED BY <1>5, <1>6

\* The inductive invariant: the armed occurrence is the one computed from the cutoff.
Planned == /\ Drawn /\ {now, since} \subseteq Schedule!Instants
           /\ armed = Schedule!NextRunFor(since)

LEMMA PlannedMeans ==
  ASSUME Planned
  PROVE  /\ Schedule!ScheduleTypeOK /\ Schedule!EarliestIsArmed /\ Schedule!RandomInsideWindow
<1>0. Drawn /\ since \in Schedule!Instants /\ now \in Schedule!Instants
  BY DEF Planned
<1>1. /\ armed \in Schedule!Instants \cup {Schedule!Never}
      /\ armed # Schedule!Never =>
           armed > since /\ \E d \in Schedule!Due : armed \in Schedule!Candidates(d)
      /\ \A d \in Schedule!Due : \A u \in Schedule!Candidates(d) :
           (u > since /\ (Schedule!DateOf(u) = d \/ Schedule!DateOf(since) <= d))
             => armed # Schedule!Never /\ armed <= u
  BY <1>0, NextIsEarliest DEF Planned
<1>2. Schedule!ScheduleTypeOK
  BY <1>0, <1>1 DEF Schedule!ScheduleTypeOK, Drawn
<1>3. Schedule!EarliestIsArmed
  BY <1>1 DEF Schedule!EarliestIsArmed
<1>4. Schedule!RandomInsideWindow
  <2>. SUFFICES ASSUME armed # Schedule!Never, schedule.type = "random"
                PROVE  /\ Schedule!InWindow(armed, Schedule!DateOf(armed))
                       /\ Schedule!Eligible(Schedule!DateOf(armed))
    BY DEF Schedule!RandomInsideWindow
  <2>1. PICK d \in Schedule!Days : armed \in Schedule!Candidates(d) /\ Schedule!Eligible(d)
    BY <1>1 DEF Schedule!Due
  <2>2. Schedule!InWindow(armed, d)
    BY <1>0, <2>1, CandidateKinds
  <2>3. Schedule!DateOf(armed) = d
    BY <2>2 DEF Schedule!InWindow
  <2>. QED BY <2>1, <2>2, <2>3
<1>. QED BY <1>2, <1>3, <1>4

LEMMA PlannedInit == Schedule!Init => Planned
<1>. SUFFICES ASSUME Schedule!Init PROVE Planned
  OBVIOUS
<1>1. ASSUME NEW d \in Schedule!Days PROVE plan[d] \in Schedule!Draws(d)
  BY DEF Schedule!Init
<1>2. 0 \in Schedule!Instants
  BY Calendar
<1>. QED BY <1>1, <1>2 DEF Schedule!Init, Planned, Drawn

LEMMA PlannedStep == Planned /\ [Schedule!Next]_scheduleVars => Planned'
<1>. SUFFICES ASSUME Planned, [Schedule!Next]_scheduleVars PROVE Planned'
  OBVIOUS
<1>0. /\ UNCHANGED <<schedule, zone, plan>>
  BY DEF Schedule!Next, Schedule!Tick, Schedule!Consume, Schedule!Skip, Schedule!Rearm,
         scheduleVars
<1>1. Drawn'
  BY <1>0 DEF Planned, Drawn, Schedule!Draws, Schedule!Offsets, Schedule!First, Schedule!Shows, Schedule!InWindow,
              Schedule!DateOf, Schedule!ClockOf, Schedule!Local
<1>2. Schedule!NextRunFor(since)' = Schedule!NextRunFor(since')
  BY <1>0 DEF Schedule!NextRunFor, Schedule!Coming, Schedule!Candidates, Schedule!FirstDay,
     Schedule!Eligible, Schedule!InWindow, Schedule!DateOf, Schedule!ClockOf, Schedule!Local,
     Schedule!Localize, Schedule!Shows, Schedule!Days, Schedule!Never
<1>3. now \in Schedule!Instants /\ since \in Schedule!Instants /\ Drawn
      /\ armed \in Schedule!Instants \cup {Schedule!Never}
  BY PlannedMeans DEF Planned, Schedule!ScheduleTypeOK
<1>4. /\ now' \in Schedule!Instants /\ since' \in Schedule!Instants
      /\ armed' = Schedule!NextRunFor(since')
  <2>1. CASE Schedule!Tick \/ UNCHANGED scheduleVars
    BY <1>3, <2>1, Calendar DEF Schedule!Tick, Planned, scheduleVars
  <2>2. CASE Schedule!Consume
    <3>1. since' \in {now, armed}
      <4>1. now \in Int /\ armed \in Int
        BY <1>3, Calendar DEF Schedule!Never
      <4>. QED BY <2>2, <4>1 DEF Schedule!Consume, Schedule!Max
    <3>. QED BY <1>3, <2>2, <3>1 DEF Schedule!Consume
  <2>3. CASE Schedule!Skip \/ Schedule!Rearm
    BY <1>3, <2>3 DEF Schedule!Skip, Schedule!Rearm
  <2>. QED BY <2>1, <2>2, <2>3 DEF Schedule!Next
<1>. QED BY <1>1, <1>2, <1>4 DEF Planned, Schedule!Instants, Schedule!Horizon

-----------------------------------------------------------------------------
(* The workflow of a run: its invariant *)

\* Two paths agree on their first n positions.
Agree(p, q, n) == \A i \in 1 .. n : p[i] = q[i]

\* The steps that come after a in the workflow: of a later place in one of the lists around a,
\* or inside a.
Ahead(a) ==
  {q \in DOMAIN workflow :
     \/ \E n \in 1 .. Len(a) : n % 2 = 1 /\ n <= Len(q) /\ Agree(q, a, n - 1) /\ q[n] > a[n]
     \/ Len(q) > Len(a) /\ Agree(q, a, Len(a))}

\* Of a condition's steps those of one branch at most.
OneBranch(S) ==
  \A p, q \in S : (Len(p) > 1 /\ Len(q) >= Len(p) /\ Agree(p, q, Len(p) - 2))
                    => q[Len(p) - 1] = p[Len(p) - 1]

Going == runPhase \in {"next", "running"}
Visited == ran \cup ({stepAt} \ {<<>>})

\* What is shown tells what ran.
Reported ==
  \A p \in Workflow!Paths :
    /\ shown[p] \in {"running", "success", "failed"} => p \in ran
    /\ shown[p] \in {"pending", "skipped"} => p \notin ran
    /\ shown[p] = "pending" => runPhase # "settled"
    /\ shown[p] = "running" => runPhase = "running" /\ p = stepAt
    /\ shown[p] = "failed" => ~Going /\ result # "success"

\* What ran lies before the step being executed.
Ordered ==
  /\ OneBranch(Visited)
  /\ Going => /\ stepAt \in DOMAIN workflow
              /\ Workflow!Enclosing(stepAt) \ {stepAt} \subseteq ran
              /\ stepAt \in ran <=> runPhase = "running"
              /\ ran \cap Ahead(stepAt) = {}
              /\ \A q \in DOMAIN workflow : Len(q) = 1 /\ q[1] < stepAt[1] => q \in ran
  /\ result = "success" => \A q \in DOMAIN workflow : Len(q) = 1 => q \in ran

\* A context has at least what validation knows.
Covers(c, env) ==
  /\ DOMAIN c = {"vars", "waits", "https", "waited", "fetched", "message"}
  /\ DOMAIN env = {"possible", "waited", "nodes", "kinds"}
  /\ "wait" \in env.kinds => c.waited
  /\ "http" \in env.kinds => c.fetched
  /\ \A x \in env.nodes : /\ x[2] = "wait" => x[1] \in c.waits
                          /\ x[2] = "http" => x[1] \in c.https
  /\ ~Workflow!HasLegacy =>
       /\ env.waited => c.waited
       /\ \A n \in DOMAIN c.vars : n \in DOMAIN env.possible /\ c.vars[n] = env.possible[n]

Validated ==
  /\ why # "source"
  /\ Going => Covers(ctx, Workflow!Knowledge(workflow)[<<stepAt, "before">>])

-----------------------------------------------------------------------------
(* The workflow of a run: positions *)

Positions == Seq(Nat \ {0})

LEMMA SamePath ==
  ASSUME NEW p \in Positions, NEW q \in Positions, Len(p) = Len(q), Agree(p, q, Len(p))
  PROVE  p = q
BY DEF Agree, Positions

LEMMA Beginning ==
  ASSUME NEW p \in Positions, NEW n \in 1 .. Len(p)
  PROVE  /\ SubSeq(p, 1, n) \in Positions /\ Len(SubSeq(p, 1, n)) = n
         /\ Agree(SubSeq(p, 1, n), p, n)
BY DEF Agree, Positions

LEMMA SameBeginning ==
  ASSUME NEW p \in Positions, NEW q \in Positions, NEW n \in Nat, n <= Len(p), n <= Len(q)
  PROVE  SubSeq(p, 1, n) = SubSeq(q, 1, n) <=> Agree(p, q, n)
<1>1. CASE n = 0
  BY <1>1 DEF Agree, Positions
<1>2. CASE n # 0
  <2>1. n \in 1 .. Len(p) /\ n \in 1 .. Len(q)
    BY <1>2 DEF Positions
  <2>. DEFINE a == SubSeq(p, 1, n)
              b == SubSeq(q, 1, n)
  <2>2. /\ a \in Positions /\ Len(a) = n /\ Agree(a, p, n)
        /\ b \in Positions /\ Len(b) = n /\ Agree(b, q, n)
    BY <2>1, Beginning
  <2>. HIDE DEF a, b
  <2>3. ASSUME a = b PROVE Agree(p, q, n)
    BY <2>2, <2>3 DEF Agree
  <2>4. ASSUME Agree(p, q, n) PROVE a = b
    <3>1. Agree(a, b, n)
      BY <2>2, <2>4 DEF Agree
    <3>. QED BY <2>2, <3>1, SamePath
  <2>. QED BY <2>3, <2>4 DEF a, b
<1>. QED BY <1>1, <1>2

\* The steps around a step.
LEMMA Around ==
  ASSUME NEW p \in Positions, NEW e \in Workflow!Enclosing(p)
  PROVE  /\ e \in Positions /\ Len(e) \in 1 .. Len(p) /\ Len(e) % 2 = 1 /\ Agree(e, p, Len(e))
         /\ Len(e) = Len(p) => e = p
<1>1. PICK n \in 1 .. Len(p) : n % 2 = 1 /\ e = SubSeq(p, 1, n)
  BY DEF Workflow!Enclosing
<1>2. e \in Positions /\ Len(e) = n /\ Agree(e, p, n)
  BY <1>1, Beginning
<1>. QED BY <1>1, <1>2, SamePath

LEMMA IsAround ==
  ASSUME NEW p \in Positions, NEW e \in Positions, Len(e) \in 1 .. Len(p), Len(e) % 2 = 1,
         Agree(e, p, Len(e))
  PROVE  e \in Workflow!Enclosing(p)
<1>. DEFINE a == SubSeq(p, 1, Len(e))
<1>1. a \in Positions /\ Len(a) = Len(e) /\ Agree(a, p, Len(e))
  BY Beginning
<1>2. a \in Workflow!Enclosing(p)
  BY DEF Workflow!Enclosing
<1>. HIDE DEF a
<1>3. Agree(a, e, Len(e))
  BY <1>1 DEF Agree
<1>. QED BY <1>1, <1>2, <1>3, SamePath

LEMMA NextIs ==
  ASSUME NEW e \in Positions, Len(e) >= 1
  PROVE  /\ Workflow!NextOf(e) \in Positions /\ Len(Workflow!NextOf(e)) = Len(e)
         /\ Agree(Workflow!NextOf(e), e, Len(e) - 1)
         /\ Workflow!NextOf(e)[Len(e)] = e[Len(e)] + 1
<1>1. e[Len(e)] + 1 \in Nat \ {0} /\ Len(e) \in 1 .. Len(e)
  BY DEF Positions
<1>. QED
  BY <1>1 DEF Positions, Agree, Workflow!NextOf, Workflow!Sibling, Workflow!Last

LEMMA ChildIs ==
  ASSUME NEW p \in Positions, NEW i \in Nat \ {0}
  PROVE  /\ Workflow!Child(p, i) \in Positions /\ Len(Workflow!Child(p, i)) = Len(p) + 2
         /\ Agree(Workflow!Child(p, i), p, Len(p))
         /\ Workflow!Child(p, i)[Len(p) + 1] = i /\ Workflow!Child(p, i)[Len(p) + 2] = 1
<1>1. <<i, 1>> \in Positions /\ Len(<<i, 1>>) = 2
  BY DEF Positions
<1>. QED BY <1>1 DEF Positions, Agree, Workflow!Child

\* The shape of the workflow.
Tree == Workflow!IsWorkflow(workflow)

LEMMA Placed ==
  ASSUME Tree, NEW p \in DOMAIN workflow
  PROVE  /\ p \in Positions /\ Len(p) \in Nat /\ Len(p) >= 1 /\ Len(p) % 2 = 1
         /\ p \in Workflow!Enclosing(p)
         /\ \A k \in 1 .. p[Len(p)] : Workflow!Sibling(p, k) \in DOMAIN workflow
         /\ \A c \in Workflow!Enclosing(p) :
              c # p => /\ c \in DOMAIN workflow /\ workflow[c].kind = "condition"
                       /\ p[Len(c) + 1] \in DOMAIN workflow[c].branches
<1>1. p \in Positions /\ Len(p) \in Nat /\ Len(p) % 2 = 1
  BY DEF Tree, Workflow!IsWorkflow, Positions
<1>2. Len(p) >= 1
  BY <1>1
<1>3. p \in Workflow!Enclosing(p)
  BY <1>1, <1>2, IsAround DEF Agree
<1>. QED BY <1>1, <1>2, <1>3 DEF Tree, Workflow!IsWorkflow, Workflow!Last

\* Moving on from a step goes to the next in a list around it, or into the condition it is.
Follows(a, b) ==
  \/ \E e \in Workflow!Enclosing(a) : b = Workflow!NextOf(e)
  \/ \E i \in Nat \ {0} : b = Workflow!Child(a, i)

LEMMA NextAgrees ==
  ASSUME NEW a \in Positions, NEW e \in Workflow!Enclosing(a)
  PROVE  LET b == Workflow!NextOf(e)
         IN /\ b \in Positions /\ Len(b) = Len(e) /\ Len(b) % 2 = 1 /\ Len(e) \in 1 .. Len(a)
            /\ \A i \in 1 .. Len(e) - 1 : b[i] = a[i] /\ b[i] = e[i]
            /\ b[Len(e)] = a[Len(e)] + 1
<1>1. /\ e \in Positions /\ Len(e) \in 1 .. Len(a) /\ Len(e) % 2 = 1 /\ Agree(e, a, Len(e))
  BY Around
<1>2. Len(e) >= 1 /\ Len(a) \in Nat /\ Len(e) \in Nat
  BY <1>1 DEF Positions
<1>. DEFINE b == Workflow!NextOf(e)
<1>3. b \in Positions /\ Len(b) = Len(e) /\ Agree(b, e, Len(e) - 1) /\ b[Len(e)] = e[Len(e)] + 1
  BY <1>1, <1>2, NextIs
<1>. HIDE DEF b
<1>4. \A i \in 1 .. Len(e) - 1 : b[i] = e[i] /\ e[i] = a[i]
  BY <1>1, <1>2, <1>3 DEF Agree
<1>5. e[Len(e)] = a[Len(e)]
  BY <1>1, <1>2 DEF Agree
<1>6. b \in Positions /\ Len(b) = Len(e) /\ Len(b) % 2 = 1 /\ Len(e) \in 1 .. Len(a)
            /\ (\A i \in 1 .. Len(e) - 1 : b[i] = a[i] /\ b[i] = e[i])
            /\ b[Len(e)] = a[Len(e)] + 1
  BY <1>1, <1>3, <1>4, <1>5
<1>. QED BY <1>6 DEF b

LEMMA NotAhead ==
  ASSUME Tree, NEW a \in DOMAIN workflow
  PROVE  a \notin Ahead(a)
<1>1. a \in Positions /\ Len(a) \in Nat
  BY Placed
<1>2. \A n \in 1 .. Len(a) : ~(a[n] > a[n])
  BY <1>1 DEF Positions
<1>. QED BY <1>1, <1>2 DEF Ahead

LEMMA AheadNext ==
  ASSUME Tree, NEW a \in DOMAIN workflow, NEW e \in Workflow!Enclosing(a),
         Workflow!NextOf(e) \in DOMAIN workflow
  PROVE  Workflow!NextOf(e) \in Ahead(a) /\ Ahead(Workflow!NextOf(e)) \subseteq Ahead(a)
<1>. DEFINE b == Workflow!NextOf(e)
<1>1. a \in Positions /\ Len(a) \in Nat /\ Len(a) >= 1
  BY Placed
<1>2. /\ b \in Positions /\ Len(b) = Len(e) /\ Len(b) % 2 = 1 /\ Len(e) \in 1 .. Len(a)
      /\ \A i \in 1 .. Len(e) - 1 : b[i] = a[i] /\ b[i] = e[i]
      /\ b[Len(e)] = a[Len(e)] + 1
  BY <1>1, NextAgrees
<1>3. b \in DOMAIN workflow
  OBVIOUS
<1>. HIDE DEF b
<1>4. \A i \in 1 .. Len(a) : a[i] \in Nat
  BY <1>1 DEF Positions
<1>5. b \in Ahead(a)
  <2>1. b[Len(e)] > a[Len(e)] /\ Agree(b, a, Len(e) - 1)
    BY <1>2, <1>4 DEF Agree
  <2>. QED BY <1>2, <1>3, <2>1 DEF Ahead
<1>6. ASSUME NEW q \in Ahead(b) PROVE q \in Ahead(a)
  <2>1. q \in DOMAIN workflow /\ q \in Positions /\ Len(q) \in Nat
    BY Placed DEF Ahead
  <2>2. \A i \in 1 .. Len(q) : q[i] \in Nat
    BY <2>1 DEF Positions
  <2>3. CASE \E n \in 1 .. Len(b) : n % 2 = 1 /\ n <= Len(q) /\ Agree(q, b, n - 1) /\ q[n] > b[n]
    <3>1. PICK n \in 1 .. Len(b) : n % 2 = 1 /\ n <= Len(q) /\ Agree(q, b, n - 1) /\ q[n] > b[n]
      BY <2>3
    <3>2. Agree(q, a, n - 1)
      <4>. SUFFICES ASSUME NEW i \in 1 .. n - 1 PROVE q[i] = a[i]
        BY DEF Agree
      <4>1. i \in 1 .. Len(e) - 1
        <5>1. n \in 1 .. Len(e) /\ Len(e) \in Nat
          BY <1>1, <1>2
        <5>. QED BY <5>1
      <4>2. q[i] = b[i]
        BY <3>1 DEF Agree
      <4>. QED BY <1>2, <4>1, <4>2
    <3>3. q[n] > a[n]
      <4>1. CASE n < Len(b)
        BY <1>2, <3>1, <4>1
      <4>2. CASE n = Len(b)
        <5>1. q[n] > a[n] + 1 /\ a[n] \in Nat /\ q[n] \in Nat
          BY <1>2, <1>4, <2>2, <3>1, <4>2
        <5>. QED BY <5>1
      <4>. QED BY <1>2, <3>1, <4>1, <4>2
    <3>4. n \in 1 .. Len(a)
      BY <1>1, <1>2, <3>1
    <3>. QED BY <2>1, <3>1, <3>2, <3>3, <3>4 DEF Ahead
  <2>4. CASE Len(q) > Len(b) /\ Agree(q, b, Len(b))
    <3>1. Agree(q, a, Len(e) - 1) /\ q[Len(e)] = a[Len(e)] + 1
      BY <1>2, <2>4 DEF Agree
    <3>2. q[Len(e)] > a[Len(e)] /\ Len(e) <= Len(q) /\ Len(e) % 2 = 1
      BY <1>2, <1>4, <2>1, <2>4, <3>1
    <3>. QED BY <1>2, <2>1, <3>1, <3>2 DEF Ahead
  <2>. QED BY <2>3, <2>4 DEF Ahead
<1>. QED BY <1>5, <1>6 DEF b

LEMMA AheadChild ==
  ASSUME Tree, NEW a \in DOMAIN workflow, NEW i \in Nat \ {0},
         Workflow!Child(a, i) \in DOMAIN workflow
  PROVE  Workflow!Child(a, i) \in Ahead(a) /\ Ahead(Workflow!Child(a, i)) \subseteq Ahead(a)
<1>. DEFINE b == Workflow!Child(a, i)
<1>1. a \in Positions /\ Len(a) \in Nat /\ Len(a) >= 1 /\ Len(a) % 2 = 1
  BY Placed
<1>2. b \in Positions /\ Len(b) = Len(a) + 2 /\ Agree(b, a, Len(a))
  BY <1>1, ChildIs
<1>3. b \in DOMAIN workflow
  OBVIOUS
<1>. HIDE DEF b
<1>4. b \in Ahead(a)
  BY <1>1, <1>2, <1>3 DEF Ahead
<1>5. ASSUME NEW q \in Ahead(b) PROVE q \in Ahead(a)
  <2>1. q \in DOMAIN workflow /\ q \in Positions /\ Len(q) \in Nat
    BY Placed DEF Ahead
  <2>2. CASE \E n \in 1 .. Len(b) : n % 2 = 1 /\ n <= Len(q) /\ Agree(q, b, n - 1) /\ q[n] > b[n]
    <3>1. PICK n \in 1 .. Len(b) : n % 2 = 1 /\ n <= Len(q) /\ Agree(q, b, n - 1) /\ q[n] > b[n]
      BY <2>2
    <3>2. CASE n <= Len(a)
      <4>1. Agree(q, a, n - 1) /\ b[n] = a[n]
        BY <1>2, <3>1, <3>2 DEF Agree
      <4>2. n \in 1 .. Len(a)
        BY <1>1, <3>1, <3>2
      <4>. QED BY <2>1, <3>1, <4>1, <4>2 DEF Ahead
    <3>3. CASE n > Len(a)
      <4>1. n = Len(a) + 2
        BY <1>1, <1>2, <3>1, <3>3
      <4>2. Agree(q, a, Len(a)) /\ Len(q) > Len(a)
        BY <1>1, <1>2, <2>1, <3>1, <4>1 DEF Agree
      <4>. QED BY <2>1, <4>2 DEF Ahead
    <3>. QED BY <1>1, <1>2, <3>1, <3>2, <3>3
  <2>3. CASE Len(q) > Len(b) /\ Agree(q, b, Len(b))
    <3>1. Agree(q, a, Len(a)) /\ Len(q) > Len(a)
      BY <1>1, <1>2, <2>1, <2>3 DEF Agree
    <3>. QED BY <2>1, <3>1 DEF Ahead
  <2>. QED BY <2>2, <2>3 DEF Ahead
<1>. QED BY <1>4, <1>5 DEF b

\* The steps S were executed, the last of them a.
Executed(S, a) ==
  /\ S \subseteq DOMAIN workflow /\ a \in S /\ Workflow!Enclosing(a) \subseteq S
  /\ S \cap Ahead(a) = {} /\ OneBranch(S)
  /\ \A q \in DOMAIN workflow : Len(q) = 1 /\ q[1] < a[1] => q \in S

LEMMA MoveNext ==
  ASSUME Tree, NEW S, NEW a, Executed(S, a), NEW e \in Workflow!Enclosing(a),
         Workflow!NextOf(e) \in DOMAIN workflow
  PROVE  LET b == Workflow!NextOf(e)
         IN /\ OneBranch(S \cup {b}) /\ Workflow!Enclosing(b) \ {b} \subseteq S
            /\ \A q \in DOMAIN workflow : Len(q) = 1 /\ q[1] < b[1] => q \in S
<1>. DEFINE b == Workflow!NextOf(e)
<1>1. a \in Positions /\ Len(a) \in Nat /\ Len(a) >= 1 /\ S \subseteq DOMAIN workflow /\ e \in S
      /\ OneBranch(S) /\ Workflow!Enclosing(a) \subseteq S
  BY Placed DEF Executed
<1>2. /\ b \in Positions /\ Len(b) = Len(e) /\ Len(b) % 2 = 1 /\ Len(e) \in 1 .. Len(a)
      /\ \A i \in 1 .. Len(e) - 1 : b[i] = a[i] /\ b[i] = e[i]
      /\ b[Len(e)] = a[Len(e)] + 1
  BY <1>1, NextAgrees
<1>3. \A q \in S : q \in Positions /\ Len(q) \in Nat /\ Len(q) >= 1
  BY <1>1, Placed
<1>4. Len(e) \in Nat /\ Len(e) >= 1
  BY <1>1, <1>3
<1>. HIDE DEF b
<1>5. ASSUME NEW q \in S, Len(b) > 1, Len(q) >= Len(b), Agree(b, q, Len(b) - 2)
      PROVE  q[Len(b) - 1] = b[Len(b) - 1]
  <2>1. Agree(e, q, Len(e) - 2)
    <3>. SUFFICES ASSUME NEW i \in 1 .. Len(e) - 2 PROVE e[i] = q[i]
      BY DEF Agree
    <3>1. b[i] = e[i]
      BY <1>2, <1>4
    <3>2. b[i] = q[i]
      BY <1>2, <1>5 DEF Agree
    <3>. QED BY <3>1, <3>2
  <2>2. q[Len(e) - 1] = e[Len(e) - 1]
    BY <1>1, <1>2, <1>5, <2>1 DEF OneBranch
  <2>3. b[Len(e) - 1] = e[Len(e) - 1]
    BY <1>2, <1>4, <1>5
  <2>. QED BY <1>2, <2>2, <2>3
<1>6. ASSUME NEW q \in S, Len(q) > 1, Len(b) >= Len(q), Agree(q, b, Len(q) - 2)
      PROVE  b[Len(q) - 1] = q[Len(q) - 1]
  <2>0. Len(q) \in Nat /\ Len(q) <= Len(e)
    BY <1>2, <1>3, <1>6
  <2>1. Agree(q, e, Len(q) - 2)
    <3>. SUFFICES ASSUME NEW i \in 1 .. Len(q) - 2 PROVE q[i] = e[i]
      BY DEF Agree
    <3>1. b[i] = e[i]
      BY <1>2, <1>4, <2>0
    <3>2. b[i] = q[i]
      BY <1>6 DEF Agree
    <3>. QED BY <3>1, <3>2
  <2>2. e[Len(q) - 1] = q[Len(q) - 1]
    BY <1>1, <1>2, <1>6, <2>0, <2>1 DEF OneBranch
  <2>3. b[Len(q) - 1] = e[Len(q) - 1]
    <3>1. Len(q) - 1 \in 1 .. Len(e) - 1
      BY <1>4, <1>6, <2>0
    <3>. QED BY <1>2, <3>1
  <2>. QED BY <2>2, <2>3
<1>7. OneBranch(S \cup {b})
  BY <1>1, <1>5, <1>6 DEF OneBranch
<1>8. ASSUME NEW f \in Workflow!Enclosing(b), f # b PROVE f \in S
  <2>1. /\ f \in Positions /\ Len(f) \in 1 .. Len(b) /\ Len(f) % 2 = 1 /\ Agree(f, b, Len(f))
        /\ Len(f) # Len(b)
    BY <1>2, <1>8, Around
  <2>2. Len(f) \in 1 .. Len(e) - 1 /\ Len(f) \in 1 .. Len(a)
    <3>1. Len(f) \in 1 .. Len(e) /\ Len(f) # Len(e)
      BY <1>2, <2>1
    <3>2. Len(e) \in 1 .. Len(a)
      BY <1>2
    <3>. QED BY <1>1, <1>4, <3>1, <3>2
  <2>3. Agree(f, a, Len(f))
    <3>. SUFFICES ASSUME NEW i \in 1 .. Len(f) PROVE f[i] = a[i]
      BY DEF Agree
    <3>1. i \in 1 .. Len(e) - 1
      BY <1>4, <2>2
    <3>. QED BY <1>2, <2>1, <3>1 DEF Agree
  <2>4. f \in Workflow!Enclosing(a)
    BY <1>1, <2>1, <2>2, <2>3, IsAround
  <2>. QED BY <1>1, <2>4
<1>9. ASSUME NEW q \in DOMAIN workflow, Len(q) = 1, q[1] < b[1] PROVE q \in S
  <2>1. \A p \in DOMAIN workflow : Len(p) = 1 /\ p[1] < a[1] => p \in S
    BY DEF Executed
  <2>2. q \in Positions /\ q[1] \in Nat
    BY <1>9, Placed DEF Positions
  <2>3. a[1] \in Nat
    BY <1>1 DEF Positions
  <2>4. CASE Len(e) = 1
    <3>1. q[1] < a[1] + 1
      BY <1>2, <1>9, <2>4
    <3>2. CASE q[1] = a[1]
      <4>1. e \in Positions /\ Agree(e, a, 1)
        BY <1>1, <2>4, Around
      <4>2. Agree(q, e, 1)
        BY <3>2, <4>1 DEF Agree
      <4>3. q = e
        BY <1>9, <2>2, <2>4, <4>1, <4>2, SamePath
      <4>. QED BY <1>1, <4>3
    <3>. QED BY <1>9, <2>1, <2>2, <2>3, <3>1, <3>2
  <2>5. CASE Len(e) # 1
    <3>1. b[1] = a[1]
      BY <1>2, <1>4, <2>5
    <3>. QED BY <1>9, <2>1, <3>1
  <2>. QED BY <2>4, <2>5
<1>. QED BY <1>7, <1>8, <1>9 DEF b

LEMMA MoveInto ==
  ASSUME Tree, NEW S, NEW a, Executed(S, a), NEW i \in Nat \ {0},
         Workflow!Child(a, i) \in DOMAIN workflow
  PROVE  LET b == Workflow!Child(a, i)
         IN /\ OneBranch(S \cup {b}) /\ Workflow!Enclosing(b) \ {b} \subseteq S
            /\ \A q \in DOMAIN workflow : Len(q) = 1 /\ q[1] < b[1] => q \in S
<1>. DEFINE b == Workflow!Child(a, i)
<1>1. a \in Positions /\ Len(a) \in Nat /\ Len(a) >= 1 /\ Len(a) % 2 = 1
      /\ S \subseteq DOMAIN workflow /\ a \in S
      /\ OneBranch(S) /\ Workflow!Enclosing(a) \subseteq S /\ S \cap Ahead(a) = {}
  BY Placed DEF Executed
<1>2. b \in Positions /\ Len(b) = Len(a) + 2 /\ Agree(b, a, Len(a))
  BY <1>1, ChildIs
<1>3. \A q \in S : q \in Positions /\ Len(q) \in Nat /\ Len(q) >= 1 /\ Len(q) % 2 = 1
  BY <1>1, Placed
<1>4. ASSUME NEW q \in S, Len(q) > Len(a) PROVE ~ Agree(q, a, Len(a))
  BY <1>1, <1>4 DEF Ahead
<1>. HIDE DEF b
<1>5. ASSUME NEW q \in S, Len(b) > 1, Len(q) >= Len(b), Agree(b, q, Len(b) - 2)
      PROVE  FALSE
  <2>1. Agree(q, a, Len(a))
    BY <1>1, <1>2, <1>5 DEF Agree
  <2>2. Len(q) > Len(a)
    BY <1>1, <1>2, <1>3, <1>5
  <2>. QED BY <1>4, <2>1, <2>2
<1>6. ASSUME NEW q \in S, Len(q) > 1, Len(b) >= Len(q), Agree(q, b, Len(q) - 2)
      PROVE  b[Len(q) - 1] = q[Len(q) - 1]
  <2>0. Len(q) \in Nat /\ Len(q) % 2 = 1 /\ Len(q) <= Len(a) + 2
    BY <1>2, <1>3, <1>6
  <2>1. CASE Len(q) <= Len(a)
    <3>1. Agree(q, a, Len(q) - 2)
      <4>. SUFFICES ASSUME NEW j \in 1 .. Len(q) - 2 PROVE q[j] = a[j]
        BY DEF Agree
      <4>1. j \in 1 .. Len(a)
        BY <1>1, <2>0, <2>1
      <4>. QED BY <1>2, <1>6, <4>1 DEF Agree
    <3>2. a[Len(q) - 1] = q[Len(q) - 1]
      BY <1>1, <1>6, <2>1, <3>1 DEF OneBranch
    <3>3. b[Len(q) - 1] = a[Len(q) - 1]
      BY <1>1, <1>2, <1>6, <2>0, <2>1 DEF Agree
    <3>. QED BY <3>2, <3>3
  <2>2. CASE Len(q) > Len(a)
    <3>1. Len(q) = Len(a) + 2
      BY <1>1, <2>0, <2>2
    <3>2. Agree(q, a, Len(a))
      BY <1>1, <1>2, <1>6, <3>1 DEF Agree
    <3>. QED BY <1>4, <2>2, <3>2
  <2>. QED BY <1>1, <2>0, <2>1, <2>2
<1>7. OneBranch(S \cup {b})
  BY <1>1, <1>5, <1>6 DEF OneBranch
<1>8. ASSUME NEW f \in Workflow!Enclosing(b), f # b PROVE f \in S
  <2>1. /\ f \in Positions /\ Len(f) \in 1 .. Len(b) /\ Len(f) % 2 = 1 /\ Agree(f, b, Len(f))
        /\ Len(f) # Len(b)
    BY <1>2, <1>8, Around
  <2>2. Len(f) \in 1 .. Len(a)
    BY <1>1, <1>2, <2>1
  <2>3. Agree(f, a, Len(f))
    BY <1>1, <1>2, <2>1, <2>2 DEF Agree
  <2>4. f \in Workflow!Enclosing(a)
    BY <1>1, <2>1, <2>2, <2>3, IsAround
  <2>. QED BY <1>1, <2>4
<1>9. b[1] = a[1]
  BY <1>1, <1>2 DEF Agree
<1>. QED BY <1>7, <1>8, <1>9 DEF b, Executed

LEMMA AfterIs ==
  ASSUME NEW a \in Positions
  PROVE  \/ /\ Workflow!After(a) = <<>>
            /\ \A e \in Workflow!Enclosing(a) : Workflow!NextOf(e) \notin DOMAIN shown
         \/ \E e \in Workflow!Enclosing(a) :
              /\ Workflow!After(a) = Workflow!NextOf(e) /\ Workflow!NextOf(e) \in DOMAIN shown
              /\ \A f \in Workflow!Enclosing(a) :
                   Workflow!NextOf(f) \in DOMAIN shown => Len(f) <= Len(e)
<1>. DEFINE more == {e \in Workflow!Enclosing(a) : Workflow!NextOf(e) \in DOMAIN shown}
<1>1. CASE more = {}
  BY <1>1 DEF Workflow!After, Workflow!Paths
<1>2. CASE more # {}
  <2>. DEFINE T == {Len(a) - Len(e) : e \in more}
  <2>1. \A e \in more : Len(e) \in 1 .. Len(a)
    BY Around
  <2>2. Len(a) \in Nat
    BY DEF Positions
  <2>3. T \subseteq Nat /\ T # {}
    BY <1>2, <2>1, <2>2
  <2>4. PICK n \in T : \A m \in T : n <= m
    BY <2>3, LeastNat
  <2>5. PICK e \in more : n = Len(a) - Len(e)
    BY <2>4
  <2>6. \A f \in more : Len(f) <= Len(e)
    <3>. TAKE f \in more
    <3>1. Len(a) - Len(e) <= Len(a) - Len(f)
      BY <2>4, <2>5
    <3>. QED BY <2>1, <2>2, <3>1
  <2>. DEFINE x == CHOOSE e1 \in more : \A f \in more : Len(f) <= Len(e1)
  <2>7. x \in more /\ \A f \in more : Len(f) <= Len(x)
    BY <2>6
  <2>8. Workflow!After(a) = Workflow!NextOf(x)
    BY <1>2 DEF Workflow!After, Workflow!Paths
  <2>. QED BY <2>7, <2>8
<1>. QED BY <1>1, <1>2

\* Behind the last step of the workflow every step of the outermost list was executed.
LEMMA AllExecuted ==
  ASSUME Tree, NEW S, NEW a, Executed(S, a),
         \A e \in Workflow!Enclosing(a) : Workflow!NextOf(e) \notin DOMAIN workflow,
         NEW q \in DOMAIN workflow, Len(q) = 1
  PROVE  q \in S
<1>1. /\ a \in Positions /\ Len(a) \in Nat /\ Len(a) >= 1 /\ a[1] \in Nat \ {0}
      /\ Workflow!Enclosing(a) \subseteq S
  BY Placed DEF Executed, Positions
<1>2. q \in Positions /\ q[1] \in Nat \ {0}
  BY Placed DEF Positions
<1>. DEFINE e == SubSeq(a, 1, 1)
<1>3. e \in Positions /\ Len(e) = 1 /\ e[1] = a[1]
  BY <1>1, Beginning DEF Agree
<1>. HIDE DEF e
<1>4. e \in Workflow!Enclosing(a)
  <2>1. Len(e) \in 1 .. Len(a) /\ Len(e) % 2 = 1 /\ Agree(e, a, Len(e))
    BY <1>1, <1>3 DEF Agree
  <2>. QED BY <1>1, <1>3, <2>1, IsAround
<1>5. CASE q[1] < a[1]
  BY <1>5 DEF Executed
<1>6. CASE q[1] = a[1]
  <2>1. q = e
    BY <1>2, <1>3, <1>6, SamePath DEF Agree
  <2>. QED BY <1>1, <1>4, <2>1
<1>7. CASE q[1] > a[1]
  <2>1. a[1] + 1 \in 1 .. q[Len(q)]
    BY <1>1, <1>2, <1>7
  <2>2. Workflow!Sibling(q, a[1] + 1) \in DOMAIN workflow
    BY <2>1, Placed
  <2>. DEFINE b == Workflow!NextOf(e)
              r == Workflow!Sibling(q, a[1] + 1)
  <2>3. b \in Positions /\ Len(b) = 1 /\ b[1] = a[1] + 1
    BY <1>3, NextIs
  <2>4. r \in Positions /\ Len(r) = 1 /\ r[1] = a[1] + 1
    <3>1. r = [q EXCEPT ![1] = a[1] + 1]
      BY DEF Workflow!Sibling
    <3>2. a[1] + 1 \in Nat \ {0}
      BY <1>1
    <3>3. 1 \in 1 .. Len(q) /\ q \in Seq(Nat \ {0})
      BY <1>2 DEF Positions
    <3>. HIDE DEF r
    <3>4. r \in Seq(Nat \ {0})
      BY <3>1, <3>2, <3>3
    <3>5. Len(r) = 1 /\ r[1] = a[1] + 1
      BY <3>1, <3>2, <3>3
    <3>. QED BY <3>4, <3>5 DEF Positions
  <2>. HIDE DEF b, r
  <2>5. r = b
    BY <2>3, <2>4, SamePath DEF Agree
  <2>6. b \notin DOMAIN workflow
    BY <1>4 DEF b
  <2>. QED BY <2>2, <2>5, <2>6 DEF r
<1>. QED BY <1>1, <1>2, <1>5, <1>6, <1>7

LEMMA First ==
  ASSUME Tree
  PROVE  /\ <<1>> \in DOMAIN workflow /\ OneBranch({<<1>>})
         /\ Workflow!Enclosing(<<1>>) \ {<<1>>} = {}
         /\ \A q \in DOMAIN workflow : ~(Len(q) = 1 /\ q[1] < <<1>>[1])
         /\ Workflow!Enclosing(<<>>) = {}
<1>1. <<1>> \in DOMAIN workflow
  BY DEF Tree, Workflow!IsWorkflow
<1>2. Len(<<1>>) = 1 /\ <<1>>[1] = 1
  OBVIOUS
<1>3. Workflow!Enclosing(<<1>>) \ {<<1>>} = {}
  <2>1. \A e \in Workflow!Enclosing(<<1>>) : Len(e) \in 1 .. 1 /\ (Len(e) = 1 => e = <<1>>)
    BY <1>1, <1>2, Placed, Around
  <2>. QED BY <2>1
<1>4. Workflow!Enclosing(<<>>) = {}
  BY DEF Workflow!Enclosing
<1>5. ASSUME NEW q \in DOMAIN workflow, Len(q) = 1 PROVE ~(q[1] < 1)
  BY <1>5, Placed DEF Positions
<1>6. OneBranch({<<1>>})
  BY <1>2 DEF OneBranch
<1>. QED BY <1>1, <1>2, <1>3, <1>4, <1>5, <1>6

-----------------------------------------------------------------------------
(* The workflow of a run: what the progress shows *)

Told == Tree /\ Workflow!WorkflowTypeOK /\ Reported /\ Ordered

LEMMA Executing ==
  ASSUME Told, runPhase = "running"
  PROVE  /\ stepAt \in DOMAIN workflow /\ stepAt \in ran /\ DOMAIN shown = DOMAIN workflow
         /\ Executed(ran, stepAt) /\ result = "none" /\ stepAt # <<>>
<1>1. /\ DOMAIN shown = DOMAIN workflow /\ ran \subseteq DOMAIN workflow /\ stepAt # <<>>
      /\ result = "none"
  BY DEF Told, Workflow!WorkflowTypeOK, Workflow!Paths
<1>2. /\ stepAt \in DOMAIN workflow /\ stepAt \in ran /\ OneBranch(Visited)
      /\ Workflow!Enclosing(stepAt) \ {stepAt} \subseteq ran /\ ran \cap Ahead(stepAt) = {}
      /\ \A q \in DOMAIN workflow : Len(q) = 1 /\ q[1] < stepAt[1] => q \in ran
  BY DEF Told, Ordered, Going
<1>3. Visited = ran
  BY <1>2 DEF Visited
<1>. QED BY <1>1, <1>2, <1>3 DEF Executed

LEMMA OnwardTold ==
  ASSUME Told, runPhase = "running", UNCHANGED <<workflow, attempt, ran, cancel>>, NEW b, NEW S,
         \/ b = <<>> /\ \A e \in Workflow!Enclosing(stepAt) : Workflow!NextOf(e) \notin DOMAIN shown
         \/ b \in DOMAIN shown /\ Follows(stepAt, b),
         Workflow!GoOn(b), S \subseteq Ahead(stepAt),
         shown' = [p \in Workflow!Paths |-> IF p = stepAt THEN "success"
                                            ELSE IF p \in S THEN "skipped" ELSE shown[p]]
  PROVE  Told'
<1>1. /\ stepAt \in DOMAIN workflow /\ stepAt \in ran /\ DOMAIN shown = DOMAIN workflow
      /\ Executed(ran, stepAt) /\ result = "none" /\ stepAt # <<>>
  BY Executing
<1>2. /\ DOMAIN shown' = DOMAIN workflow /\ Workflow!Paths = DOMAIN workflow
      /\ Workflow!Paths' = DOMAIN workflow
  BY <1>1 DEF Workflow!Paths
<1>3. b \in DOMAIN workflow => b # <<>>
  <2>1. \A p \in DOMAIN workflow : Len(p) >= 1
    BY Placed DEF Told
  <2>2. ~(Len(<<>>) >= 1)
    OBVIOUS
  <2>. QED BY <2>1, <2>2
<1>4. /\ stepAt' = b
      /\ \/ b = <<>> /\ runPhase' = "ended" /\ result' = "success"
         \/ b # <<>> /\ b \in DOMAIN workflow /\ runPhase' = "next" /\ result' = "none"
  BY <1>1, <1>3 DEF Workflow!GoOn
<1>5. Tree'
  BY DEF Told, Tree
<1>6. Workflow!WorkflowTypeOK'
  <2>1. shown \in [DOMAIN workflow -> {"pending", "running", "success", "failed", "skipped"}]
    BY <1>2 DEF Told, Workflow!WorkflowTypeOK
  <2>2. shown' \in [DOMAIN workflow -> {"pending", "running", "success", "failed", "skipped"}]
    BY <1>2, <2>1
  <2>3. attempt \in 0..MaxAttempts /\ cancel \in BOOLEAN /\ ran \subseteq DOMAIN workflow
    BY <1>2 DEF Told, Workflow!WorkflowTypeOK
  <2>. QED BY <1>2, <1>4, <2>2, <2>3 DEF Workflow!WorkflowTypeOK
<1>7. Reported'
  <2>. SUFFICES ASSUME NEW p \in DOMAIN workflow
                PROVE  /\ shown'[p] \in {"running", "success", "failed"} => p \in ran
                       /\ shown'[p] \in {"pending", "skipped"} => p \notin ran
                       /\ shown'[p] # "running" /\ shown'[p] # "failed"
    BY <1>2, <1>4 DEF Reported
  <2>1. /\ shown[p] \in {"running", "success", "failed"} => p \in ran
        /\ shown[p] \in {"pending", "skipped"} => p \notin ran
        /\ shown[p] = "running" => p = stepAt
        /\ shown[p] # "failed"
    BY <1>2 DEF Told, Reported, Going
  <2>2. p \in S => p \notin ran
    BY <1>1 DEF Executed
  <2>. QED BY <1>1, <1>2, <2>1, <2>2
<1>8. Ordered'
  <2>1. CASE b = <<>>
    <3>1. \A e \in Workflow!Enclosing(stepAt) : Workflow!NextOf(e) \notin DOMAIN workflow
      <4>1. <<>> \notin DOMAIN workflow
        BY <1>3, <2>1
      <4>. QED BY <1>1, <2>1, <4>1
    <3>2. \A q \in DOMAIN workflow : Len(q) = 1 => q \in ran
      BY <1>1, <3>1, AllExecuted DEF Told
    <3>3. Visited' = ran /\ ~ Going'
      BY <1>4, <2>1 DEF Visited, Going
    <3>4. OneBranch(ran)
      BY <1>1 DEF Executed
    <3>. QED BY <3>2, <3>3, <3>4 DEF Ordered
  <2>2. CASE b # <<>>
    <3>1. b \in DOMAIN workflow /\ Follows(stepAt, b)
      BY <1>1, <1>4, <2>2
    <3>2. /\ OneBranch(ran \cup {b}) /\ Workflow!Enclosing(b) \ {b} \subseteq ran
          /\ \A q \in DOMAIN workflow : Len(q) = 1 /\ q[1] < b[1] => q \in ran
          /\ b \in Ahead(stepAt) /\ Ahead(b) \subseteq Ahead(stepAt)
      <4>1. CASE \E e \in Workflow!Enclosing(stepAt) : b = Workflow!NextOf(e)
        <5>. PICK e \in Workflow!Enclosing(stepAt) : b = Workflow!NextOf(e)
          BY <4>1
        <5>1. Tree /\ Executed(ran, stepAt) /\ Workflow!NextOf(e) \in DOMAIN workflow
          BY <1>1, <3>1 DEF Told
        <5>2. /\ OneBranch(ran \cup {b}) /\ Workflow!Enclosing(b) \ {b} \subseteq ran
              /\ \A q \in DOMAIN workflow : Len(q) = 1 /\ q[1] < b[1] => q \in ran
          BY <5>1, MoveNext
        <5>3. b \in Ahead(stepAt) /\ Ahead(b) \subseteq Ahead(stepAt)
          BY <1>1, <5>1, AheadNext DEF Told
        <5>. QED BY <5>2, <5>3
      <4>2. CASE \E i \in Nat \ {0} : b = Workflow!Child(stepAt, i)
        <5>. PICK i \in Nat \ {0} : b = Workflow!Child(stepAt, i)
          BY <4>2
        <5>1. Tree /\ Executed(ran, stepAt) /\ Workflow!Child(stepAt, i) \in DOMAIN workflow
          BY <1>1, <3>1 DEF Told
        <5>2. /\ OneBranch(ran \cup {b}) /\ Workflow!Enclosing(b) \ {b} \subseteq ran
              /\ \A q \in DOMAIN workflow : Len(q) = 1 /\ q[1] < b[1] => q \in ran
          BY <5>1, MoveInto
        <5>3. b \in Ahead(stepAt) /\ Ahead(b) \subseteq Ahead(stepAt)
          BY <1>1, <5>1, AheadChild DEF Told
        <5>. QED BY <5>2, <5>3
      <4>. QED BY <3>1, <4>1, <4>2 DEF Follows
    <3>3. ran \cap Ahead(b) = {} /\ b \notin ran
      BY <1>1, <3>2 DEF Executed
    <3>4. Visited' = ran \cup {b}
      BY <1>4, <2>2 DEF Visited
    <3>5. Ahead(stepAt)' = Ahead(b)
      BY <1>4 DEF Ahead
    <3>. QED BY <1>4, <2>2, <3>1, <3>2, <3>3, <3>4, <3>5 DEF Ordered
  <2>. QED BY <2>1, <2>2
<1>. QED BY <1>5, <1>6, <1>7, <1>8 DEF Told

LEMMA FailedTold ==
  ASSUME Told, runPhase = "running", UNCHANGED <<workflow, attempt, ran, cancel>>, NEW r,
         Workflow!Fail(r)
  PROVE  Told'
<1>1. /\ stepAt \in DOMAIN workflow /\ stepAt \in ran /\ DOMAIN shown = DOMAIN workflow
      /\ Executed(ran, stepAt) /\ result = "none" /\ stepAt # <<>>
  BY Executing
<1>2. /\ DOMAIN shown' = DOMAIN workflow /\ Workflow!Paths = DOMAIN workflow
      /\ Workflow!Paths' = DOMAIN workflow
  BY <1>1 DEF Workflow!Paths, Workflow!Fail
<1>3. /\ stepAt' = <<>>
      /\ \/ runPhase' = "ended" /\ result' = "failed"
         \/ runPhase' = "idle" /\ result' = "none"
  BY <1>1 DEF Workflow!Fail
<1>4. shown' = [p \in DOMAIN workflow |->
                  IF p \in Workflow!Enclosing(stepAt) THEN "failed" ELSE shown[p]]
  BY <1>2 DEF Workflow!Fail
<1>5. Tree'
  BY DEF Told, Tree
<1>6. Workflow!WorkflowTypeOK'
  <2>1. shown \in [DOMAIN workflow -> {"pending", "running", "success", "failed", "skipped"}]
    BY <1>2 DEF Told, Workflow!WorkflowTypeOK
  <2>2. shown' \in [DOMAIN workflow -> {"pending", "running", "success", "failed", "skipped"}]
    BY <1>4, <2>1
  <2>3. attempt \in 0..MaxAttempts /\ cancel \in BOOLEAN /\ ran \subseteq DOMAIN workflow
    BY <1>2 DEF Told, Workflow!WorkflowTypeOK
  <2>. QED BY <1>2, <1>3, <2>2, <2>3 DEF Workflow!WorkflowTypeOK
<1>7. Reported'
  <2>. SUFFICES ASSUME NEW p \in DOMAIN workflow
                PROVE  /\ shown'[p] \in {"running", "success", "failed"} => p \in ran
                       /\ shown'[p] \in {"pending", "skipped"} => p \notin ran
                       /\ shown'[p] # "running"
    BY <1>2, <1>3 DEF Reported, Going
  <2>1. /\ shown[p] \in {"running", "success", "failed"} => p \in ran
        /\ shown[p] \in {"pending", "skipped"} => p \notin ran
        /\ shown[p] = "running" => p = stepAt
    BY <1>2 DEF Told, Reported
  <2>2. stepAt \in Workflow!Enclosing(stepAt) /\ Workflow!Enclosing(stepAt) \subseteq ran
    BY <1>1, Placed DEF Told, Executed
  <2>. QED BY <1>1, <1>4, <2>1, <2>2
<1>8. Ordered'
  <2>1. Visited' = ran /\ ~ Going' /\ result' # "success"
    BY <1>3 DEF Visited, Going
  <2>2. OneBranch(ran)
    BY <1>1 DEF Executed
  <2>. QED BY <2>1, <2>2 DEF Ordered
<1>. QED BY <1>5, <1>6, <1>7, <1>8 DEF Told

LEMMA CancelledTold == Told /\ Workflow!Cancelled => Told'
<1>. SUFFICES ASSUME Told, Workflow!Cancelled PROVE Told'
  OBVIOUS
<1>0. /\ Workflow!Paths = DOMAIN workflow /\ DOMAIN shown = DOMAIN workflow
      /\ ran \subseteq DOMAIN workflow /\ attempt \in 0..MaxAttempts
      /\ shown \in [DOMAIN workflow -> {"pending", "running", "success", "failed", "skipped"}]
  BY DEF Told, Workflow!WorkflowTypeOK, Workflow!Paths
<1>. DEFINE hit == IF runPhase = "running" THEN Workflow!Enclosing(stepAt)
                   ELSE Workflow!Enclosing(stepAt) \ {stepAt}
<1>1. /\ shown' = [p \in DOMAIN workflow |-> IF p \in hit THEN "failed" ELSE shown[p]]
      /\ runPhase' = "ended" /\ result' = "canceled" /\ stepAt' = <<>> /\ cancel
      /\ UNCHANGED <<workflow, attempt, ran, cancel>> /\ runPhase \in {"idle", "next", "running"}
  BY <1>0 DEF Workflow!Cancelled
<1>2. hit \subseteq ran
  <2>1. CASE runPhase = "running"
    BY <2>1, Executing DEF Executed
  <2>2. CASE runPhase = "next"
    BY <2>2 DEF Told, Ordered, Going
  <2>3. CASE runPhase = "idle"
    <3>1. stepAt = <<>>
      BY <2>3 DEF Told, Workflow!WorkflowTypeOK
    <3>. QED BY <2>3, <3>1, First DEF Told
  <2>. QED BY <1>1, <2>1, <2>2, <2>3
<1>. HIDE DEF hit
<1>3. /\ Tree' /\ Workflow!Paths' = DOMAIN workflow
      /\ shown' \in [DOMAIN workflow -> {"pending", "running", "success", "failed", "skipped"}]
  BY <1>0, <1>1 DEF Told, Tree, Workflow!Paths
<1>4. Workflow!WorkflowTypeOK'
  BY <1>0, <1>1, <1>3 DEF Workflow!WorkflowTypeOK
<1>5. Reported'
  <2>. SUFFICES ASSUME NEW p \in DOMAIN workflow
                PROVE  /\ shown'[p] \in {"running", "success", "failed"} => p \in ran
                       /\ shown'[p] \in {"pending", "skipped"} => p \notin ran
                       /\ shown'[p] # "running"
    BY <1>1, <1>3 DEF Reported, Going
  <2>1. /\ shown[p] \in {"running", "success", "failed"} => p \in ran
        /\ shown[p] \in {"pending", "skipped"} => p \notin ran
        /\ shown[p] = "running" => runPhase = "running" /\ p = stepAt
    BY <1>0 DEF Told, Reported
  <2>2. shown[p] = "running" => p \in hit
    BY <2>1, Executing, Placed DEF hit, Told
  <2>. QED BY <1>1, <1>2, <2>1, <2>2
<1>6. Ordered'
  <2>1. Visited' \subseteq Visited /\ ~ Going' /\ result' # "success"
    BY <1>1 DEF Visited, Going
  <2>2. OneBranch(Visited)
    BY DEF Told, Ordered
  <2>3. OneBranch(Visited')
    BY <2>1, <2>2 DEF OneBranch
  <2>. QED BY <2>1, <2>3 DEF Ordered
<1>. QED BY <1>3, <1>4, <1>5, <1>6 DEF Told

LEMMA StartTold == Told /\ Workflow!StartStep => Told'
<1>. SUFFICES ASSUME Told, Workflow!StartStep PROVE Told'
  OBVIOUS
<1>0. /\ Workflow!Paths = DOMAIN workflow /\ DOMAIN shown = DOMAIN workflow
      /\ ran \subseteq DOMAIN workflow /\ attempt \in 0..MaxAttempts /\ cancel \in BOOLEAN
      /\ shown \in [DOMAIN workflow -> {"pending", "running", "success", "failed", "skipped"}]
      /\ runPhase = "next" /\ stepAt # <<>> /\ result = "none"
  BY DEF Told, Workflow!WorkflowTypeOK, Workflow!Paths, Workflow!StartStep
<1>1. /\ shown' = [shown EXCEPT ![stepAt] = "running"] /\ ran' = ran \cup {stepAt}
      /\ runPhase' = "running"
      /\ UNCHANGED <<workflow, attempt, stepAt, ctx, why, result, cancel>>
  BY DEF Workflow!StartStep
<1>2. /\ stepAt \in DOMAIN workflow /\ stepAt \notin ran
      /\ Workflow!Enclosing(stepAt) \ {stepAt} \subseteq ran /\ ran \cap Ahead(stepAt) = {}
      /\ \A q \in DOMAIN workflow : Len(q) = 1 /\ q[1] < stepAt[1] => q \in ran
      /\ OneBranch(Visited)
  BY <1>0 DEF Told, Ordered, Going
<1>3. /\ Tree' /\ Workflow!Paths' = DOMAIN workflow
      /\ shown' \in [DOMAIN workflow -> {"pending", "running", "success", "failed", "skipped"}]
  BY <1>0, <1>1, <1>2 DEF Told, Tree, Workflow!Paths
<1>4. Workflow!WorkflowTypeOK'
  BY <1>0, <1>1, <1>2, <1>3 DEF Workflow!WorkflowTypeOK
<1>5. Reported'
  <2>. SUFFICES ASSUME NEW p \in DOMAIN workflow
                PROVE  /\ shown'[p] \in {"running", "success", "failed"} => p \in ran'
                       /\ shown'[p] \in {"pending", "skipped"} => p \notin ran'
                       /\ shown'[p] = "running" => p = stepAt'
                       /\ shown'[p] # "failed"
    BY <1>1, <1>3 DEF Reported
  <2>1. /\ shown[p] \in {"running", "success", "failed"} => p \in ran
        /\ shown[p] \in {"pending", "skipped"} => p \notin ran
        /\ shown[p] # "running" /\ shown[p] # "failed"
    BY <1>0 DEF Told, Reported, Going
  <2>. QED BY <1>0, <1>1, <1>2, <2>1
<1>6. Ordered'
  <2>1. Visited' = Visited
    BY <1>0, <1>1 DEF Visited
  <2>2. Ahead(stepAt)' = Ahead(stepAt) /\ stepAt \notin Ahead(stepAt)
    BY <1>1, <1>2, NotAhead DEF Ahead, Told
  <2>3. Workflow!Enclosing(stepAt)' = Workflow!Enclosing(stepAt)
    BY <1>1
  <2>. QED BY <1>0, <1>1, <1>2, <2>1, <2>2, <2>3 DEF Ordered, Going
<1>. QED BY <1>3, <1>4, <1>5, <1>6 DEF Told

LEMMA BeginTold == Told /\ Workflow!BeginAttempt => Told'
<1>. SUFFICES ASSUME Told, Workflow!BeginAttempt PROVE Told'
  OBVIOUS
<1>0. /\ Workflow!Paths = DOMAIN workflow /\ attempt \in 0..MaxAttempts /\ cancel \in BOOLEAN
      /\ result = "none" /\ MaxAttempts \in Nat
  BY ServicesAssumption DEF Told, Workflow!WorkflowTypeOK, Workflow!BeginAttempt,
     Workflow!WorkflowAssumption
<1>1. /\ shown' = [p \in DOMAIN workflow |-> "pending"] /\ ran' = {} /\ attempt' = attempt + 1
      /\ attempt < MaxAttempts /\ UNCHANGED <<workflow, cancel>>
      /\ \/ stepAt' = <<1>> /\ runPhase' = "next" /\ result' = "none"
         \/ stepAt' = <<>> /\ runPhase' = "ended" /\ result' = "failed"
         \/ stepAt' = <<>> /\ runPhase' = "idle" /\ result' = "none"
  BY <1>0 DEF Workflow!BeginAttempt, Workflow!ShownAfresh
<1>2. /\ Tree' /\ Workflow!Paths' = DOMAIN workflow
      /\ shown' \in [DOMAIN workflow -> {"pending", "running", "success", "failed", "skipped"}]
  BY <1>1 DEF Told, Tree, Workflow!Paths
<1>3. /\ <<1>> \in DOMAIN workflow /\ OneBranch({<<1>>})
      /\ Workflow!Enclosing(<<1>>) \ {<<1>>} = {}
      /\ \A q \in DOMAIN workflow : ~(Len(q) = 1 /\ q[1] < <<1>>[1])
  BY First DEF Told
<1>4. attempt' \in 0..MaxAttempts /\ <<1>> # <<>>
  BY <1>0, <1>1
<1>5. Workflow!WorkflowTypeOK'
  BY <1>0, <1>1, <1>2, <1>3, <1>4 DEF Workflow!WorkflowTypeOK
<1>6. Reported'
  BY <1>1, <1>2 DEF Reported
<1>7. Ordered'
  <2>1. OneBranch({})
    BY DEF OneBranch
  <2>2. CASE stepAt' = <<>>
    <3>1. Visited' = {} /\ ~Going' /\ result' # "success"
      BY <1>1, <1>4, <2>2 DEF Visited, Going
    <3>. QED BY <2>1, <3>1 DEF Ordered
  <2>3. CASE stepAt' = <<1>>
    <3>1. Visited' = {<<1>>}
      BY <1>1, <1>4, <2>3 DEF Visited
    <3>2. runPhase' = "next" /\ result' = "none"
      BY <1>1, <1>4, <2>3
    <3>3. Workflow!Enclosing(stepAt)' \ {stepAt'} = {}
      BY <1>3, <2>3
    <3>. QED BY <1>1, <1>3, <2>3, <3>1, <3>2, <3>3 DEF Ordered
  <2>. QED BY <1>1, <2>2, <2>3
<1>. QED BY <1>2, <1>5, <1>6, <1>7 DEF Told

LEMMA FinalizeTold == Told /\ Workflow!Finalize => Told'
<1>. SUFFICES ASSUME Told, Workflow!Finalize PROVE Told'
  OBVIOUS
<1>0. /\ Workflow!Paths = DOMAIN workflow /\ attempt \in 0..MaxAttempts /\ cancel \in BOOLEAN
      /\ ran \subseteq DOMAIN workflow /\ stepAt = <<>> /\ result # "none"
      /\ shown \in [DOMAIN workflow -> {"pending", "running", "success", "failed", "skipped"}]
      /\ runPhase = "ended"
  BY DEF Told, Workflow!WorkflowTypeOK, Workflow!Finalize
<1>1. /\ shown' = [p \in DOMAIN workflow |-> Workflow!Final(p)] /\ runPhase' = "settled"
      /\ UNCHANGED <<workflow, attempt, stepAt, ctx, ran, why, result, cancel>>
  BY <1>0 DEF Workflow!Finalize
<1>2. ASSUME NEW p \in DOMAIN workflow
      PROVE  /\ Workflow!Final(p) \in {"success", "failed", "skipped"}
             /\ Workflow!Final(p) \in {"success", "failed"} => p \in ran
             /\ Workflow!Final(p) = "skipped" => p \notin ran
             /\ result = "success" => Workflow!Final(p) # "failed"
  <2>1. /\ shown[p] \in {"pending", "success", "failed", "skipped"}
        /\ shown[p] \in {"running", "success", "failed"} => p \in ran
        /\ shown[p] \in {"pending", "skipped"} => p \notin ran
        /\ shown[p] = "failed" => result # "success"
    BY <1>0 DEF Told, Reported
  <2>2. CASE shown[p] = "pending"
    <3>1. result = "success" /\ Len(p) = 1 => p \in ran
      BY DEF Told, Ordered
    <3>2. p \notin ran /\ Workflow!Final(p) = "skipped"
      BY <2>1, <2>2, <3>1 DEF Workflow!Final
    <3>. QED BY <3>2
  <2>3. CASE shown[p] # "pending"
    <3>1. Workflow!Final(p) = shown[p]
      BY <2>1, <2>3 DEF Workflow!Final
    <3>. QED BY <2>1, <2>3, <3>1
  <2>. QED BY <2>2, <2>3
<1>3. \A p \in DOMAIN workflow : shown'[p] = Workflow!Final(p)
  BY <1>1
<1>4. /\ Tree' /\ Workflow!Paths' = DOMAIN workflow
      /\ shown' \in [DOMAIN workflow -> {"pending", "running", "success", "failed", "skipped"}]
  BY <1>1, <1>2 DEF Told, Tree, Workflow!Paths
<1>5. Workflow!WorkflowTypeOK'
  BY <1>0, <1>1, <1>4 DEF Workflow!WorkflowTypeOK
<1>6. Reported'
  BY <1>1, <1>2, <1>3, <1>4 DEF Reported, Going
<1>7. Ordered'
  <2>1. Visited' = Visited /\ ~ Going'
    BY <1>1 DEF Visited, Going
  <2>. QED BY <1>1, <2>1 DEF Told, Ordered
<1>. QED BY <1>4, <1>5, <1>6, <1>7 DEF Told

LEMMA AfterFollows ==
  ASSUME Told, runPhase = "running"
  PROVE  LET b == Workflow!After(stepAt)
         IN \/ /\ b = <<>>
               /\ \A e \in Workflow!Enclosing(stepAt) : Workflow!NextOf(e) \notin DOMAIN shown
            \/ b \in DOMAIN shown /\ Follows(stepAt, b)
<1>1. stepAt \in Positions
  BY Executing, Placed DEF Told
<1>. QED BY <1>1, AfterIs DEF Follows

LEMMA SucceedTold ==
  ASSUME Told, runPhase = "running", UNCHANGED <<workflow, attempt, ran, cancel>>, NEW k,
         Workflow!Succeed(k)
  PROVE  Told'
<1>. DEFINE b == Workflow!After(stepAt)
<1>1. \/ b = <<>> /\ \A e \in Workflow!Enclosing(stepAt) : Workflow!NextOf(e) \notin DOMAIN shown
      \/ b \in DOMAIN shown /\ Follows(stepAt, b)
  BY AfterFollows
<1>2. Workflow!GoOn(b)
  BY DEF Workflow!Succeed
<1>. HIDE DEF b
<1>. DEFINE S == {}
<1>3. shown' = [p \in Workflow!Paths |-> IF p = stepAt THEN "success"
                                         ELSE IF p \in S THEN "skipped" ELSE shown[p]]
  <2>1. shown = [p \in Workflow!Paths |-> shown[p]]
    BY DEF Told, Workflow!WorkflowTypeOK
  <2>. QED BY <2>1 DEF Workflow!Succeed
<1>4. S \subseteq Ahead(stepAt)
  OBVIOUS
<1>. HIDE DEF S
<1>. QED BY <1>1, <1>2, <1>3, <1>4, OnwardTold

LEMMA PlainTold ==
  ASSUME Told, \/ Workflow!SendMessage \/ Workflow!WaitMessage \/ Workflow!ClickButton
               \/ Workflow!HttpRequest \/ Workflow!ExtractVariable
  PROVE  Told'
<1>1. runPhase = "running" /\ UNCHANGED <<workflow, attempt, ran, cancel>>
  BY DEF Workflow!SendMessage, Workflow!WaitMessage, Workflow!ClickButton, Workflow!HttpRequest,
     Workflow!ExtractVariable, Workflow!Handling
<1>2. (\E k : Workflow!Succeed(k)) \/ (\E r : Workflow!Fail(r))
  BY DEF Workflow!SendMessage, Workflow!WaitMessage, Workflow!ClickButton, Workflow!HttpRequest,
     Workflow!ExtractVariable
<1>. QED BY <1>1, <1>2, SucceedTold, FailedTold

\* What a condition does: it fails, or goes on with one of its branches.
Chosen(got, i) ==
  /\ got \subseteq Workflow!Names(workflow[stepAt].extracts)
  /\ got # {} => ctx.waited
  /\ i \in DOMAIN workflow[stepAt].branches
  /\ ctx' = [ctx EXCEPT !.vars = Workflow!Extracted(workflow[stepAt], got)]
  /\ shown' = [p \in Workflow!Paths |-> IF p = stepAt THEN "success"
                                        ELSE IF p \in Workflow!Skipped(i) THEN "skipped"
                                        ELSE shown[p]]
  /\ UNCHANGED why
  /\ Workflow!GoOn(IF Workflow!Child(stepAt, i) \in Workflow!Paths
                   THEN Workflow!Child(stepAt, i) ELSE Workflow!After(stepAt))

LEMMA ConditionDoes ==
  ASSUME Workflow!Condition
  PROVE  /\ runPhase = "running" /\ workflow[stepAt].kind = "condition"
         /\ UNCHANGED <<workflow, attempt, ran, cancel>>
         /\ \/ \E r \in {"extract", "rule"} : Workflow!Fail(r)
            \/ \E got, i : Chosen(got, i)
<1>1. runPhase = "running" /\ workflow[stepAt].kind = "condition"
      /\ UNCHANGED <<workflow, attempt, ran, cancel>>
  BY DEF Workflow!Condition, Workflow!Handling, Workflow!Current
<1>2. PICK got \in SUBSET Workflow!Names(Workflow!Current.extracts) :
        LET known == Workflow!Extracted(Workflow!Current, got)
            complete == got = Workflow!Names(Workflow!Current.extracts)
        IN /\ got # {} => ctx.waited
           /\ \/ Workflow!Current.strict /\ ~complete /\ Workflow!Fail("extract")
              \/ Workflow!Raises(Workflow!Current, known) /\ Workflow!Fail("rule")
              \/ \E i \in DOMAIN Workflow!Current.branches :
                   /\ Workflow!Current.strict => complete
                   /\ Workflow!Selects(Workflow!Current, i, known)
                   /\ ctx' = [ctx EXCEPT !.vars = known]
                   /\ shown' = [p \in Workflow!Paths |->
                                  IF p = stepAt THEN "success"
                                  ELSE IF p \in Workflow!Skipped(i) THEN "skipped" ELSE shown[p]]
                   /\ UNCHANGED why
                   /\ Workflow!GoOn(IF Workflow!Child(stepAt, i) \in Workflow!Paths
                                    THEN Workflow!Child(stepAt, i) ELSE Workflow!After(stepAt))
  BY DEF Workflow!Condition
<1>3. (\E r \in {"extract", "rule"} : Workflow!Fail(r)) \/ \E i : Chosen(got, i)
  BY <1>2 DEF Chosen, Workflow!Current
<1>. QED BY <1>1, <1>3

\* The steps under the branches that were not selected come after the condition.
LEMMA SkippedAhead ==
  ASSUME Told, runPhase = "running", NEW i
  PROVE  Workflow!Skipped(i) \subseteq Ahead(stepAt)
<1>0. /\ stepAt \in DOMAIN workflow /\ Workflow!Paths = DOMAIN workflow
      /\ stepAt \in Seq(Nat \ {0}) /\ Len(stepAt) \in Nat
  BY Executing, Placed DEF Told, Workflow!Paths, Positions
<1>1. ASSUME NEW j, NEW q \in Workflow!Under(Append(stepAt, j)) PROVE q \in Ahead(stepAt)
  <2>. DEFINE a == Append(stepAt, j)
  <2>1. /\ q \in DOMAIN workflow /\ q \in Seq(Nat \ {0}) /\ Len(q) \in Nat
        /\ Len(q) > Len(a) /\ SubSeq(q, 1, Len(a)) = a
    BY <1>0, <1>1, Placed DEF Told, Workflow!Under, Positions
  <2>2. Len(a) = Len(stepAt) + 1 /\ \A k \in 1 .. Len(stepAt) : a[k] = stepAt[k]
    BY <1>0
  <2>. HIDE DEF a
  <2>3. ASSUME NEW k \in 1 .. Len(stepAt) PROVE q[k] = stepAt[k]
    <3>1. k \in 1 .. Len(a) /\ Len(a) \in Nat /\ Len(a) <= Len(q)
      BY <1>0, <2>1, <2>2
    <3>2. SubSeq(q, 1, Len(a))[k] = q[k]
      BY <2>1, <3>1
    <3>. QED BY <2>1, <2>2, <3>2
  <2>4. Len(q) > Len(stepAt) /\ Agree(q, stepAt, Len(stepAt))
    BY <1>0, <2>1, <2>2, <2>3 DEF Agree
  <2>. QED BY <2>1, <2>4 DEF Ahead
<1>. QED BY <1>1 DEF Workflow!Skipped

LEMMA ConditionTold == Told /\ Workflow!Condition => Told'
<1>. SUFFICES ASSUME Told, Workflow!Condition PROVE Told'
  OBVIOUS
<1>1. runPhase = "running" /\ UNCHANGED <<workflow, attempt, ran, cancel>>
      /\ workflow[stepAt].kind = "condition"
  BY ConditionDoes
<1>2. CASE \E r : Workflow!Fail(r)
  BY <1>1, <1>2, FailedTold
<1>3. ASSUME NEW got, NEW i, Chosen(got, i) PROVE Told'
  <2>. DEFINE b == IF Workflow!Child(stepAt, i) \in Workflow!Paths
                   THEN Workflow!Child(stepAt, i) ELSE Workflow!After(stepAt)
  <2>1. stepAt \in DOMAIN workflow /\ DOMAIN shown = DOMAIN workflow
    BY <1>1, Executing
  <2>2. i \in Nat \ {0}
    <3>1. Workflow!IsStep(workflow[stepAt])
      BY <2>1 DEF Told, Tree, Workflow!IsWorkflow
    <3>2. DOMAIN workflow[stepAt].branches = 1 .. Len(workflow[stepAt].branches)
          /\ Len(workflow[stepAt].branches) \in Nat
      BY <1>1, <3>1 DEF Workflow!IsStep
    <3>. QED BY <1>3, <3>2 DEF Chosen
  <2>3. \/ b = <<>> /\ \A e \in Workflow!Enclosing(stepAt) : Workflow!NextOf(e) \notin DOMAIN shown
        \/ b \in DOMAIN shown /\ Follows(stepAt, b)
    BY <1>1, <2>2, AfterFollows DEF Follows, Workflow!Paths
  <2>4. Workflow!GoOn(b)
    BY <1>3 DEF Chosen
  <2>5. Workflow!Skipped(i) \subseteq Ahead(stepAt)
    BY <1>1, SkippedAhead
  <2>. HIDE DEF b
  <2>. QED BY <1>1, <1>3, <2>3, <2>4, <2>5, OnwardTold DEF Chosen
<1>. QED BY <1>2, <1>3, ConditionDoes

LEMMA ToldInit == Workflow!Init => Told
<1>. SUFFICES ASSUME Workflow!Init PROVE Told
  OBVIOUS
<1>1. Tree
  BY ServicesAssumption DEF Workflow!Init, Workflow!WorkflowAssumption, Tree
<1>2. /\ attempt = 0 /\ runPhase = "idle" /\ stepAt = <<>> /\ ran = {} /\ result = "none"
      /\ cancel = FALSE /\ shown = [p \in DOMAIN workflow |-> "pending"]
  BY DEF Workflow!Init, Workflow!Started
<1>3. Workflow!WorkflowTypeOK
  <2>1. MaxAttempts \in Nat \ {0}
    BY ServicesAssumption DEF Workflow!WorkflowAssumption
  <2>2. 0 \in 0 .. MaxAttempts
    BY <2>1
  <2>3. shown \in [DOMAIN workflow -> {"pending", "running", "success", "failed", "skipped"}]
        /\ DOMAIN shown = DOMAIN workflow
    BY <1>2
  <2>4. (stepAt # <<>>) = (runPhase \in {"next", "running"})
    BY <1>2
  <2>5. (result # "none") = (runPhase \in {"ended", "settled"})
    BY <1>2
  <2>6. attempt \in 0 .. MaxAttempts /\ cancel \in BOOLEAN /\ ran \subseteq DOMAIN workflow
        /\ stepAt \in DOMAIN workflow \cup {<<>>}
        /\ runPhase \in {"idle", "next", "running", "ended", "settled"}
    BY <1>2, <2>2
  <2>. QED BY <2>3, <2>4, <2>5, <2>6 DEF Workflow!WorkflowTypeOK, Workflow!Paths
<1>4. Reported
  BY <1>2 DEF Reported, Workflow!Paths
<1>5. Ordered
  BY <1>2 DEF Ordered, Visited, OneBranch, Going
<1>. QED BY <1>1, <1>3, <1>4, <1>5 DEF Told

LEMMA ToldStep == Told /\ [Workflow!Next]_workflowVars => Told'
<1>. SUFFICES ASSUME Told, [Workflow!Next]_workflowVars PROVE Told'
  OBVIOUS
<1>1. CASE Workflow!AskCancel \/ UNCHANGED workflowVars
  <2>1. /\ UNCHANGED <<workflow, attempt, runPhase, stepAt, shown, ran, result>>
        /\ cancel' \in {cancel, TRUE}
    BY <1>1 DEF Workflow!AskCancel, workflowVars
  <2>2. Workflow!WorkflowTypeOK'
    BY <2>1 DEF Told, Workflow!WorkflowTypeOK, Workflow!Paths
  <2>3. Tree' /\ Reported'
    BY <2>1 DEF Told, Tree, Reported, Going, Workflow!Paths
  <2>4. Ordered'
    <3>1. Visited' = Visited /\ Going' = Going /\ Ahead(stepAt)' = Ahead(stepAt)
      BY <2>1 DEF Visited, Going, Ahead
    <3>2. Workflow!Enclosing(stepAt)' = Workflow!Enclosing(stepAt)
      BY <2>1
    <3>. QED BY <2>1, <3>1, <3>2 DEF Told, Ordered
  <2>. QED BY <2>2, <2>3, <2>4 DEF Told
<1>. QED
  BY <1>1, BeginTold, CancelledTold, StartTold, FinalizeTold, PlainTold, ConditionTold
  DEF Workflow!Next

LEMMA ToldMeans == Told => Workflow!ProgressTold
<1>. SUFFICES ASSUME Told, runPhase = "settled" PROVE Workflow!ProgressTold
  BY DEF Workflow!ProgressTold
<1>0. /\ Workflow!Paths = DOMAIN workflow /\ ran \subseteq DOMAIN workflow
      /\ shown \in [DOMAIN workflow -> {"pending", "running", "success", "failed", "skipped"}]
      /\ OneBranch(ran)
  BY DEF Told, Workflow!WorkflowTypeOK, Workflow!Paths, Ordered, OneBranch, Visited
<1>1. ASSUME NEW p \in DOMAIN workflow
      PROVE  /\ shown[p] \notin {"pending", "running"}
             /\ shown[p] \in {"success", "failed"} => p \in ran
             /\ result = "success" => shown[p] # "failed" /\ (Len(p) = 1 => shown[p] = "success")
  <2>1. /\ shown[p] \in {"success", "failed"} => p \in ran
        /\ shown[p] = "skipped" => p \notin ran
        /\ shown[p] \in {"success", "failed", "skipped"}
        /\ result = "success" => shown[p] # "failed"
    BY <1>0 DEF Told, Reported
  <2>2. result = "success" /\ Len(p) = 1 => p \in ran
    BY DEF Told, Ordered
  <2>. QED BY <2>1, <2>2
<1>2. ASSUME NEW p \in DOMAIN workflow, NEW q \in DOMAIN workflow, shown[p] # "skipped",
             shown[q] # "skipped", Len(p) > 1, Len(q) >= Len(p),
             SubSeq(q, 1, Len(p) - 2) = Workflow!Parent(p)
      PROVE  q[Len(p) - 1] = p[Len(p) - 1]
  <2>1. p \in ran /\ q \in ran
    BY <1>0, <1>1, <1>2
  <2>2. p \in Positions /\ q \in Positions /\ Len(p) \in Nat /\ Len(p) % 2 = 1 /\ Len(q) \in Nat
    BY Placed DEF Told
  <2>3. Len(p) - 2 \in Nat /\ Len(p) - 2 <= Len(p) /\ Len(p) - 2 <= Len(q)
    BY <1>2, <2>2
  <2>4. Agree(p, q, Len(p) - 2)
    BY <1>2, <2>2, <2>3, SameBeginning DEF Workflow!Parent
  <2>. QED BY <1>0, <1>2, <2>1, <2>4 DEF OneBranch
<1>. QED BY <1>0, <1>1, <1>2 DEF Workflow!ProgressTold

-----------------------------------------------------------------------------
(* The workflow of a run: what validation knows *)

Before(p) == Workflow!Knowledge(workflow)[<<p, "before">>]
Behind(p) == Workflow!Knowledge(workflow)[<<p, "behind">>]
Ends(d) == Workflow!Outs(workflow, Workflow!Knowledge(workflow), d)

Solved == Workflow!Accepted(workflow)
          /\ Workflow!Threaded(workflow, Workflow!Knowledge(workflow))

LEMMA Equations ==
  ASSUME Solved, NEW p \in DOMAIN workflow
  PROVE  /\ Before(p) = Workflow!Entering(workflow, Workflow!Knowledge(workflow), p)
         /\ Behind(p) = Workflow!Leaving(workflow, Workflow!Knowledge(workflow), p)
         /\ Workflow!Allowed(workflow, Workflow!Knowledge(workflow), p)
BY DEF Solved, Workflow!Accepted, Workflow!Threaded, Before, Behind

\* What was executed in one branch is enough for what is known behind the condition.
LEMMA JoinCovers ==
  ASSUME NEW c, NEW env, NEW outs, NEW k, NEW i \in DOMAIN outs, Covers(k, outs[i]),
         ~Workflow!HasLegacy => ~c.legacy /\ Workflow!SameTypes(outs)
  PROVE  Covers(k, Workflow!Joined(c, env, outs))
<1>. DEFINE j == Workflow!Joined(c, env, outs)
<1>1. DOMAIN j = {"possible", "waited", "nodes", "kinds"}
  BY DEF Workflow!Joined
<1>2. j.nodes \subseteq outs[i].nodes /\ j.kinds \subseteq outs[i].kinds
  BY DEF Workflow!Joined, Workflow!Meet
<1>3. ASSUME ~Workflow!HasLegacy
      PROVE  /\ j.waited => k.waited
             /\ \A n \in DOMAIN k.vars : n \in DOMAIN j.possible /\ k.vars[n] = j.possible[n]
  <2>1. ~c.legacy /\ Workflow!SameTypes(outs)
    BY <1>3
  <2>2. j.waited = (\A x \in DOMAIN outs : outs[x].waited)
    BY <2>1 DEF Workflow!Joined
  <2>3. j.possible = Workflow!Merged(outs)
    BY <2>1 DEF Workflow!Joined
  <2>. HIDE DEF j
  <2>4. j.waited => k.waited
    BY <1>3, <2>2 DEF Covers
  <2>5. ASSUME NEW n \in DOMAIN k.vars
        PROVE  n \in DOMAIN j.possible /\ k.vars[n] = j.possible[n]
    <3>1. n \in DOMAIN outs[i].possible /\ k.vars[n] = outs[i].possible[n]
      BY <1>3, <2>5 DEF Covers
    <3>. DEFINE x == CHOOSE x \in DOMAIN outs : n \in DOMAIN outs[x].possible
    <3>2. x \in DOMAIN outs /\ n \in DOMAIN outs[x].possible
      BY <3>1
    <3>3. n \in UNION {DOMAIN outs[y].possible : y \in DOMAIN outs}
      BY <3>1
    <3>4. n \in DOMAIN j.possible /\ j.possible[n] = outs[x].possible[n]
      BY <2>3, <3>3 DEF Workflow!Merged
    <3>. HIDE DEF x
    <3>5. outs[x].possible[n] = outs[i].possible[n]
      BY <2>1, <3>1, <3>2 DEF Workflow!SameTypes
    <3>. QED BY <3>1, <3>4, <3>5
  <2>. QED BY <2>4, <2>5
<1>. HIDE DEF j
<1>4. Covers(k, j)
  BY <1>1, <1>2, <1>3 DEF Covers
<1>. QED BY <1>4 DEF j

\* The last step of a branch.
LEMMA LastIs ==
  ASSUME Tree, NEW f \in DOMAIN workflow, Len(f) > 1, Workflow!NextOf(f) \notin DOMAIN workflow
  PROVE  LET d == Workflow!Parent(f)
             i == f[Len(f) - 1]
         IN /\ d \in DOMAIN workflow /\ Len(d) = Len(f) - 2 /\ Agree(d, f, Len(d))
            /\ workflow[d].kind = "condition" /\ i \in DOMAIN workflow[d].branches
            /\ Workflow!Child(d, i) \in DOMAIN workflow
            /\ Workflow!LastIn(workflow, d, i) = f
<1>. DEFINE d == Workflow!Parent(f)
            i == f[Len(f) - 1]
<1>1. f \in Positions /\ Len(f) \in Nat /\ Len(f) >= 3 /\ Len(f) % 2 = 1
  BY Placed
<1>2. d \in Positions /\ Len(d) = Len(f) - 2 /\ Agree(d, f, Len(d))
  <2>1. Len(f) - 2 \in 1 .. Len(f)
    BY <1>1
  <2>. QED BY <1>1, <2>1, Beginning DEF Workflow!Parent
<1>3. i \in Nat \ {0} /\ f[Len(f)] \in Nat \ {0}
  BY <1>1 DEF Positions
<1>. HIDE DEF d, i
<1>4. d \in DOMAIN workflow /\ workflow[d].kind = "condition" /\ i \in DOMAIN workflow[d].branches
  <2>1. Len(d) \in 1 .. Len(f) /\ Len(d) % 2 = 1 /\ d # f /\ Len(d) + 1 = Len(f) - 1
    BY <1>1, <1>2
  <2>2. d \in Workflow!Enclosing(f)
    BY <1>1, <1>2, <2>1, IsAround
  <2>. QED BY <2>1, <2>2, Placed DEF i
<1>5. Workflow!Child(d, i) \in DOMAIN workflow
  <2>. DEFINE x == Workflow!Child(d, i)
              y == Workflow!Sibling(f, 1)
  <2>1. x \in Positions /\ Len(x) = Len(d) + 2 /\ Agree(x, d, Len(d)) /\ x[Len(d) + 1] = i
        /\ x[Len(d) + 2] = 1
    BY <1>2, <1>3, ChildIs
  <2>2. y \in Positions /\ Len(y) = Len(f) /\ y[Len(f)] = 1
        /\ \A n \in 1 .. Len(f) - 1 : y[n] = f[n]
    BY <1>1 DEF Positions, Workflow!Sibling
  <2>3. y \in DOMAIN workflow
    BY <1>3, Placed
  <2>. HIDE DEF x, y
  <2>4. Agree(x, y, Len(x))
    <3>. SUFFICES ASSUME NEW n \in 1 .. Len(f) PROVE x[n] = y[n]
      BY <1>1, <1>2, <2>1 DEF Agree
    <3>1. CASE n = Len(f)
      BY <1>1, <1>2, <2>1, <2>2, <3>1
    <3>2. CASE n = Len(f) - 1
      BY <1>1, <1>2, <2>1, <2>2, <3>2 DEF i
    <3>3. CASE n \in 1 .. Len(f) - 2
      <4>1. x[n] = d[n] /\ d[n] = f[n]
        BY <1>2, <2>1, <3>3 DEF Agree
      <4>2. y[n] = f[n]
        BY <1>1, <2>2, <3>3
      <4>. QED BY <4>1, <4>2
    <3>. QED BY <1>1, <3>1, <3>2, <3>3
  <2>. QED BY <1>1, <1>2, <2>1, <2>2, <2>3, <2>4, SamePath DEF x
<1>6. Workflow!LastIn(workflow, d, i) = f
  <2>. DEFINE P(q) == /\ Len(q) = Len(d) + 2 /\ SubSeq(q, 1, Len(d) + 1) = Append(d, i)
                      /\ Workflow!NextOf(q) \notin DOMAIN workflow
  <2>1. SubSeq(f, 1, Len(d) + 1) = Append(d, i)
    <3>. DEFINE a == SubSeq(f, 1, Len(d) + 1)
                b == Append(d, i)
    <3>1. Len(d) + 1 \in 1 .. Len(f)
      BY <1>1, <1>2
    <3>2. a \in Positions /\ Len(a) = Len(d) + 1 /\ Agree(a, f, Len(d) + 1)
      BY <1>1, <3>1, Beginning
    <3>3. b \in Positions /\ Len(b) = Len(d) + 1 /\ Agree(b, d, Len(d)) /\ b[Len(d) + 1] = i
      BY <1>2, <1>3 DEF Positions, Agree
    <3>. HIDE DEF a, b
    <3>4. Agree(a, b, Len(a))
      <4>. SUFFICES ASSUME NEW n \in 1 .. Len(d) + 1 PROVE a[n] = b[n]
        BY <3>2 DEF Agree
      <4>1. a[n] = f[n]
        BY <3>2 DEF Agree
      <4>2. CASE n = Len(d) + 1
        BY <1>1, <1>2, <3>3, <4>1, <4>2 DEF i
      <4>3. CASE n \in 1 .. Len(d)
        BY <1>2, <3>3, <4>1, <4>3 DEF Agree
      <4>. QED BY <1>1, <1>2, <4>2, <4>3
    <3>. QED BY <3>2, <3>3, <3>4, SamePath DEF a, b
  <2>2. P(f)
    BY <1>1, <1>2, <2>1
  <2>3. ASSUME NEW q \in DOMAIN workflow, P(q) PROVE q = f
    <3>1. q \in Positions /\ Len(q) = Len(f)
      BY <1>1, <1>2, <2>3, Placed
    <3>2. Agree(q, f, Len(f) - 1)
      <4>1. Len(d) + 1 \in Nat /\ Len(d) + 1 <= Len(q) /\ Len(d) + 1 <= Len(f)
            /\ Len(d) + 1 = Len(f) - 1
        BY <1>1, <1>2, <3>1
      <4>2. SubSeq(q, 1, Len(d) + 1) = SubSeq(f, 1, Len(d) + 1)
        BY <2>1, <2>3
      <4>. HIDE DEF P
      <4>. QED BY <1>1, <3>1, <4>1, <4>2, SameBeginning
    <3>3. ASSUME NEW u \in DOMAIN workflow, NEW v \in DOMAIN workflow, Len(u) = Len(f),
                 Len(v) = Len(f), Agree(u, v, Len(f) - 1), u[Len(f)] < v[Len(f)],
                 Workflow!NextOf(u) \notin DOMAIN workflow
          PROVE  FALSE
      <4>. DEFINE x == Workflow!NextOf(u)
                  y == Workflow!Sibling(v, u[Len(f)] + 1)
      <4>1. u \in Positions /\ v \in Positions /\ u[Len(f)] \in Nat \ {0} /\ v[Len(f)] \in Nat
        BY <1>1, <3>3, Placed DEF Positions
      <4>2. x \in Positions /\ Len(x) = Len(f) /\ Agree(x, u, Len(f) - 1)
            /\ x[Len(f)] = u[Len(f)] + 1
        BY <1>1, <3>3, <4>1, NextIs
      <4>3. y \in Positions /\ Len(y) = Len(f) /\ y[Len(f)] = u[Len(f)] + 1
            /\ \A n \in 1 .. Len(f) - 1 : y[n] = v[n]
        <5>1. u[Len(f)] + 1 \in Nat \ {0} /\ Len(f) \in 1 .. Len(v)
          BY <1>1, <3>3, <4>1
        <5>. QED BY <3>3, <4>1, <5>1 DEF Positions, Workflow!Sibling
      <4>4. u[Len(f)] + 1 \in 1 .. v[Len(v)]
        BY <3>3, <4>1
      <4>5. y \in DOMAIN workflow
        BY <4>4, Placed
      <4>. HIDE DEF x, y
      <4>6. Agree(x, y, Len(x))
        BY <1>1, <3>3, <4>2, <4>3 DEF Agree
      <4>7. x = y
        BY <4>2, <4>3, <4>6, SamePath
      <4>. QED BY <3>3, <4>5, <4>7 DEF x
    <3>4. q[Len(f)] = f[Len(f)]
      <4>1. q[Len(f)] \in Nat /\ f[Len(f)] \in Nat
        BY <1>1, <3>1 DEF Positions
      <4>2. Agree(f, q, Len(f) - 1)
        BY <3>2 DEF Agree
      <4>. QED BY <1>1, <2>3, <3>1, <3>2, <3>3, <4>1, <4>2
    <3>5. Agree(q, f, Len(q))
      BY <1>1, <3>1, <3>2, <3>4 DEF Agree
    <3>. QED BY <1>1, <3>1, <3>5, SamePath
  <2>4. Workflow!LastIn(workflow, d, i) = CHOOSE q \in DOMAIN workflow : P(q)
    BY DEF Workflow!LastIn
  <2>. HIDE DEF P
  <2>. QED BY <2>2, <2>3, <2>4
<1>. QED BY <1>2, <1>4, <1>5, <1>6 DEF d, i

LEMMA KnownNext ==
  ASSUME Tree, Solved, NEW e \in DOMAIN workflow,
         Workflow!NextOf(e) \in DOMAIN workflow
  PROVE  Before(Workflow!NextOf(e)) = Behind(e)
<1>. DEFINE b == Workflow!NextOf(e)
<1>1. e \in Positions /\ Len(e) \in Nat /\ Len(e) >= 1 /\ e[Len(e)] \in Nat \ {0}
  <2>1. e \in Positions /\ Len(e) \in Nat /\ Len(e) >= 1
    BY Placed
  <2>2. Len(e) \in 1 .. Len(e)
    BY <2>1
  <2>. QED BY <2>1, <2>2 DEF Positions
<1>2. b \in Positions /\ Len(b) = Len(e) /\ Agree(b, e, Len(e) - 1) /\ b[Len(e)] = e[Len(e)] + 1
  BY <1>1, NextIs
<1>3. b \in DOMAIN workflow
  OBVIOUS
<1>. HIDE DEF b
<1>4. Workflow!Last(b) = e[Len(e)] + 1
  BY <1>2 DEF Workflow!Last
<1>5. Workflow!Last(b) # 1 /\ Workflow!Last(b) - 1 = e[Len(e)]
  BY <1>1, <1>4
<1>6. b # <<1>>
  <2>1. <<1>>[Len(<<1>>)] = 1
    OBVIOUS
  <2>. QED BY <1>5, <2>1 DEF Workflow!Last
<1>7. Workflow!Sibling(b, e[Len(e)]) = e
  <2>. DEFINE y == Workflow!Sibling(b, e[Len(e)])
  <2>0. Len(e) \in 1 .. Len(b)
    BY <1>1, <1>2
  <2>1. y \in Positions /\ Len(y) = Len(e) /\ y[Len(e)] = e[Len(e)]
        /\ \A n \in 1 .. Len(e) - 1 : y[n] = b[n]
    BY <1>1, <1>2, <2>0 DEF Positions, Workflow!Sibling
  <2>. HIDE DEF y
  <2>2. Agree(y, e, Len(y))
    <3>. SUFFICES ASSUME NEW n \in 1 .. Len(e) PROVE y[n] = e[n]
      BY <2>1 DEF Agree
    <3>1. CASE n = Len(e)
      BY <2>1, <3>1
    <3>2. CASE n \in 1 .. Len(e) - 1
      BY <1>2, <2>1, <3>2 DEF Agree
    <3>. QED BY <1>1, <3>1, <3>2
  <2>3. y = e
    BY <1>1, <2>1, <2>2, SamePath
  <2>. QED BY <2>3 DEF y
<1>8. Before(b) = Workflow!Knowledge(workflow)[<<e, "behind">>]
  BY <1>3, <1>5, <1>6, <1>7, Equations DEF Workflow!Entering
<1>. QED BY <1>8 DEF b, Behind

LEMMA KnownInto ==
  ASSUME Tree, Solved, NEW d \in DOMAIN workflow, NEW i \in Nat \ {0},
         Workflow!Child(d, i) \in DOMAIN workflow
  PROVE  Before(Workflow!Child(d, i)) = Workflow!Within(workflow[d], Before(d))
<1>. DEFINE b == Workflow!Child(d, i)
<1>1. d \in Positions /\ Len(d) \in Nat /\ Len(d) >= 1
  BY Placed
<1>2. b \in Positions /\ Len(b) = Len(d) + 2 /\ Agree(b, d, Len(d)) /\ b[Len(d) + 2] = 1
  BY <1>1, ChildIs
<1>3. b \in DOMAIN workflow
  OBVIOUS
<1>. HIDE DEF b
<1>4. Workflow!Last(b) = 1 /\ b # <<1>>
  <2>1. Len(b) # Len(<<1>>)
    BY <1>1, <1>2
  <2>. QED BY <1>2, <2>1 DEF Workflow!Last
<1>5. Workflow!Parent(b) = d
  <2>. DEFINE y == SubSeq(b, 1, Len(b) - 2)
  <2>1. Len(d) \in 1 .. Len(b) /\ Len(b) - 2 = Len(d)
    BY <1>1, <1>2
  <2>2. y \in Positions /\ Len(y) = Len(d) /\ Agree(y, b, Len(d))
    BY <1>2, <2>1, Beginning
  <2>. HIDE DEF y
  <2>3. Agree(y, d, Len(y))
    BY <1>2, <2>2 DEF Agree
  <2>4. y = d
    BY <1>1, <2>2, <2>3, SamePath
  <2>. QED BY <2>4 DEF y, Workflow!Parent
<1>6. Before(b) = Workflow!Within(workflow[d], Workflow!Knowledge(workflow)[<<d, "before">>])
  BY <1>3, <1>4, <1>5, Equations DEF Workflow!Entering
<1>. QED BY <1>6 DEF b, Before

\* Behind the last steps of the branches around a step: what is known behind the step is enough
\* for what is known behind the conditions it ends.
LEMMA ClimbCovers ==
  ASSUME Tree, Solved, DOMAIN shown = DOMAIN workflow,
         NEW a \in DOMAIN workflow, NEW k, Covers(k, Behind(a)),
         NEW e \in Workflow!Enclosing(a),
         \A f \in Workflow!Enclosing(a) : Workflow!NextOf(f) \in DOMAIN shown => Len(f) <= Len(e)
  PROVE  e \in DOMAIN workflow /\ Covers(k, Behind(e))
<1>. DEFINE T == {n \in Nat : \E f \in Workflow!Enclosing(a) :
                                Len(f) = n /\ Len(e) <= n /\ Covers(k, Behind(f))}
<1>1. a \in Positions /\ Len(a) \in Nat /\ a \in Workflow!Enclosing(a)
  BY Placed
<1>2. \A f \in Workflow!Enclosing(a) :
        /\ f \in Positions /\ Len(f) \in 1 .. Len(a) /\ Len(f) \in Nat /\ Len(f) >= 1
        /\ Len(f) % 2 = 1 /\ Agree(f, a, Len(f)) /\ f \in DOMAIN workflow
  BY <1>1, Around, Placed
<1>3. T \subseteq Nat /\ T # {}
  <2>1. Len(a) \in T
    BY <1>1, <1>2
  <2>. QED BY <2>1
<1>4. PICK n \in T : \A m \in T : n <= m
  BY <1>3, LeastNat
<1>5. PICK f \in Workflow!Enclosing(a) : Len(f) = n /\ Len(e) <= n /\ Covers(k, Behind(f))
  BY <1>4
<1>6. CASE Len(f) = Len(e)
  <2>1. Agree(f, e, Len(f))
    BY <1>2, <1>6 DEF Agree
  <2>2. f = e
    BY <1>2, <1>6, <2>1, SamePath
  <2>. QED BY <1>2, <1>5, <2>2
<1>7. CASE Len(f) # Len(e)
  <2>1. Len(f) > Len(e) /\ Len(f) >= Len(e) + 2 /\ Len(f) > 1
    BY <1>2, <1>5, <1>7
  <2>2. Workflow!NextOf(f) \notin DOMAIN workflow
    BY <1>2, <2>1
  <2>. DEFINE d == Workflow!Parent(f)
              i == f[Len(f) - 1]
  <2>3. /\ d \in DOMAIN workflow /\ Len(d) = Len(f) - 2 /\ Agree(d, f, Len(d))
        /\ workflow[d].kind = "condition" /\ i \in DOMAIN workflow[d].branches
        /\ Workflow!Child(d, i) \in DOMAIN workflow
        /\ Workflow!LastIn(workflow, d, i) = f
    BY <1>2, <2>1, <2>2, LastIs
  <2>. HIDE DEF d, i
  <2>4. i \in DOMAIN Ends(d) /\ Ends(d)[i] = Behind(f)
    BY <2>3 DEF Ends, Behind, Workflow!Outs
  <2>5. ~Workflow!HasLegacy => ~workflow[d].legacy /\ Workflow!SameTypes(Ends(d))
    BY <2>3, Equations DEF Workflow!HasLegacy, Workflow!Paths, Workflow!Allowed,
       Workflow!AllowedV2, Ends
  <2>6. Covers(k, Workflow!Joined(workflow[d], Before(d), Ends(d)))
    BY <1>5, <2>4, <2>5, JoinCovers
  <2>7. Behind(d) = Workflow!Joined(workflow[d], Before(d), Ends(d))
    BY <2>3, Equations DEF Workflow!Leaving, Before, Ends
  <2>8. d \in Workflow!Enclosing(a)
    <3>1. d \in Positions /\ Len(d) \in Nat /\ Len(d) >= 1 /\ Len(d) % 2 = 1
      BY <2>3, Placed
    <3>2. Len(d) \in 1 .. Len(a)
      BY <1>1, <1>2, <2>3, <3>1
    <3>3. Agree(d, a, Len(d))
      BY <1>2, <2>3, <3>1 DEF Agree
    <3>. QED BY <1>1, <3>1, <3>2, <3>3, IsAround
  <2>9. Len(d) \in T
    BY <1>2, <2>1, <2>3, <2>6, <2>7, <2>8
  <2>10. n <= Len(d)
    BY <1>4, <2>9
  <2>. QED BY <1>2, <1>5, <2>3, <2>10
<1>. QED BY <1>6, <1>7

LEMMA AfterCovers ==
  ASSUME Tree, Solved, DOMAIN shown = DOMAIN workflow,
         NEW a \in DOMAIN workflow, NEW k, Covers(k, Behind(a)), Workflow!After(a) # <<>>
  PROVE  Covers(k, Before(Workflow!After(a)))
<1>1. a \in Positions
  BY Placed
<1>2. PICK e \in Workflow!Enclosing(a) :
        /\ Workflow!After(a) = Workflow!NextOf(e) /\ Workflow!NextOf(e) \in DOMAIN shown
        /\ \A f \in Workflow!Enclosing(a) :
             Workflow!NextOf(f) \in DOMAIN shown => Len(f) <= Len(e)
  BY <1>1, AfterIs
<1>3. e \in DOMAIN workflow /\ Covers(k, Behind(e))
  BY <1>2, ClimbCovers
<1>. QED BY <1>2, <1>3, KnownNext

\* What a plain step does is enough for what is known behind it.
LEMMA SendCovers ==
  ASSUME NEW s, s.kind = "send", NEW env, NEW c, Covers(c, env)
  PROVE  Covers([c EXCEPT !.message = TRUE], Workflow!Effect(s, env))
<1>1. Workflow!Effect(s, env) = env
  BY DEF Workflow!Effect
<1>. DEFINE k == [c EXCEPT !.message = TRUE]
<1>2. DOMAIN k = DOMAIN c /\ k.vars = c.vars /\ k.waits = c.waits /\ k.https = c.https
      /\ k.waited = c.waited /\ k.fetched = c.fetched
  BY DEF Covers
<1>. HIDE DEF k
<1>3. Covers(k, env)
  BY <1>2 DEF Covers
<1>. QED BY <1>1, <1>3 DEF k

LEMMA WaitCovers ==
  ASSUME NEW s, s.kind = "wait", NEW env, NEW c, Covers(c, env)
  PROVE  Covers([c EXCEPT !.message = TRUE, !.waited = TRUE, !.waits = @ \cup {s.id}],
                Workflow!Effect(s, env))
<1>. DEFINE k == [c EXCEPT !.message = TRUE, !.waited = TRUE, !.waits = @ \cup {s.id}]
            f == Workflow!Effect(s, env)
<1>1. DOMAIN k = DOMAIN c /\ k.vars = c.vars /\ k.waits = c.waits \cup {s.id}
      /\ k.https = c.https /\ k.waited = TRUE /\ k.fetched = c.fetched
  BY DEF Covers
<1>2. f = [env EXCEPT !.waited = @ \/ s.kind = "wait", !.kinds = @ \cup {s.kind},
                      !.nodes = @ \cup ({<<s.id, s.kind>>} \ {<<Workflow!NoId, s.kind>>})]
  BY DEF Workflow!Effect
<1>. HIDE DEF k, f
<1>3. DOMAIN f = DOMAIN env /\ f.possible = env.possible /\ f.kinds = env.kinds \cup {"wait"}
  BY <1>2 DEF Covers
<1>4. f.nodes \subseteq env.nodes \cup {<<s.id, "wait">>}
  BY <1>2 DEF Covers
<1>5. "wait" # "http"
  OBVIOUS
<1>6. \A x \in f.nodes : /\ x[2] = "wait" => x[1] \in k.waits
                         /\ x[2] = "http" => x[1] \in k.https
  <2>. SUFFICES ASSUME NEW x \in f.nodes
                PROVE  /\ x[2] = "wait" => x[1] \in k.waits
                       /\ x[2] = "http" => x[1] \in k.https
    OBVIOUS
  <2>1. CASE x \in env.nodes
    BY <1>1, <2>1 DEF Covers
  <2>2. CASE x = <<s.id, "wait">>
    BY <1>1, <1>5, <2>2
  <2>. QED BY <1>4, <2>1, <2>2
<1>7. Covers(k, f)
  BY <1>1, <1>3, <1>5, <1>6 DEF Covers
<1>. QED BY <1>7 DEF k, f

LEMMA HttpCovers ==
  ASSUME NEW s, s.kind = "http", NEW env, NEW c, Covers(c, env)
  PROVE  Covers([c EXCEPT !.fetched = TRUE, !.https = @ \cup {s.id}], Workflow!Effect(s, env))
<1>. DEFINE k == [c EXCEPT !.fetched = TRUE, !.https = @ \cup {s.id}]
            f == Workflow!Effect(s, env)
<1>1. DOMAIN k = DOMAIN c /\ k.vars = c.vars /\ k.https = c.https \cup {s.id}
      /\ k.waits = c.waits /\ k.waited = c.waited /\ k.fetched = TRUE
  BY DEF Covers
<1>2. f = [env EXCEPT !.waited = @ \/ s.kind = "wait", !.kinds = @ \cup {s.kind},
                      !.nodes = @ \cup ({<<s.id, s.kind>>} \ {<<Workflow!NoId, s.kind>>})]
  BY DEF Workflow!Effect
<1>. HIDE DEF k, f
<1>3. DOMAIN f = DOMAIN env /\ f.possible = env.possible /\ f.kinds = env.kinds \cup {"http"}
  BY <1>2 DEF Covers
<1>4. f.nodes \subseteq env.nodes \cup {<<s.id, "http">>}
  BY <1>2 DEF Covers
<1>5. "wait" # "http"
  OBVIOUS
<1>6. f.waited => env.waited
  BY <1>2, <1>5 DEF Covers
<1>7. \A x \in f.nodes : /\ x[2] = "wait" => x[1] \in k.waits
                         /\ x[2] = "http" => x[1] \in k.https
  <2>. SUFFICES ASSUME NEW x \in f.nodes
                PROVE  /\ x[2] = "wait" => x[1] \in k.waits
                       /\ x[2] = "http" => x[1] \in k.https
    OBVIOUS
  <2>1. CASE x \in env.nodes
    BY <1>1, <2>1 DEF Covers
  <2>2. CASE x = <<s.id, "http">>
    BY <1>1, <1>5, <2>2
  <2>. QED BY <1>4, <2>1, <2>2
<1>8. Covers(k, f)
  BY <1>1, <1>3, <1>5, <1>6, <1>7 DEF Covers
<1>. QED BY <1>8 DEF k, f

LEMMA ExtractCovers ==
  ASSUME NEW s, s.kind = "extract", NEW env, NEW c, Covers(c, env)
  PROVE  Covers([c EXCEPT !.vars = Workflow!Put(@, s.name, s.type)], Workflow!Effect(s, env))
<1>. DEFINE k == [c EXCEPT !.vars = Workflow!Put(@, s.name, s.type)]
            f == Workflow!Effect(s, env)
<1>1. DOMAIN k = DOMAIN c /\ k.vars = Workflow!Put(c.vars, s.name, s.type)
      /\ k.https = c.https /\ k.waits = c.waits /\ k.waited = c.waited /\ k.fetched = c.fetched
  BY DEF Covers
<1>2. f = [env EXCEPT !.possible = Workflow!Put(@, s.name, s.type)]
  BY DEF Workflow!Effect
<1>. HIDE DEF k, f
<1>3. DOMAIN f = DOMAIN env /\ f.possible = Workflow!Put(env.possible, s.name, s.type)
      /\ f.kinds = env.kinds /\ f.nodes = env.nodes /\ f.waited = env.waited
  BY <1>2 DEF Covers
<1>4. ASSUME ~Workflow!HasLegacy, NEW n \in DOMAIN k.vars
      PROVE  n \in DOMAIN f.possible /\ k.vars[n] = f.possible[n]
  <2>1. DOMAIN k.vars = DOMAIN c.vars \cup {s.name}
        /\ DOMAIN f.possible = DOMAIN env.possible \cup {s.name}
    BY <1>1, <1>3 DEF Workflow!Put
  <2>2. n # s.name => n \in DOMAIN env.possible /\ c.vars[n] = env.possible[n]
    BY <1>4, <2>1 DEF Covers
  <2>3. k.vars[n] = IF n = s.name THEN s.type ELSE c.vars[n]
    BY <1>1, <1>4, <2>1 DEF Workflow!Put
  <2>4. n \in DOMAIN f.possible
    BY <2>1, <2>2
  <2>5. f.possible[n] = IF n = s.name THEN s.type ELSE env.possible[n]
    BY <1>3, <2>1, <2>4 DEF Workflow!Put
  <2>. QED BY <2>2, <2>3, <2>4, <2>5
<1>5. Covers(k, f)
  BY <1>1, <1>3, <1>4 DEF Covers
<1>. QED BY <1>5 DEF k, f

\* What a condition extracts is enough for what is known in its branches.
LEMMA WithinCovers ==
  ASSUME NEW s, NEW env, NEW c, Covers(c, env), ~Workflow!HasLegacy => ~s.legacy,
         NEW got, got \subseteq Workflow!Names(s.extracts)
  PROVE  Covers([c EXCEPT !.vars = Workflow!Extend(@, s.extracts, got)],
                Workflow!Within(s, env))
<1>. DEFINE k == [c EXCEPT !.vars = Workflow!Extend(@, s.extracts, got)]
            f == Workflow!Within(s, env)
            X == Workflow!Names(s.extracts)
<1>1. DOMAIN k = DOMAIN c /\ k.vars = Workflow!Extend(c.vars, s.extracts, got)
      /\ k.https = c.https /\ k.waits = c.waits /\ k.waited = c.waited /\ k.fetched = c.fetched
  BY DEF Covers
<1>2. DOMAIN f = DOMAIN env /\ f.kinds = env.kinds /\ f.nodes = env.nodes
  <2>1. CASE s.legacy
    BY <2>1 DEF Workflow!Within, Covers
  <2>2. CASE ~s.legacy
    BY <2>2 DEF Workflow!Within, Covers
  <2>. QED BY <2>1, <2>2
<1>3. ~s.legacy => /\ f.waited = env.waited
                   /\ f.possible = Workflow!Extend(env.possible, s.extracts, X)
  BY DEF Workflow!Within, Workflow!Declared, Covers
<1>4. got \subseteq X
  OBVIOUS
<1>. HIDE DEF k, f, X
<1>5. ASSUME ~Workflow!HasLegacy, NEW n \in DOMAIN k.vars
      PROVE  n \in DOMAIN f.possible /\ k.vars[n] = f.possible[n]
  <2>1. DOMAIN k.vars = (DOMAIN c.vars \ X) \cup got
        /\ DOMAIN f.possible = (DOMAIN env.possible \ X) \cup X
    BY <1>1, <1>3, <1>5 DEF Workflow!Extend, X
  <2>2. n \notin X => n \in DOMAIN env.possible /\ c.vars[n] = env.possible[n]
    BY <1>4, <1>5, <2>1 DEF Covers
  <2>3. k.vars[n] = IF n \in got THEN Workflow!TypeOf(s.extracts, n) ELSE c.vars[n]
    BY <1>1, <1>5, <2>1 DEF Workflow!Extend, X
  <2>4. n \in DOMAIN f.possible
    BY <2>1, <2>2
  <2>5. f.possible[n] = IF n \in X THEN Workflow!TypeOf(s.extracts, n) ELSE env.possible[n]
    BY <1>3, <1>5, <2>1, <2>4 DEF Workflow!Extend, X
  <2>6. n \in X => n \in got
    BY <1>5, <2>1
  <2>. QED BY <1>4, <2>2, <2>3, <2>4, <2>5, <2>6
<1>6. Covers(k, f)
  BY <1>1, <1>2, <1>3, <1>5 DEF Covers
<1>. QED BY <1>6 DEF k, f

Running == Solved /\ Told /\ Validated

LEMMA BeginCovers ==
  ASSUME Tree, Solved
  PROVE  Covers(Workflow!FreshContext, Before(<<1>>))
<1>1. <<1>> \in DOMAIN workflow
  BY First
<1>2. Before(<<1>>) = Workflow!Fresh
  BY <1>1, Equations DEF Workflow!Entering
<1>. DEFINE k == Workflow!FreshContext
            f == Workflow!Fresh
<1>3. DOMAIN k = {"vars", "waits", "https", "waited", "fetched", "message"} /\ DOMAIN k.vars = {}
  BY DEF Workflow!FreshContext, Workflow!Nothing
<1>4. DOMAIN f = {"possible", "waited", "nodes", "kinds"} /\ f.nodes = {} /\ f.kinds = {}
      /\ f.waited = FALSE
  BY DEF Workflow!Fresh
<1>. HIDE DEF k, f
<1>5. Covers(k, f)
  BY <1>3, <1>4 DEF Covers
<1>. QED BY <1>2, <1>5 DEF k, f

LEMMA OnwardCovers ==
  ASSUME Running, runPhase = "running", NEW k, Workflow!Succeed(k), Covers(k, Behind(stepAt)),
         Going'
  PROVE  /\ ctx' = k /\ why' = why /\ Covers(k, Before(stepAt'))
<1>1. stepAt' = Workflow!After(stepAt) /\ ctx' = k /\ why' = why
  BY DEF Workflow!Succeed, Workflow!GoOn
<1>2. Workflow!After(stepAt) # <<>>
  BY DEF Workflow!Succeed, Workflow!GoOn, Going
<1>3. stepAt \in DOMAIN workflow /\ DOMAIN shown = DOMAIN workflow
  BY Executing DEF Running
<1>. QED BY <1>1, <1>2, <1>3, AfterCovers DEF Running, Told

\* An accepted extraction finds its data source.
LEMMA SourceIsReady ==
  ASSUME Running, runPhase = "running", workflow[stepAt].kind = "extract"
  PROVE  Workflow!SourceReady(workflow[stepAt])
<1>. DEFINE s == workflow[stepAt]
            env == Before(stepAt)
<1>1. stepAt \in DOMAIN workflow
  BY Executing DEF Running
<1>2. s.source \in {"wait", "http"}
  BY <1>1 DEF Running, Told, Tree, Workflow!IsWorkflow, Workflow!IsStep
<1>3. Workflow!Available(s, env)
  BY <1>1, Equations DEF Running, Workflow!Allowed, Before
<1>4. Covers(ctx, env)
  BY DEF Running, Validated, Going, Before
<1>. SUFFICES Workflow!SourceReady(s)
  OBVIOUS
<1>. HIDE DEF s, env
<1>5. CASE s.from = Workflow!NoId
  <2>1. s.source \in env.kinds
    BY <1>3, <1>5 DEF Workflow!Available
  <2>. QED BY <1>2, <1>4, <1>5, <2>1 DEF Covers, Workflow!SourceReady
<1>6. CASE s.from # Workflow!NoId
  <2>1. <<s.from, s.source>> \in env.nodes
    BY <1>3, <1>6 DEF Workflow!Available
  <2>2. <<s.from, s.source>>[1] = s.from /\ <<s.from, s.source>>[2] = s.source
    OBVIOUS
  <2>3. /\ s.source = "wait" => s.from \in ctx.waits
        /\ s.source = "http" => s.from \in ctx.https
    BY <1>4, <2>1, <2>2 DEF Covers
  <2>. QED BY <1>2, <1>6, <2>3 DEF Workflow!SourceReady
<1>. QED BY <1>5, <1>6

LEMMA PlainValidated ==
  ASSUME Running, \/ Workflow!SendMessage \/ Workflow!WaitMessage \/ Workflow!ClickButton
                  \/ Workflow!HttpRequest \/ Workflow!ExtractVariable
  PROVE  /\ why' # "source"
         /\ Going' => Covers(ctx', Before(stepAt'))
<1>. DEFINE s == workflow[stepAt]
<1>1. runPhase = "running"
  BY DEF Workflow!SendMessage, Workflow!WaitMessage, Workflow!ClickButton, Workflow!HttpRequest,
     Workflow!ExtractVariable, Workflow!Handling
<1>2. stepAt \in DOMAIN workflow /\ why # "source" /\ Covers(ctx, Before(stepAt))
  BY <1>1, Executing DEF Running, Validated, Going, Before
<1>3. s.kind # "condition" => Behind(stepAt) = Workflow!Effect(s, Before(stepAt))
  BY <1>2, Equations DEF Running, Workflow!Leaving, Before
<1>4. ASSUME NEW r, r # "source", Workflow!Fail(r)
      PROVE  why' # "source" /\ ~Going'
  BY <1>4 DEF Workflow!Fail, Going
<1>5. ASSUME NEW k, Workflow!Succeed(k), Covers(k, Behind(stepAt))
      PROVE  why' # "source" /\ (Going' => Covers(ctx', Before(stepAt')))
  BY <1>1, <1>2, <1>5, OnwardCovers DEF Workflow!Succeed
<1>6. CASE Workflow!SendMessage
  <2>1. s.kind = "send"
    BY <1>6 DEF Workflow!SendMessage, Workflow!Handling, Workflow!Current
  <2>2. Covers([ctx EXCEPT !.message = TRUE], Behind(stepAt))
    BY <1>2, <1>3, <2>1, SendCovers
  <2>. QED BY <1>4, <1>5, <1>6, <2>2 DEF Workflow!SendMessage
<1>7. CASE Workflow!WaitMessage
  <2>1. s.kind = "wait"
    BY <1>7 DEF Workflow!WaitMessage, Workflow!Handling, Workflow!Current
  <2>2. Covers([ctx EXCEPT !.message = TRUE, !.waited = TRUE, !.waits = @ \cup {s.id}],
               Behind(stepAt))
    BY <1>2, <1>3, <2>1, WaitCovers
  <2>. QED BY <1>4, <1>5, <1>7, <2>2 DEF Workflow!WaitMessage, Workflow!Current
<1>8. CASE Workflow!ClickButton
  <2>1. s.kind = "click"
    BY <1>8 DEF Workflow!ClickButton, Workflow!Handling, Workflow!Current
  <2>2. Covers(ctx, Behind(stepAt))
    <3>1. s.kind \in {"send", "click"}
      BY <2>1
    <3>2. Workflow!Effect(s, Before(stepAt)) = Before(stepAt)
      BY <3>1 DEF Workflow!Effect
    <3>. QED BY <1>2, <1>3, <2>1, <3>2
  <2>. QED BY <1>4, <1>5, <1>8, <2>2 DEF Workflow!ClickButton
<1>9. CASE Workflow!HttpRequest
  <2>1. s.kind = "http"
    BY <1>9 DEF Workflow!HttpRequest, Workflow!Handling, Workflow!Current
  <2>2. Covers([ctx EXCEPT !.fetched = TRUE, !.https = @ \cup {s.id}], Behind(stepAt))
    BY <1>2, <1>3, <2>1, HttpCovers
  <2>. QED BY <1>4, <1>5, <1>9, <2>2 DEF Workflow!HttpRequest, Workflow!Current
<1>10. CASE Workflow!ExtractVariable
  <2>1. s.kind = "extract"
    BY <1>10 DEF Workflow!ExtractVariable, Workflow!Handling, Workflow!Current
  <2>2. Covers([ctx EXCEPT !.vars = Workflow!Put(@, s.name, s.type)], Behind(stepAt))
    BY <1>2, <1>3, <2>1, ExtractCovers
  <2>3. Workflow!SourceReady(s)
    BY <1>1, <2>1, SourceIsReady
  <2>. QED BY <1>4, <1>5, <1>10, <2>2, <2>3 DEF Workflow!ExtractVariable, Workflow!Current
<1>. QED BY <1>6, <1>7, <1>8, <1>9, <1>10

LEMMA ConditionValidated ==
  ASSUME Running, Workflow!Condition
  PROVE  /\ why' # "source"
         /\ Going' => Covers(ctx', Before(stepAt'))
<1>. DEFINE s == workflow[stepAt]
<1>1. runPhase = "running" /\ s.kind = "condition"
  BY ConditionDoes
<1>2. stepAt \in DOMAIN workflow /\ why # "source" /\ Covers(ctx, Before(stepAt))
      /\ DOMAIN shown = DOMAIN workflow
  BY <1>1, Executing DEF Running, Validated, Going, Before
<1>3. CASE \E r \in {"extract", "rule"} : Workflow!Fail(r)
  BY <1>3 DEF Workflow!Fail, Going
<1>4. ASSUME NEW got, NEW i, Chosen(got, i)
      PROVE  why' # "source" /\ (Going' => Covers(ctx', Before(stepAt')))
  <2>. DEFINE c == Workflow!Child(stepAt, i)
              a == Workflow!After(stepAt)
  <2>1. why' # "source"
    BY <1>2, <1>4 DEF Chosen
  <2>2. ctx' = [ctx EXCEPT !.vars = Workflow!Extend(@, s.extracts, got)]
        /\ got \subseteq Workflow!Names(s.extracts) /\ i \in DOMAIN s.branches
    BY <1>4 DEF Chosen, Workflow!Extracted
  <2>3. ~Workflow!HasLegacy => ~s.legacy
    BY <1>1, <1>2 DEF Workflow!HasLegacy, Workflow!Paths
  <2>4. Covers(ctx', Workflow!Within(s, Before(stepAt)))
    BY <1>2, <2>2, <2>3, WithinCovers
  <2>5. i \in Nat \ {0}
    <3>1. Workflow!IsStep(s)
      BY <1>2 DEF Running, Told, Tree, Workflow!IsWorkflow
    <3>2. DOMAIN s.branches = 1 .. Len(s.branches) /\ Len(s.branches) \in Nat
      BY <1>1, <3>1 DEF Workflow!IsStep
    <3>. QED BY <2>2, <3>2
  <2>6. CASE c \in DOMAIN workflow
    <3>1. stepAt' = c
      BY <1>2, <1>4, <2>6 DEF Chosen, Workflow!GoOn, Workflow!Paths
    <3>2. Before(c) = Workflow!Within(s, Before(stepAt))
      BY <1>2, <2>5, <2>6, KnownInto DEF Running, Told
    <3>. QED BY <2>1, <2>4, <3>1, <3>2
  <2>7. CASE c \notin DOMAIN workflow
    <3>1. stepAt' = a /\ (a = <<>> => ~Going')
      BY <1>2, <1>4, <2>7 DEF Chosen, Workflow!GoOn, Workflow!Paths, Going
    <3>2. i \in DOMAIN Ends(stepAt)
          /\ Ends(stepAt)[i] = Workflow!Within(s, Before(stepAt))
      BY <2>2, <2>7 DEF Ends, Workflow!Outs, Before
    <3>3. ~Workflow!HasLegacy => ~s.legacy /\ Workflow!SameTypes(Ends(stepAt))
      BY <1>1, <1>2, <2>3, Equations DEF Running, Workflow!Allowed, Workflow!AllowedV2, Ends
    <3>. HIDE DEF s
    <3>4. Covers(ctx', Workflow!Joined(s, Before(stepAt), Ends(stepAt)))
      BY <2>4, <3>2, <3>3, JoinCovers
    <3>5. Behind(stepAt) = Workflow!Joined(s, Before(stepAt), Ends(stepAt))
      BY <1>1, <1>2, Equations DEF Running, Workflow!Leaving, Before, Ends, s
    <3>6. a # <<>> => Covers(ctx', Before(a))
      BY <1>2, <3>4, <3>5, AfterCovers DEF Running, Told
    <3>. QED BY <2>1, <3>1, <3>6
  <2>. QED BY <2>6, <2>7
<1>. QED BY <1>3, <1>4, ConditionDoes

LEMMA RunningInit == Workflow!Init => Running
<1>. SUFFICES ASSUME Workflow!Init PROVE Running
  OBVIOUS
<1>1. Solved
  BY ServicesAssumption DEF Workflow!Init, Workflow!WorkflowAssumption, Solved
<1>2. Validated
  BY DEF Workflow!Init, Workflow!Started, Validated, Going
<1>. QED BY <1>1, <1>2, ToldInit DEF Running

LEMMA RunningStep == Running /\ [Workflow!Next]_workflowVars => Running'
<1>. SUFFICES ASSUME Running, [Workflow!Next]_workflowVars PROVE Running'
  OBVIOUS
<1>1. Told'
  BY ToldStep DEF Running
<1>2. workflow' = workflow
  BY DEF Workflow!Next, Workflow!BeginAttempt, Workflow!Cancelled, Workflow!StartStep,
     Workflow!AskCancel, Workflow!Finalize, Workflow!SendMessage, Workflow!WaitMessage,
     Workflow!ClickButton, Workflow!HttpRequest, Workflow!ExtractVariable, Workflow!Condition,
     Workflow!Handling, workflowVars
<1>3. Workflow!Paths' = Workflow!Paths
  BY <1>1, <1>2 DEF Running, Told, Workflow!WorkflowTypeOK
<1>4. Workflow!HasLegacy' = Workflow!HasLegacy
  BY <1>2, <1>3 DEF Workflow!HasLegacy
<1>5. Solved'
  BY <1>2 DEF Running, Solved
<1>6. /\ why' # "source"
      /\ Going' => Covers(ctx', Before(stepAt'))
  <2>1. /\ why # "source"
        /\ Going => Covers(ctx, Before(stepAt))
    BY DEF Running, Validated, Before
  <2>2. CASE Workflow!BeginAttempt
    <3>1. ctx' = Workflow!FreshContext /\ why' \in {why, "other"}
          /\ (Going' => stepAt' = <<1>>)
      BY <2>2 DEF Workflow!BeginAttempt, Going
    <3>. QED BY <2>1, <3>1, BeginCovers DEF Running, Told
  <2>3. CASE Workflow!Cancelled \/ Workflow!Finalize
    BY <2>1, <2>3 DEF Workflow!Cancelled, Workflow!Finalize, Going
  <2>4. CASE Workflow!StartStep \/ Workflow!AskCancel \/ UNCHANGED workflowVars
    BY <2>1, <2>4 DEF Workflow!StartStep, Workflow!AskCancel, workflowVars, Going
  <2>5. CASE Workflow!Condition
    BY <2>5, ConditionValidated
  <2>. QED BY <2>2, <2>3, <2>4, <2>5, PlainValidated DEF Workflow!Next
<1>7. Validated'
  <2>1. Before(stepAt') = Workflow!Knowledge(workflow)'[<<stepAt, "before">>']
    BY <1>2 DEF Before
  <2>. QED BY <1>4, <1>6, <2>1 DEF Validated, Covers
<1>. QED BY <1>1, <1>5, <1>7 DEF Running

LEMMA RunningMeans ==
  Running => Workflow!WorkflowTypeOK /\ Workflow!ProgressTold /\ Workflow!SourcesPresent
             /\ Workflow!ConditionsReady
<1>. SUFFICES ASSUME Running
              PROVE  Workflow!SourcesPresent /\ Workflow!ConditionsReady
  BY ToldMeans DEF Running, Told
<1>1. Workflow!SourcesPresent
  BY DEF Running, Validated, Workflow!SourcesPresent
<1>2. Workflow!ConditionsReady
  <2>. DEFINE s == workflow[stepAt]
              env == Before(stepAt)
  <2>. SUFFICES ASSUME runPhase = "running", s.kind = "condition", ~Workflow!HasLegacy
                PROVE  /\ s.extracts # <<>> => ctx.waited
                       /\ \A b \in Workflow!Range(s.branches) : \A r \in Workflow!Range(b.rules) :
                            \A ref \in r :
                              ref.name \in DOMAIN ctx.vars => ctx.vars[ref.name] = ref.type
    BY DEF Workflow!ConditionsReady, Workflow!Current
  <2>1. stepAt \in DOMAIN workflow /\ DOMAIN shown = DOMAIN workflow
    BY Executing DEF Running
  <2>2. ~s.legacy
    BY <2>1 DEF Workflow!HasLegacy, Workflow!Paths
  <2>3. Workflow!AllowedV2(s, env, Ends(stepAt))
    BY <2>1, <2>2, Equations DEF Running, Workflow!Allowed, Before, Ends
  <2>4. Covers(ctx, env)
    BY DEF Running, Validated, Going, Before
  <2>. HIDE DEF s, env
  <2>5. s.extracts # <<>> => ctx.waited
    BY <2>3, <2>4 DEF Workflow!AllowedV2, Covers
  <2>6. ASSUME NEW b \in Workflow!Range(s.branches), NEW r \in Workflow!Range(b.rules),
               NEW ref \in r, ref.name \in DOMAIN ctx.vars
        PROVE  ctx.vars[ref.name] = ref.type
    <3>. DEFINE d == Workflow!Declared(env.possible, s.extracts)
                n == ref.name
    <3>1. n \in DOMAIN env.possible /\ ctx.vars[n] = env.possible[n]
      BY <2>4, <2>6 DEF Covers
    <3>2. Workflow!Knows(d, ref) /\ Workflow!Names(s.extracts) \cap DOMAIN env.possible = {}
      BY <2>3, <2>6 DEF Workflow!AllowedV2
    <3>3. d[n] = ref.type
      BY <3>2 DEF Workflow!Knows
    <3>4. d[n] = env.possible[n]
      BY <3>1, <3>2 DEF Workflow!Declared, Workflow!Extend
    <3>. QED BY <3>1, <3>3, <3>4
  <2>. QED BY <2>5, <2>6
<1>. QED BY <1>1, <1>2

-----------------------------------------------------------------------------
(* The services side by side *)

\* A step of the services is a step of each of them, or leaves it alone.
LEMMA SideBySide ==
  ASSUME [ServicesNext]_servicesVars
  PROVE  /\ [Login!Next]_loginVars /\ [Chats!Next]_chatsVars /\ [Wait!Next]_waitVars
         /\ [Workflow!Next]_workflowVars /\ [Schedule!Next]_scheduleVars /\ focus' = focus
BY DEF ServicesNext, RunnerSteps, LoginSteps, ChatsSteps, WaitSteps, WorkflowSteps, ScheduleSteps,
   servicesVars, loginVars, chatsVars, waitVars, workflowVars, scheduleVars

LEMMA AccountsHold == ServicesSpec => [](Logins /\ Borrowers)
<1>1. ServicesInit => Logins /\ Borrowers
  BY LoginsInit, BorrowersInit DEF ServicesInit
<1>2. Logins /\ Borrowers /\ [ServicesNext]_servicesVars => Logins' /\ Borrowers'
  BY SideBySide, LoginsStep, BorrowersStep
<1>. QED
  BY <1>1, <1>2, PTL DEF ServicesSpec

\* A login ends without a trace however it ends: a flow the manager knows is the
\* account's current one, and the client of any other is gone or being
\* disconnected (LoginFlowManager); every lease of the account's client belongs
\* to one request or download and is given back once (AccountDirectory).
THEOREM AccountsAreLeftClean == ServicesSpec => []AccountsLeaveNothing
<1>1. Logins /\ Borrowers => AccountsLeaveNothing
  BY LoginsRelease DEF Borrowers, AccountsLeaveNothing
<1>. QED
  BY <1>1, AccountsHold, PTL

LEMMA PursuitHolds == ServicesSpec => []Pursuit
<1>1. ServicesInit => Pursuit
  BY PursuitInit DEF ServicesInit
<1>2. Pursuit /\ [ServicesNext]_servicesVars => Pursuit'
  BY SideBySide, PursuitStep
<1>. QED
  BY <1>1, <1>2, PTL DEF ServicesSpec

\* A wait that ends because its time is up has overlooked no answer of the bot
\* that the history request returned or an event brought, in every interleaving
\* of events, look-back and pauses (_wait_for_message).
THEOREM RepliesAreNotMissed == ServicesSpec => []NoReplyMissed
<1>1. Pursuit => NoReplyMissed
  BY DEF Pursuit, Pursued, NoReplyMissed, Wait!NoReplyMissed
<1>. QED
  BY <1>1, PursuitHolds, PTL

LEMMA WorkflowHolds == ServicesSpec => [](focus = "workflow" => Running)
<1>1. ServicesInit => (focus = "workflow" => Running)
  BY RunningInit DEF ServicesInit
<1>2. (focus = "workflow" => Running) /\ [ServicesNext]_servicesVars
        => (focus = "workflow" => Running)'
  BY SideBySide, RunningStep
<1>. QED
  BY <1>1, <1>2, PTL DEF ServicesSpec

\* Whatever workflow validation.py accepts, and whichever way its conditions
\* take it, no extraction misses its data source and, without conditions of the
\* first format, every condition extracts after a wait and reads variables of
\* the types it was checked with (executor.py).
THEOREM AcceptedWorkflowsRun == ServicesSpec => []AcceptedRuns
<1>1. (focus = "workflow" => Running) => AcceptedRuns
  BY RunningMeans DEF AcceptedRuns
<1>. QED
  BY <1>1, WorkflowHolds, PTL

\* The progress of a finished run tells its last attempt and no other: what is
\* shown as done or failed was started by it, nothing is left pending or
\* running, one branch of a condition at most was taken (progress.py).
THEOREM ProgressTellsTheAttempt == ServicesSpec => []ProgressTold
<1>1. (focus = "workflow" => Running) => ProgressTold
  BY RunningMeans DEF ProgressTold
<1>. QED
  BY <1>1, WorkflowHolds, PTL

LEMMA ScheduleHolds == ServicesSpec => [](focus = "schedule" => Planned)
<1>1. ServicesInit => (focus = "schedule" => Planned)
  BY PlannedInit DEF ServicesInit
<1>2. (focus = "schedule" => Planned) /\ [ServicesNext]_servicesVars
        => (focus = "schedule" => Planned)'
  BY SideBySide, PlannedStep
<1>. QED
  BY <1>1, <1>2, PTL DEF ServicesSpec

\* The search for the next run misses no point that lies on its own day, for any
\* frequency, window, period and change of the clock by at most a day: what is armed is
\* the earliest one after the cutoff, and a random time lies in its window (schedule.py).
THEOREM EarliestOccurrenceIsArmed == ServicesSpec => []EarliestIsArmed
<1>1. (focus = "schedule" => Planned) => EarliestIsArmed
  BY PlannedMeans DEF EarliestIsArmed
<1>. QED
  BY <1>1, ScheduleHolds, PTL

\* The components keep their types, for any flows, requests, photos, messages,
\* workflows and schedules.
THEOREM ServicesTypeCorrect == ServicesSpec => []ServicesTypeOK
<1>1. /\ Logins /\ Borrowers /\ Pursuit
      /\ focus = "workflow" => Running
      /\ focus = "schedule" => Planned
      => ServicesTypeOK
  BY RunningMeans, PlannedMeans DEF Logins, Borrowers, Pursuit, ServicesTypeOK
<1>. QED
  BY <1>1, AccountsHold, PursuitHolds, WorkflowHolds, ScheduleHolds, PTL
=============================================================================
