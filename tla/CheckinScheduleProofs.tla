----------------------- MODULE CheckinScheduleProofs -----------------------
(***************************************************************************)
(* Theorems about planned occurrences: an occurrence is executed at most   *)
(* once, its timer is there when it is needed, and the schedule does not   *)
(* move past it silently.  What the environment must not do for each of    *)
(* them is a condition on Events; TLC shows that the conditions are needed.*)
(***************************************************************************)
EXTENDS CheckinStateProofs

\* APScheduler's one instance of a task's job: a live scheduled run.
Instance(r, t) == row[r].task = t /\ row[r].kind = "scheduled" /\ Live(r)

\* A task has one instance at a time, the submitted callback included.
OneInstance ==
  \A t \in Tasks, r, s \in Runs :
    Instance(r, t) => cb[t] = None /\ (Instance(s, t) => r = s)

\* Run r will, at its end, move its task past the occurrence it was started for.
InProgress(r, t) ==
  /\ row[r].task = t /\ row[r].kind = "scheduled" /\ co[r].phase \in Early
  /\ row[r].planned = task[t].next
  /\ ~co[r].stale /\ co[r].snap = task[t].draft

\* What every state satisfies, whatever the environment does.
Common ==
  /\ Typed /\ DueCallbacks /\ NeverEarly
  /\ Planned /\ Armed /\ Down /\ Stages /\ Queuers /\ OneInstance

\* OneInstance is inductive: a callback is submitted only when no instance
\* runs, and a run begins only out of its callback.
LEMMA OneInstanceStep ==
  ASSUME Typed, Down, Stages, OneInstance, StepKinds
  PROVE  OneInstance'
<1>0. /\ cb \in [Tasks -> Occ \cup {None}] /\ None \notin Occ
      /\ \A r \in Runs : \A t : Instance(r, t) => row[r].status # None
  BY ConstAssumption DEF Typed, TypeOK, Occ, Instance, LiveRuns
<1>1. ASSUME \A t \in Tasks : cb'[t] \in {cb[t], None},
             \A r \in Runs, t \in Tasks : Instance(r, t)' => Instance(r, t)
      PROVE  OneInstance'
  BY <1>1 DEF OneInstance
<1>2. ASSUME NEW s \in Runs, row'[s] = row[s], Live(s)' => Live(s)
      PROVE  \A t \in Tasks : Instance(s, t)' => Instance(s, t)
  BY <1>2 DEF Instance
<1>3. ASSUME NEW r \in Runs, Moves(r) PROVE OneInstance'
  <2>1. row' = row /\ cb' = cb /\ \A s \in Runs : Live(s)' => Live(s)
    BY <1>3 DEF Moves, Down, Live
  <2>. QED
    BY <1>1, <1>2, <2>1
<1>4. ASSUME NEW r \in Runs, NEW status \in Outcomes, Settles(r, status) PROVE OneInstance'
  <2>1. \A s \in Runs : Live(s)' => Live(s)
    BY <1>4, SettleEffect DEF Settles, Live
  <2>. QED
    BY <1>1, <1>4, <2>1, SettleEffect DEF Settles, Instance
<1>5. ASSUME NEW t \in Tasks, Fire(t) PROVE OneInstance'
  <2>1. UNCHANGED <<row, co>>
    BY <1>5 DEF Fire, db
  <2>2. CASE InstanceBusy(t)
    BY <1>1, <1>5, <2>1, <2>2 DEF Fire, Instance, Live
  <2>3. CASE ~InstanceBusy(t)
    <3>1. \A r \in Runs : ~Instance(r, t)
      BY <2>3 DEF InstanceBusy, Instance
    <3>2. \A u \in Tasks \ {t} : cb'[u] = cb[u]
      BY <1>0, <1>5, <2>3 DEF Fire
    <3>. QED
      BY <2>1, <3>1, <3>2 DEF OneInstance, Instance, Live
  <2>. QED
    BY <2>2, <2>3
<1>6. ASSUME NEW t \in Tasks, StaleCallback(t) PROVE OneInstance'
  BY <1>0, <1>1, <1>6 DEF StaleCallback, db, Instance, Live
<1>7. ASSUME NEW t \in Tasks, Creates(t) \/ Redrafts(t) \/ Rearms(t) \/ Retires(t)
      PROVE  OneInstance'
  BY <1>1, <1>7 DEF Creates, Redrafts, Rearms, Retires, Administers, Bumps, Instance, Live
<1>8. ASSUME NEW t \in Tasks, NEW r \in Runs, Starts(t, r) \/ SkipsBusy(t, r)
      PROVE  OneInstance'
  <2>1. /\ cb[t] # None /\ cb' = [cb EXCEPT ![t] = None] /\ row[r].status = None
        /\ OnlyRun(r) /\ row'[r].task = t
    <3>1. row'[r].task = t
      <4>1. CASE Starts(t, r)
        BY <4>1 DEF Starts, NewRow
      <4>2. CASE SkipsBusy(t, r)
        BY <4>2 DEF SkipsBusy, NewRow
      <4>. QED
        BY <1>8, <4>1, <4>2
    <3>. QED
      BY <1>8, <3>1 DEF Starts, SkipsBusy
  <2>2. \A s \in Runs : ~Instance(s, t)
    BY <2>1 DEF OneInstance
  <2>3. \A s \in Runs \ {r} : \A u : Instance(s, u)' = Instance(s, u)
    BY <2>1 DEF OnlyRun, Instance, Live
  <2>4. \A u \in Tasks \ {t} : ~Instance(r, u)'
    BY <2>1 DEF Instance
  <2>. QED
    BY <1>0, <2>1, <2>2, <2>3, <2>4 DEF OneInstance
<1>9. ASSUME NEW t \in Tasks, NEW r \in Runs, SkipsNext(t, r) PROVE OneInstance'
  <2>1. row'[r].kind = "skip"
    BY <1>9 DEF SkipsNext, NoRow
  <2>. QED
    BY <1>1, <1>9, <2>1 DEF SkipsNext, Bumps, Instance, Live
<1>10. ASSUME NEW t \in Tasks, NEW r \in Runs, NEW kind \in {"manual", "test"},
              Launches(t, r, kind)
       PROVE  OneInstance'
  <2>1. row'[r].kind = kind
    BY <1>10 DEF Launches, NewRow
  <2>. QED
    BY <1>1, <1>10, <2>1 DEF Launches, OnlyRun, Instance, Live
<1>11. CASE Cancels \/ Closes
  BY <1>1, <1>11 DEF Cancels, Closes, Signals, Instance, Live
<1>12. CASE Dies
  BY <1>1, <1>12 DEF Dies, Forget, db, Idle, Instance, Live
<1>13. CASE UNCHANGED <<row, co, cb>>
  BY <1>1, <1>13 DEF Instance, Live
<1>. QED
  BY <1>3, <1>4, <1>5, <1>6, <1>7, <1>8, <1>9, <1>10, <1>11, <1>12, <1>13
     DEF StepKinds, vars, db, timers, Start, Tick

LEMMA CommonHolds == Spec => []Common
<1>1. Init => OneInstance
  BY DEF Init, Idle, OneInstance, Instance, Live
<1>2. Typed /\ Down /\ Stages /\ OneInstance /\ [Next]_vars => OneInstance'
  BY Steps, OneInstanceStep
<1>. QED
  BY <1>1, <1>2, Typing, NoEarlyRun, Schedules, Bookkeeping, QueuersHold, PTL
     DEF Spec, Common

-----------------------------------------------------------------------------
(* An occurrence is executed at most once *)

\* A run of the occurrence that is still its task's next one is in progress
\* and will settle it.
Settling(r) ==
  (up = "up" /\ Executed(r) /\ row[r].planned = task[row[r].task].next) =>
    InProgress(r, row[r].task)

Consumption == \A r \in Runs : Settling(r)

\* What is common to the steps of a run: one in progress stays in progress or
\* settles, none comes into progress.
LEMMA ProgressStep ==
  ASSUME Common, up = "up", NEW r \in Runs, Moves(r), NEW s \in Runs, NEW t \in Tasks,
         InProgress(s, t)
  PROVE  InProgress(s, t)'
<1>1. row' = row /\ task'[t].next = task[t].next /\ task'[t].draft = task[t].draft
  BY DEF Moves, SameSchedule
<1>2. CASE s # r
  BY <1>1, <1>2 DEF Moves, InProgress
<1>3. CASE s = r
  <2>1. co[r] \in Coroutine
    BY DEF Common, Typed, TypeOK
  <2>2. CASE Begins(r)
    BY <1>1, <1>3, <2>1, <2>2 DEF Begins, InProgress, Early, Coroutine
  <2>3. CASE Proceeds(r)
    BY <1>1, <1>3, <2>3 DEF Proceeds, InProgress, Early
  <2>4. CASE Ends(r)
    <3>1. co[r].phase \in Early /\ ~Background(r)
      BY <1>3 DEF InProgress, Background
    <3>2. co[r].phase # "created" /\ (co[r].phase = "waiting" => co[r].sig = "no")
      BY <3>1 DEF Common, Stages, Stage, Queuers, Queuer
    <3>. QED
      BY <2>4, <3>1, <3>2 DEF Ends, Early
  <2>. QED
    BY <2>2, <2>3, <2>4 DEF Moves
<1>. QED
  BY <1>2, <1>3

\* A step that leaves everything a run in progress depends on alone.
LEMMA ProgressKept ==
  ASSUME NEW s \in Runs, NEW t \in Tasks, InProgress(s, t), row'[s] = row[s],
         co'[s].phase = co[s].phase, co'[s].snap = co[s].snap, co'[s].stale => co[s].stale,
         task'[t].next = task[t].next, task'[t].draft = task[t].draft
  PROVE  InProgress(s, t)'
BY DEF InProgress

LEMMA ConsumptionStep ==
  ASSUME "liveEdit" \notin Events, Common, Consumption, StepKinds
  PROVE  Consumption'
<1>. USE DEF Common
<1>0. /\ now \in Nat /\ None \notin Nat /\ None \notin Status
      /\ \A t \in Tasks : task[t].next \in Occ \cup {None}
      /\ \A s \in Runs : Executed(s) =>
           row[s].task \in Tasks /\ row[s].planned \in 1 .. now
  BY ConstAssumption DEF Typed, TypeOK, TaskRow, RowsComplete, NeverEarly, Executed
<1>1. ASSUME NEW s \in Runs, row'[s] = row[s], NEW after \in Occ \cup {None},
             task'[row[s].task].next \in {None, NextRunFor(after)}
      PROVE  Settling(s)'
  BY <1>0, <1>1, NextRunForLater DEF Settling, Executed
<1>2. ASSUME NEW s \in Runs, row'[s] = row[s], up = "up" \/ up' # "up",
             co'[s].phase = co[s].phase, co'[s].snap = co[s].snap, co'[s].stale => co[s].stale,
             Executed(s) => SameSchedule(row[s].task)
      PROVE  Settling(s)'
  BY <1>0, <1>2, ProgressKept DEF Consumption, Settling, SameSchedule, Executed
<1>3. ASSUME NEW t \in Tasks, NEW s \in Runs, row'[s] = row[s], up = "up" \/ up' # "up",
             co'[s] = co[s], Reschedules(t, NextRunFor(task[t].next))
      PROVE  Settling(s)'
  <2>1. CASE row[s].task = t
    BY <1>0, <1>1, <1>3, <2>1 DEF Reschedules
  <2>2. CASE row[s].task # t
    BY <1>0, <1>2, <1>3, <2>2 DEF Reschedules
  <2>. QED
    BY <2>1, <2>2
<1>4. ASSUME NEW r \in Runs, Moves(r) PROVE Consumption'
  <2>. SUFFICES ASSUME NEW s \in Runs, up' = "up", Executed(s)',
                       row'[s].planned = task'[row'[s].task].next
                PROVE  InProgress(s, row[s].task)'
    BY DEF Consumption, Settling
  <2>1. up = "up" /\ row' = row /\ Executed(s)
    BY <1>4 DEF Moves, Executed
  <2>2. row[s].task \in Tasks /\ task'[row[s].task].next = task[row[s].task].next
    BY <1>0, <1>4, <2>1 DEF Moves, SameSchedule
  <2>3. InProgress(s, row[s].task)
    BY <2>1, <2>2 DEF Consumption, Settling
  <2>. QED
    BY <1>4, <2>1, <2>2, <2>3, ProgressStep
<1>5. ASSUME NEW r \in Runs, NEW status \in Outcomes, Settles(r, status)
      PROVE  Consumption'
  <2>. DEFINE t == row[r].task
  <2>0. /\ t \in Tasks /\ Live(r) /\ up' = up
        /\ \A s \in Runs \ {r} : row'[s] = row[s] /\ co'[s] = co[s]
        /\ row'[r].task = t /\ row'[r].kind = row[r].kind
        /\ row'[r].planned = row[r].planned
        /\ row[r].status # None
    BY <1>5, SettleEffect DEF Settles, Typed, LiveRuns
  <2>1. CASE Consumes(r)
    <3>1. row[r].status \notin {None, "skipped"}
      BY <1>5, <2>0 DEF Settles, Stages, Stage, Early, Late, Outcomes
    <3>2. Executed(r)
      BY <2>1, <3>1 DEF Consumes, Executed
    <3>3. Settling(r)'
      <4>1. task'[t].next = NextRunFor(task[t].next) /\ task[t].next \in Occ \cup {None}
        BY <1>0, <2>0, <2>1 DEF Consumes, Reschedules
      <4>2. row[r].planned # task'[t].next
        BY <1>0, <3>2, <4>1, NextRunForLater
      <4>. QED
        BY <2>0, <4>2 DEF Settling
    <3>. QED
      BY <1>3, <2>0, <2>1, <3>3, <1>5 DEF Consumes, Consumption, Settles
  <2>2. CASE Stays(r)
    <3>1. \A s \in Runs \ {r} : Settling(s)'
      BY <1>0, <1>2, <2>0, <2>2 DEF Stays, SameSchedules
    <3>2. Settling(r)'
      <4>. SUFFICES ASSUME up' = "up", Executed(r)', row[r].planned = task'[t].next
                    PROVE  FALSE
        BY <2>0 DEF Settling
      <4>1. row[r].status \notin {None, "skipped"}
        BY <1>5, <2>0 DEF Settles, Stages, Stage, Early, Late, Outcomes
      <4>2. Executed(r) /\ row[r].planned = task[t].next
        BY <2>0, <2>2, <4>1 DEF Executed, Stays, SameSchedules, SameSchedule
      <4>3. InProgress(r, t) /\ task[t].next # None
        BY <1>0, <2>0, <4>2 DEF Consumption, Settling
      <4>4. task[t].enabled /\ ~task[t].archived
        BY <2>0, <4>3 DEF Planned
      <4>. QED
        BY <2>2, <4>3, <4>4 DEF Stays, InProgress
    <3>. QED
      BY <3>1, <3>2 DEF Consumption
  <2>. QED
    BY <1>5, <2>1, <2>2, SettleEffect
<1>6. ASSUME NEW t \in Tasks, Creates(t) PROVE Consumption'
  <2>1. ASSUME NEW s \in Runs PROVE Settling(s)'
    <3>1. CASE row[s].task = t
      BY <1>0, <1>1, <1>6, <3>1 DEF Creates
    <3>2. CASE row[s].task # t
      BY <1>0, <1>2, <1>6, <3>2 DEF Creates, SameSchedule
    <3>. QED
      BY <3>1, <3>2
  <2>. QED
    BY <2>1 DEF Consumption
<1>7. ASSUME NEW t \in Tasks, Administers(t),
             \/ Redrafts(t)
             \/ task'[t].next \in {None, NextRunFor(None)}
             \/ task'[t].next \in {None, NextRunFor(task[t].next)}
      PROVE  Consumption'
  <2>1. ASSUME NEW s \in Runs PROVE Settling(s)'
    <3>1. CASE row[s].task # t
      BY <1>0, <1>2, <1>7, <3>1 DEF Administers, Bumps, SameSchedule
    <3>2. CASE row[s].task = t /\ ~Redrafts(t)
      BY <1>0, <1>1, <1>7, <3>2 DEF Administers
    <3>3. CASE row[s].task = t /\ Redrafts(t) /\ ~task[t].enabled
      BY <1>0, <1>1, <3>3 DEF Redrafts, Administers
    <3>4. CASE row[s].task = t /\ Redrafts(t) /\ task[t].enabled
      <4>1. ~LiveRun(t)
        BY <3>4 DEF Redrafts
      <4>2. ~InProgress(s, t)
        BY <4>1 DEF LiveRun, InProgress, Live, Early
      <4>. QED
        BY <3>4, <4>2 DEF Redrafts, Administers, Consumption, Settling, Executed
    <3>. QED
      BY <3>1, <3>2, <3>3, <3>4
  <2>. QED
    BY <2>1 DEF Consumption
<1>8. ASSUME NEW t \in Tasks, Redrafts(t) \/ Rearms(t) \/ Retires(t)
      PROVE  Consumption'
  BY <1>7, <1>8 DEF Redrafts, Rearms, Retires
<1>9. ASSUME NEW t \in Tasks, NEW r \in Runs, Starts(t, r) PROVE Consumption'
  <2>0. up = "up" /\ row'[r].task = t /\ row'[r].kind = "scheduled" /\ row'[r].planned = task[t].next
    BY <1>9 DEF Starts, Down, NewRow
  <2>1. InProgress(r, t)'
    BY <1>9, <2>0 DEF Starts, InProgress, Early, SameSchedules, SameSchedule
  <2>2. \A s \in Runs \ {r} : Settling(s)'
    BY <1>0, <1>2, <1>9, <2>0 DEF Starts, OnlyRun, SameSchedules
  <2>. QED
    BY <2>0, <2>1, <2>2 DEF Consumption, Settling
<1>10. ASSUME NEW t \in Tasks, NEW r \in Runs, SkipsBusy(t, r) PROVE Consumption'
  <2>0. up = "up" /\ row'[r].status = "skipped"
    BY <1>10 DEF SkipsBusy, Down, NewRow
  <2>1. \A s \in Runs \ {r} : Settling(s)'
    BY <1>3, <1>10, <2>0 DEF SkipsBusy, OnlyRun
  <2>. QED
    BY <2>0, <2>1 DEF Consumption, Settling, Executed
<1>11. ASSUME NEW t \in Tasks, NEW r \in Runs, SkipsNext(t, r) PROVE Consumption'
  <2>0. row'[r].kind = "skip"
    BY <1>11 DEF SkipsNext, NoRow
  <2>1. ASSUME NEW s \in Runs \ {r} PROVE Settling(s)'
    <3>1. CASE row[s].task = t
      BY <1>0, <1>1, <1>11, <3>1 DEF SkipsNext, Reschedules
    <3>2. CASE row[s].task # t
      BY <1>0, <1>2, <1>11, <3>2 DEF SkipsNext, Reschedules, Bumps
    <3>. QED
      BY <3>1, <3>2
  <2>. QED
    BY <2>0, <2>1 DEF Consumption, Settling, Executed
<1>12. ASSUME NEW t \in Tasks, NEW r \in Runs, NEW kind \in {"manual", "test"},
              Launches(t, r, kind)
       PROVE  Consumption'
  <2>0. row'[r].kind = kind
    BY <1>12 DEF Launches, NewRow
  <2>1. \A s \in Runs \ {r} : Settling(s)'
    BY <1>0, <1>2, <1>12 DEF Launches, OnlyRun, SameSchedules
  <2>. QED
    BY <2>0, <2>1 DEF Consumption, Settling, Executed
<1>13. CASE Closes \/ Dies
  BY <1>13 DEF Closes, Dies, Forget, Consumption, Settling
<1>14. CASE Start
  <2>1. ASSUME NEW s \in Runs, Executed(s)
        PROVE  row[s].planned # task'[row[s].task].next
    <3>1. row[s].task \in Tasks /\ row[s].planned \in 1 .. now
      BY <1>0, <2>1
    <3>. QED
      BY <1>0, <1>14, <3>1, StartEffect, NextRunForLater DEF Planned
  <2>. QED
    BY <1>14, <2>1, StartEffect DEF Consumption, Settling, Executed
<1>15. CASE UNCHANGED <<task, row, co, up>>
  BY <1>15 DEF Consumption, Settling, Executed, InProgress
<1>16. CASE Cancels
  BY <1>0, <1>2, <1>16 DEF Cancels, Signals, Consumption
<1>. QED
  BY <1>4, <1>5, <1>6, <1>8, <1>9, <1>10, <1>11, <1>12, <1>13, <1>14, <1>15, <1>16
     DEF StepKinds, vars, db, timers, Fire, StaleCallback, Tick

\* Two executions of one occurrence are one run.
LEMMA ConsumedOnceStep ==
  ASSUME Common, Consumption, ConsumedOnce, StepKinds
  PROVE  ConsumedOnce'
<1>. USE DEF Common
<1>0. ASSUME NEW s \in Runs, Executed(s) PROVE row[s].status # None
  BY <1>0 DEF Executed
<1>1. ASSUME UNCHANGED row PROVE ConsumedOnce'
  BY <1>1 DEF ConsumedOnce, Executed
<1>2. ASSUME NEW r \in Runs, \A s \in Runs \ {r} : row'[s] = row[s],
             Executed(r)' => /\ Executed(r) /\ row'[r].task = row[r].task
                             /\ row'[r].planned = row[r].planned
      PROVE  ConsumedOnce'
  BY <1>2 DEF ConsumedOnce, Executed
<1>3. ASSUME NEW r \in Runs, NEW status \in Outcomes, Settles(r, status)
      PROVE  ConsumedOnce'
  <2>1. row[r].status \in Outcomes \cup {"running"}
    BY <1>3 DEF Settles, Stages, Stage, Early, Late
  <2>2. Executed(r)' => Executed(r)
    BY <1>3, <2>1, SettleEffect, ConstAssumption DEF Executed, Outcomes, Status
  <2>. QED
    BY <1>2, <1>3, <2>2, SettleEffect
<1>4. ASSUME NEW t \in Tasks, NEW r \in Runs, Starts(t, r) PROVE ConsumedOnce'
  <2>1. /\ up = "up" /\ row'[r].task = t /\ row'[r].planned = task[t].next
        /\ \A s \in Runs \ {r} : row'[s] = row[s]
    BY <1>4 DEF Starts, Down, NewRow, OnlyRun
  <2>2. ASSUME NEW s \in Runs \ {r}, Executed(s), row[s].task = t,
               row[s].planned = task[t].next
        PROVE  FALSE
    <3>1. InProgress(s, t)
      BY <2>1, <2>2 DEF Consumption, Settling
    <3>2. Instance(s, t)
      BY <3>1 DEF InProgress, Instance, Live, Early
    <3>. QED
      BY <1>4, <3>2 DEF OneInstance, Starts
  <2>. QED
    BY <2>1, <2>2 DEF ConsumedOnce, Executed
<1>5. ASSUME NEW t \in Tasks, NEW r \in Runs, SkipsBusy(t, r) PROVE ConsumedOnce'
  <2>1. row'[r].status = "skipped"
    BY <1>5 DEF SkipsBusy, NewRow
  <2>. QED
    BY <1>2, <1>5, <2>1 DEF SkipsBusy, OnlyRun, Executed
<1>6. ASSUME NEW t \in Tasks, NEW r \in Runs, SkipsNext(t, r) PROVE ConsumedOnce'
  <2>1. row'[r].status = "skipped"
    BY <1>6 DEF SkipsNext, NoRow
  <2>. QED
    BY <1>2, <1>6, <2>1 DEF SkipsNext, Executed
<1>7. ASSUME NEW t \in Tasks, NEW r \in Runs, NEW kind \in {"manual", "test"},
             Launches(t, r, kind)
      PROVE  ConsumedOnce'
  <2>1. row'[r].kind = kind
    BY <1>7 DEF Launches, NewRow
  <2>. QED
    BY <1>2, <1>7, <2>1 DEF Launches, OnlyRun, Executed
<1>. QED
  BY <1>1, <1>3, <1>4, <1>5, <1>6, <1>7
     DEF StepKinds, vars, db, Moves, Fire, StaleCallback, Creates, Redrafts, Rearms, Retires,
         Administers, Cancels, Closes, Dies, Forget, Start, Tick

LEMMA ConsumptionHolds ==
  ASSUME "liveEdit" \notin Events
  PROVE  Spec => []Consumption
<1>1. Init => Consumption
  BY DEF Init, NoRow, Consumption, Settling, Executed
<1>2. Common /\ Consumption /\ [Next]_vars => Consumption'
  BY Steps, ConsumptionStep DEF Common
<1>. QED
  BY <1>1, <1>2, CommonHolds, PTL DEF Spec

\* A planned occurrence is executed at most once: late callbacks, busy keys,
\* manual runs, cancellations, skips, restarts after a shutdown or a crash do
\* not repeat it.  A draft edited during the run keeps the occurrence pending,
\* and the done callback of a cancelled manual run then arms it a second time:
\* edits of tasks whose run is live are excluded here.
THEOREM ExecutedOnce ==
  ASSUME "liveEdit" \notin Events
  PROVE  Spec => []ConsumedOnce
<1>1. Init => ConsumedOnce
  BY DEF Init, NoRow, ConsumedOnce, Executed
<1>2. Common /\ Consumption /\ ConsumedOnce /\ [Next]_vars => ConsumedOnce'
  BY Steps, ConsumedOnceStep DEF Common
<1>. QED
  BY <1>1, <1>2, CommonHolds, ConsumptionHolds, PTL DEF Spec

-----------------------------------------------------------------------------
(* The timer of the next occurrence *)

\* The next occurrence of a task is armed until it is due.  Then its timer, its
\* callback or the run that settles it is there, and nothing of an earlier one.
Queued(t) ==
  /\ task[t].next > now => job[t] = task[t].next
  /\ task[t].next <= now => \/ job[t] = task[t].next \/ cb[t] = task[t].next
                            \/ \E r \in Runs : InProgress(r, t)
  /\ cb[t] # None => task[t].next = cb[t] \/ task[t].next > now
  /\ \A r \in Runs : Instance(r, t) => task[t].next > now \/ InProgress(r, t)

Queueing == \A t \in Tasks : (up = "up" /\ task[t].next # None) => Queued(t)

LEMMA QueueingStep ==
  ASSUME "liveEdit" \notin Events, "overrun" \notin Events, Common, Queueing, StepKinds
  PROVE  Queueing'
<1>. USE DEF Common
<1>. DEFINE Kept(t) == (up = "up" /\ task[t].next # None) => Queued(t)
<1>0. /\ now \in Nat /\ None \notin Nat
      /\ cb \in [Tasks -> Occ \cup {None}] /\ job \in [Tasks -> Occ \cup {None}]
      /\ \A t \in Tasks : task[t].next \in Occ \cup {None}
      /\ \A n \in Occ : n \in Nat
      /\ \A r \in Runs : \A t : Instance(r, t) => row[r].status # None /\ row[r].task = t
      /\ \A r \in Runs : \A t : InProgress(r, t) => Instance(r, t)
  BY ConstAssumption
     DEF Typed, TypeOK, TaskRow, Occ, Instance, LiveRuns, InProgress, Early, Live
<1>1. ASSUME NEW t \in Tasks, UNCHANGED now, job'[t] = task'[t].next,
             task'[t].next # None => task'[t].next > now
      PROVE  Kept(t)'
  BY <1>0, <1>1 DEF Queued
<1>2. ASSUME NEW t \in Tasks, UNCHANGED <<now, cb>>, job'[t] = job[t],
             up = "up" \/ up' # "up", SameSchedule(t),
             \A r \in Runs : /\ InProgress(r, t) => InProgress(r, t)'
                             /\ Instance(r, t)' => Instance(r, t)
      PROVE  Kept(t)'
  BY <1>2 DEF Queueing, Queued, SameSchedule
<1>3. ASSUME NEW r \in Runs, NEW t \in Tasks, row'[r] = row[r],
             co'[r].phase = co[r].phase, co'[r].snap = co[r].snap, co'[r].stale => co[r].stale,
             SameSchedule(t)
      PROVE  /\ InProgress(r, t) => InProgress(r, t)'
             /\ Instance(r, t)' => Instance(r, t)
  BY <1>3, ProgressKept DEF SameSchedule, Instance, Live
<1>4. ASSUME NEW t \in Tasks, Reschedules(t, NextRunFor(task[t].next)),
             task[t].enabled /\ ~task[t].archived, UNCHANGED now
      PROVE  Kept(t)'
  <2>1. task'[t].next = NextRunFor(task[t].next) /\ job'[t] = task'[t].next
    BY <1>4 DEF Reschedules
  <2>. QED
    BY <1>0, <1>1, <1>4, <2>1, NextRunForLater
<1>5. ASSUME NEW r \in Runs, Moves(r) PROVE Queueing'
  <2>. SUFFICES ASSUME NEW t \in Tasks, up = "up" PROVE Kept(t)'
    BY <1>5 DEF Moves, Queueing
  <2>1. ASSUME NEW s \in Runs PROVE Instance(s, t)' => Instance(s, t)
    BY <1>5 DEF Moves, Instance, Live, Down
  <2>. QED
    BY <1>2, <1>5, <2>1, ProgressStep DEF Moves
<1>6. ASSUME NEW r \in Runs, NEW status \in Outcomes, Settles(r, status)
      PROVE  Queueing'
  <2>. PICK u \in Tasks : u = row[r].task
    BY <1>6, SettleEffect
  <2>0. /\ Live(r) /\ UNCHANGED <<now, up, cb>>
        /\ \A s \in Runs \ {r} : row'[s] = row[s] /\ co'[s] = co[s]
        /\ row'[r].task = u /\ row'[r].kind = row[r].kind
        /\ \A t \in Tasks \ {u} : SameSchedule(t) /\ job'[t] = job[t]
    BY <1>6, SettleEffect DEF Settles, Consumes, Stays, Reschedules, SameSchedules
  <2>1. ASSUME NEW t \in Tasks \ {u} PROVE Kept(t)'
    <3>1. ASSUME NEW s \in Runs
          PROVE  /\ InProgress(s, t) => InProgress(s, t)'
                 /\ Instance(s, t)' => Instance(s, t)
      <4>1. CASE s = r
        BY <2>0, <4>1 DEF InProgress, Instance
      <4>2. CASE s # r
        BY <1>3, <2>0, <4>2
      <4>. QED
        BY <4>1, <4>2
    <3>. QED
      BY <1>2, <2>0, <3>1
  <2>2. CASE Consumes(r)
    BY <1>4, <2>0, <2>1, <2>2 DEF Consumes, Queueing
  <2>3. CASE Stays(r)
    <3>1. SameSchedule(u) /\ job'[u] \in {job[u], Arm(task[u])}
      BY <2>0, <2>3 DEF Stays, SameSchedules
    <3>. SUFFICES ASSUME up = "up", task[u].next # None PROVE Queued(u)'
      BY <2>0, <2>1, <3>1 DEF Queueing, SameSchedule
    <3>2. Queued(u) /\ Arm(task[u]) = task[u].next
      BY <2>0 DEF Queueing, Planned, Arm
    <3>3. ~InProgress(r, u)
      BY <2>0, <2>3 DEF Stays, InProgress, Planned
    <3>4. \A s \in Runs \ {r} : /\ InProgress(s, u) => InProgress(s, u)'
                                /\ Instance(s, u)' => Instance(s, u)
      BY <1>3, <2>0, <3>1
    <3>5. Instance(r, u)' => Instance(r, u)
      BY <2>0 DEF Instance
    <3>6. /\ task'[u].next > now' => job'[u] = task'[u].next
          /\ cb'[u] # None => task'[u].next = cb'[u] \/ task'[u].next > now'
      BY <2>0, <3>1, <3>2 DEF Queued, SameSchedule
    <3>7. task'[u].next <= now' => \/ job'[u] = task'[u].next \/ cb'[u] = task'[u].next
                                   \/ \E s \in Runs : InProgress(s, u)'
      BY <2>0, <3>1, <3>2, <3>3, <3>4 DEF Queued, SameSchedule
    <3>8. \A s \in Runs : Instance(s, u)' => task'[u].next > now' \/ InProgress(s, u)'
      BY <2>0, <3>1, <3>2, <3>3, <3>4, <3>5 DEF Queued, SameSchedule
    <3>. QED
      BY <3>6, <3>7, <3>8 DEF Queued
  <2>. QED
    BY <1>6, <2>2, <2>3, SettleEffect
<1>7. ASSUME NEW t \in Tasks, Fire(t) PROVE Queueing'
  <2>0. UNCHANGED <<now, up, row, co, task>> /\ job[t] # None /\ job[t] <= now
    BY <1>7 DEF Fire, db
  <2>1. \A s \in Runs : \A u : /\ InProgress(s, u)' = InProgress(s, u)
                               /\ Instance(s, u)' = Instance(s, u)
    BY <2>0 DEF InProgress, Instance, Live
  <2>2. ASSUME NEW u \in Tasks \ {t} PROVE Kept(u)'
    <3>1. job'[u] = job[u] /\ cb'[u] = cb[u]
      BY <1>0, <1>7 DEF Fire
    <3>. QED
      BY <2>0, <2>1, <3>1 DEF Queueing, Queued
  <2>3. Kept(t)'
    <3>. SUFFICES ASSUME up = "up", task[t].next # None PROVE Queued(t)'
      BY <2>0
    <3>1. Queued(t) /\ job[t] = task[t].next /\ task[t].next <= now
      BY <2>0 DEF Queueing, Armed
    <3>2. CASE InstanceBusy(t)
      <4>1. cb' = cb
        BY <1>7, <3>2 DEF Fire
      <4>2. cb[t] = task[t].next \/ \E s \in Runs : InProgress(s, t)
        <5>1. CASE cb[t] # None
          BY <1>0, <3>1, <5>1 DEF Queued
        <5>2. CASE \E s \in Runs : Instance(s, t)
          BY <1>0, <3>1, <5>2 DEF Queued
        <5>. QED
          BY <3>2, <5>1, <5>2 DEF InstanceBusy, Instance
      <4>. QED
        BY <1>0, <2>0, <2>1, <3>1, <4>1, <4>2 DEF Queued
    <3>3. CASE ~InstanceBusy(t)
      <4>1. cb'[t] = task[t].next
        BY <1>0, <1>7, <3>1, <3>3 DEF Fire
      <4>. QED
        BY <1>0, <2>0, <2>1, <3>1, <4>1 DEF Queued
    <3>. QED
      BY <3>2, <3>3
  <2>. QED
    BY <2>2, <2>3 DEF Queueing
<1>8. ASSUME NEW t \in Tasks, StaleCallback(t) PROVE Queueing'
  <2>0. /\ UNCHANGED <<now, up, row, co, task, job>>
        /\ cb[t] # None /\ task[t].next # cb[t] /\ cb'[t] = None
        /\ \A u \in Tasks \ {t} : cb'[u] = cb[u]
    BY <1>0, <1>8 DEF StaleCallback, db
  <2>1. \A s \in Runs : \A u : /\ InProgress(s, u)' = InProgress(s, u)
                               /\ Instance(s, u)' = Instance(s, u)
    BY <2>0 DEF InProgress, Instance, Live
  <2>2. ASSUME NEW u \in Tasks PROVE Kept(u)'
    BY <2>0, <2>1 DEF Queueing, Queued
  <2>. QED
    BY <2>2 DEF Queueing
<1>9. ASSUME NEW t \in Tasks, Creates(t) PROVE Queueing'
  <2>1. ASSUME NEW u \in Tasks \ {t} PROVE Kept(u)'
    BY <1>2, <1>3, <1>9, <2>1 DEF Creates, SameSchedule
  <2>. QED
    BY <1>9, <2>1 DEF Creates, Queueing
<1>10. ASSUME NEW t \in Tasks, Redrafts(t) \/ Rearms(t) \/ Retires(t) PROVE Queueing'
  <2>0. Administers(t)
    BY <1>10 DEF Redrafts, Rearms, Retires
  <2>1. ASSUME NEW u \in Tasks \ {t} PROVE Kept(u)'
    <3>1. SameSchedule(u) /\ job'[u] = job[u]
      BY <2>0, <2>1 DEF Administers, SameSchedule
    <3>2. ASSUME NEW s \in Runs
          PROVE  /\ InProgress(s, u) => InProgress(s, u)'
                 /\ Instance(s, u)' => Instance(s, u)
      <4>1. CASE row[s].task = u
        BY <1>3, <2>0, <3>1, <4>1 DEF Administers, Bumps
      <4>2. CASE row[s].task # u
        BY <2>0, <4>2 DEF Administers, InProgress, Instance
      <4>. QED
        BY <4>1, <4>2
    <3>. QED
      BY <1>2, <2>0, <3>1, <3>2 DEF Administers
  <2>2. CASE Rearms(t) \/ Retires(t) \/ ~task[t].enabled
    <3>1. job'[t] = task'[t].next /\ task'[t].next \in {None, NextRunFor(None)}
      BY <1>10, <2>2 DEF Redrafts, Rearms, Retires
    <3>2. Kept(t)'
      BY <1>0, <1>1, <2>0, <3>1, NextRunForLater DEF Administers
    <3>. QED
      BY <2>1, <3>2 DEF Queueing
  <2>3. CASE Redrafts(t) /\ task[t].enabled
    <3>1. \A s \in Runs : ~Instance(s, t)
      BY <2>3 DEF Redrafts, LiveRun, Instance
    <3>2. \A s \in Runs : ~Instance(s, t)'
      BY <2>0, <3>1 DEF Administers, Bumps, Instance, Live
    <3>3. /\ task'[t].next = task[t].next /\ job'[t] = job[t]
          /\ UNCHANGED <<now, up, cb>>
      BY <2>0, <2>3 DEF Redrafts, Administers
    <3>4. Kept(t)'
      BY <1>0, <3>1, <3>2, <3>3 DEF Queueing, Queued
    <3>. QED
      BY <2>1, <3>4 DEF Queueing
  <2>. QED
    BY <1>10, <2>2, <2>3
<1>11. ASSUME NEW t \in Tasks, NEW r \in Runs, OnlyRun(r), row[r].status = None,
              row'[r].task = t, NEW u \in Tasks \ {t}, SameSchedule(u)
       PROVE  \A s \in Runs : /\ InProgress(s, u) => InProgress(s, u)'
                              /\ Instance(s, u)' => Instance(s, u)
  <2>. SUFFICES ASSUME NEW s \in Runs
                PROVE  /\ InProgress(s, u) => InProgress(s, u)'
                       /\ Instance(s, u)' => Instance(s, u)
    OBVIOUS
  <2>1. CASE s = r
    BY <1>0, <1>11, <2>1 DEF Instance
  <2>2. CASE s # r
    BY <1>3, <1>11, <2>2 DEF OnlyRun
  <2>. QED
    BY <2>1, <2>2
<1>12. ASSUME NEW t \in Tasks, NEW r \in Runs, Starts(t, r) PROVE Queueing'
  <2>0. /\ row'[r].task = t /\ row'[r].kind = "scheduled" /\ row'[r].planned = task[t].next
        /\ UNCHANGED <<now, up, job>> /\ up = "up" /\ SameSchedules
        /\ cb'[t] = None /\ cb[t] # None /\ \A u \in Tasks \ {t} : cb'[u] = cb[u]
    BY <1>0, <1>12 DEF Starts, NewRow, Down
  <2>1. ASSUME NEW u \in Tasks \ {t} PROVE Kept(u)'
    <3>1. \A s \in Runs : /\ InProgress(s, u) => InProgress(s, u)'
                          /\ Instance(s, u)' => Instance(s, u)
      BY <1>11, <1>12, <2>0 DEF Starts, SameSchedules
    <3>. QED
      BY <2>0, <3>1 DEF Queueing, Queued, SameSchedules, SameSchedule
  <2>2. InProgress(r, t)'
    BY <1>12, <2>0 DEF Starts, InProgress, Early, SameSchedules, SameSchedule
  <2>3. \A s \in Runs \ {r} : ~Instance(s, t)'
    BY <1>12, <2>0 DEF Starts, OnlyRun, OneInstance, Instance, Live
  <2>4. task[t].next <= now
    BY <1>12 DEF Starts, DueCallbacks
  <2>5. Kept(t)'
    BY <1>0, <2>0, <2>2, <2>3, <2>4 DEF Queued, SameSchedules, SameSchedule
  <2>. QED
    BY <2>1, <2>5 DEF Queueing
<1>13. ASSUME NEW t \in Tasks, NEW r \in Runs, SkipsBusy(t, r) PROVE Queueing'
  <2>0. /\ row'[r].task = t /\ UNCHANGED <<now, up>> /\ up = "up"
        /\ \A u \in Tasks \ {t} : cb'[u] = cb[u] /\ job'[u] = job[u] /\ SameSchedule(u)
    BY <1>0, <1>13 DEF SkipsBusy, NewRow, Down, Reschedules
  <2>1. ASSUME NEW u \in Tasks \ {t} PROVE Kept(u)'
    <3>1. \A s \in Runs : /\ InProgress(s, u) => InProgress(s, u)'
                          /\ Instance(s, u)' => Instance(s, u)
      BY <1>11, <1>13, <2>0 DEF SkipsBusy
    <3>. QED
      BY <2>0, <3>1 DEF Queueing, Queued, SameSchedule
  <2>. QED
    BY <1>4, <1>13, <2>1 DEF SkipsBusy, Queueing
<1>14. ASSUME NEW t \in Tasks, NEW r \in Runs, SkipsNext(t, r) PROVE Queueing'
  <2>0. /\ row'[r].kind = "skip" /\ UNCHANGED <<now, up, cb>> /\ up = "up"
        /\ \A u \in Tasks \ {t} : job'[u] = job[u] /\ SameSchedule(u)
        /\ \A s \in Runs \ {r} : row'[s] = row[s]
        /\ row[r].status = None
    BY <1>14 DEF SkipsNext, NoRow, Reschedules
  <2>1. ASSUME NEW u \in Tasks \ {t} PROVE Kept(u)'
    <3>1. ASSUME NEW s \in Runs
          PROVE  /\ InProgress(s, u) => InProgress(s, u)'
                 /\ Instance(s, u)' => Instance(s, u)
      <4>1. CASE s = r
        BY <1>0, <2>0, <4>1 DEF Instance
      <4>2. CASE s # r /\ row[s].task = u
        BY <1>3, <1>14, <2>0, <4>2 DEF SkipsNext, Bumps
      <4>3. CASE s # r /\ row[s].task # u
        BY <2>0, <4>3 DEF InProgress, Instance
      <4>. QED
        BY <4>1, <4>2, <4>3
    <3>. QED
      BY <1>2, <2>0, <3>1
  <2>. QED
    BY <1>4, <1>14, <2>1 DEF SkipsNext, Queueing
<1>15. ASSUME NEW t \in Tasks, NEW r \in Runs, NEW kind \in {"manual", "test"},
              Launches(t, r, kind)
       PROVE  Queueing'
  <2>0. row'[r].kind = kind /\ row[r].status = None /\ OnlyRun(r) /\ SameSchedules
    BY <1>15 DEF Launches, NewRow
  <2>1. ASSUME NEW u \in Tasks PROVE Kept(u)'
    <3>1. ASSUME NEW s \in Runs
          PROVE  /\ InProgress(s, u) => InProgress(s, u)'
                 /\ Instance(s, u)' => Instance(s, u)
      <4>1. CASE s = r
        BY <1>0, <2>0, <4>1 DEF Instance
      <4>2. CASE s # r
        BY <1>3, <2>0, <4>2 DEF OnlyRun, SameSchedules
      <4>. QED
        BY <4>1, <4>2
    <3>. QED
      BY <1>2, <1>15, <2>0, <3>1 DEF Launches, SameSchedules
  <2>. QED
    BY <2>1 DEF Queueing
<1>16. CASE Closes \/ Dies
  BY <1>16 DEF Closes, Dies, Forget, Queueing
<1>17. CASE Start
  <2>0. /\ UNCHANGED <<now, cb, row, co>>
        /\ \A t \in Tasks : cb[t] = None /\ \A s \in Runs : ~Instance(s, t)
    BY <1>17, StartEffect DEF Down, Idle, Instance, Live
  <2>1. ASSUME NEW t \in Tasks, task'[t].next # None
        PROVE  task'[t].next > now /\ job'[t] = task'[t].next
    BY <1>0, <1>17, <2>1, StartEffect, NextRunForLater DEF Planned
  <2>. QED
    BY <1>0, <2>0, <2>1 DEF Queueing, Queued, Instance, Live
<1>18. CASE Tick
  <2>0. /\ now' = now + 1 /\ UNCHANGED <<up, row, co, task, job, cb>>
        /\ \A t \in Tasks : cb[t] = None /\ ~InstanceBusy(t)
    BY <1>18 DEF Tick, db, timers
  <2>1. \A s \in Runs, u \in Tasks : ~Instance(s, u) /\ ~Instance(s, u)'
    BY <2>0 DEF InstanceBusy, Instance, Live
  <2>2. ASSUME NEW t \in Tasks PROVE Kept(t)'
    <3>. SUFFICES ASSUME up = "up", task[t].next # None PROVE Queued(t)'
      BY <2>0
    <3>1. job[t] = task[t].next
      BY <1>0, <2>0, <2>1 DEF Queueing, Queued
    <3>. QED
      BY <1>0, <2>0, <2>1, <3>1 DEF Queued
  <2>. QED
    BY <2>2 DEF Queueing
<1>19. CASE UNCHANGED vars
  BY <1>19 DEF vars, Queueing, Queued, InProgress, Instance, Live
<1>20. CASE Cancels
  <2>1. ASSUME NEW t \in Tasks PROVE Kept(t)'
    BY <1>2, <1>3, <1>20 DEF Cancels, Signals
  <2>. QED
    BY <2>1 DEF Queueing
<1>. QED
  BY <1>5, <1>6, <1>7, <1>8, <1>9, <1>10, <1>12, <1>13, <1>14, <1>15, <1>16, <1>17,
     <1>18, <1>19, <1>20 DEF StepKinds

LEMMA QueueingHolds ==
  ASSUME "liveEdit" \notin Events, "overrun" \notin Events
  PROVE  Spec => []Queueing
<1>1. Init => Queueing
  BY DEF Init, NoTask, Queueing
<1>2. Common /\ Queueing /\ [Next]_vars => Queueing'
  BY Steps, QueueingStep DEF Common
<1>. QED
  BY <1>1, <1>2, CommonHolds, PTL DEF Spec

\* An idle enabled task has the timer of its next occurrence, whatever
\* timers, runs, cancellations, skips, restarts and administrators of idle
\* tasks do.  The conditions are what the code loses a timer to: an edit of a
\* task whose run is live leaves the due occurrence to that run, which then
\* declines it; and a job that falls due while the last one runs is dropped
\* (max_instances).
THEOREM TimersAreThere ==
  ASSUME "liveEdit" \notin Events, "overrun" \notin Events
  PROVE  Spec => []ScheduleHasTimer
<1>1. ASSUME Common, Queueing PROVE ScheduleHasTimer
  <2>. SUFFICES ASSUME NEW t \in Tasks, up = "up", Arm(task[t]) # None, ~InstanceBusy(t)
                PROVE  job[t] = task[t].next
    BY DEF ScheduleHasTimer
  <2>1. task[t].next # None
    BY DEF Arm
  <2>2. task[t].next \in Nat /\ now \in Nat
    BY <1>1, <2>1 DEF Common, Typed, TypeOK, TaskRow, Occ
  <2>3. cb[t] = None /\ \A r \in Runs : ~InProgress(r, t)
    BY DEF InstanceBusy, InProgress, Live, Early
  <2>. QED
    BY <1>1, <2>1, <2>2, <2>3 DEF Queueing, Queued
<1>. QED
  BY <1>1, CommonHolds, QueueingHolds, PTL

-----------------------------------------------------------------------------
(* No occurrence is lost *)

\* A run that would consume an occurrence consumes its own: while its task
\* stays enabled, the one it was started for is the next one.  A run that waits
\* for its key forgets on its way in that it was stale.
Pending(r) ==
  (/\ row[r].kind = "scheduled" /\ co[r].phase \in Early
   /\ ~co[r].stale \/ co[r].phase = "waiting"
   /\ task[row[r].task].enabled) =>
     row[r].planned = task[row[r].task].next

\* No run waits for a key.
NoQueue == \A r \in Runs : co[r].phase \notin {"created", "waiting"}

Carrying == (\A r \in Runs : Pending(r)) /\ ("liveEdit" \in Events => NoQueue)

\* Only background runs make others wait.
LEMMA NoQueueStep ==
  ASSUME Events \cap {"run", "test"} = {}, Typed, NoQueue, StepKinds
  PROVE  NoQueue'
<1>1. ASSUME \A r \in Runs : co'[r].phase = co[r].phase PROVE NoQueue'
  BY <1>1 DEF NoQueue
<1>2. ASSUME NEW r \in Runs, \A s \in Runs \ {r} : co'[s] = co[s],
             co'[r].phase \notin {"created", "waiting"}
      PROVE  NoQueue'
  BY <1>2 DEF NoQueue
<1>3. ASSUME NEW r \in Runs, Moves(r) PROVE NoQueue'
  <2>1. co'[r].phase \notin {"created", "waiting"}
    BY <1>3 DEF Moves, Begins, Proceeds, Ends, NoQueue, Idle
  <2>. QED
    BY <1>2, <1>3, <2>1 DEF Moves
<1>4. ASSUME NEW r \in Runs, NEW status \in Outcomes, Settles(r, status) PROVE NoQueue'
  <2>1. co'[r].phase \notin {"created", "waiting"}
    BY <1>4 DEF Settles, Idle
  <2>. QED
    BY <1>2, <1>4, <2>1 DEF Settles
<1>5. ASSUME NEW t \in Tasks, NEW r \in Runs, Starts(t, r) \/ SkipsBusy(t, r)
      PROVE  NoQueue'
  <2>1. co'[r].phase \notin {"created", "waiting"}
    BY <1>5 DEF Starts, SkipsBusy, NoQueue, Idle
  <2>. QED
    BY <1>2, <1>5, <2>1 DEF Starts, SkipsBusy, OnlyRun
<1>6. ASSUME NEW t \in Tasks,
             \/ \E r \in Runs : SkipsNext(t, r)
             \/ Redrafts(t) \/ Rearms(t) \/ Retires(t)
      PROVE  NoQueue'
  BY <1>1, <1>6 DEF SkipsNext, Redrafts, Rearms, Retires, Administers, Bumps
<1>7. CASE Cancels \/ Closes
  BY <1>1, <1>7 DEF Cancels, Closes, Signals
<1>8. CASE Dies
  BY <1>8 DEF Dies, Forget, Idle, NoQueue
<1>9. CASE UNCHANGED co
  BY <1>1, <1>9
<1>. QED
  BY <1>3, <1>4, <1>5, <1>6, <1>7, <1>8, <1>9
     DEF StepKinds, vars, db, timers, Fire, StaleCallback, Creates, Launches, Start, Tick

LEMMA CarryingStep ==
  ASSUME "liveEdit" \notin Events \/ Events \cap {"run", "test"} = {},
         Common, Carrying, StepKinds
  PROVE  Carrying'
<1>. USE DEF Common
<1>0. /\ \A r \in Runs : (row[r].kind = "scheduled" /\ co[r].phase \in Early) =>
           /\ Instance(r, row[r].task) /\ Live(r)
           /\ row[r].task \in Tasks /\ row[r].planned \in 1 .. now
           /\ row[r].status = "running"
      /\ now \in Nat /\ None \notin Nat
  <2>1. ASSUME NEW r \in Runs, row[r].kind = "scheduled", co[r].phase \in Early
        PROVE  /\ Instance(r, row[r].task) /\ Live(r)
               /\ row[r].task \in Tasks /\ row[r].planned \in 1 .. now
               /\ row[r].status = "running"
    <3>1. Live(r) /\ row[r].status = "running"
      BY <2>1 DEF Early, Live, Stages, Stage
    <3>2. row[r].task \in Tasks
      BY <3>1, LiveRow DEF Typed
    <3>. QED
      BY <2>1, <3>1, <3>2, ConstAssumption DEF Instance, NeverEarly, Status
  <2>. QED
    BY <2>1, ConstAssumption DEF Typed, TypeOK
<1>1. ASSUME NEW s \in Runs, row'[s] = row[s], co'[s].phase = co[s].phase,
             co[s].stale => co'[s].stale,
             (row[s].kind = "scheduled" /\ co[s].phase \in Early) =>
               SameSchedule(row[s].task)
      PROVE  Pending(s)'
  BY <1>1 DEF Carrying, Pending, SameSchedule
<1>2. \A r \in Runs : \A t : ~Live(r) => ~Instance(r, t)
  BY DEF Instance
<1>3. SUFFICES ASSUME NEW s \in Runs, row'[s].kind = "scheduled", co'[s].phase \in Early,
                      ~co'[s].stale \/ co'[s].phase = "waiting",
                      task'[row'[s].task].enabled
               PROVE  row'[s].planned = task'[row'[s].task].next
  <2>1. "liveEdit" \in Events => NoQueue'
    BY NoQueueStep DEF Carrying
  <2>. QED
    BY <1>3, <2>1 DEF Carrying, Pending
<1>4. ASSUME Pending(s)' PROVE row'[s].planned = task'[row'[s].task].next
  BY <1>3, <1>4 DEF Pending
<1>5. ASSUME NEW r \in Runs, Moves(r) PROVE Pending(s)'
  <2>1. row' = row /\ \A t \in Tasks : SameSchedule(t)
    BY <1>5 DEF Moves
  <2>2. CASE s # r
    BY <1>0, <1>1, <1>5, <2>1, <2>2 DEF Moves
  <2>3. CASE s = r
    <3>1. ~Background(r)
      BY <1>3, <2>1, <2>3 DEF Background
    <3>2. /\ co[r].phase \in Early /\ co[r].phase # "created"
          /\ ~co[r].stale \/ co[r].phase = "waiting"
      BY <1>3, <1>5, <2>3, <3>1
         DEF Moves, Begins, Proceeds, Ends, Early, Stages, Stage, Idle
    <3>. QED
      BY <1>0, <1>3, <2>1, <2>3, <3>2 DEF Carrying, Pending, SameSchedule
  <2>. QED
    BY <2>2, <2>3
<1>6. ASSUME NEW r \in Runs, NEW status \in Outcomes, Settles(r, status) PROVE Pending(s)'
  <2>1. s # r
    BY <1>3, <1>6 DEF Settles, Early, Idle
  <2>2. row'[s] = row[s] /\ co'[s] = co[s]
    BY <1>6, <2>1, SettleEffect DEF Settles
  <2>3. CASE Consumes(r)
    <3>1. Live(r) /\ row[r].task \in Tasks
      BY <1>6, SettleEffect
    <3>2. row[s].task # row[r].task
      <4>1. Instance(r, row[r].task)
        BY <2>3, <3>1 DEF Consumes, Instance
      <4>. QED
        BY <1>0, <1>3, <2>1, <2>2, <3>1, <4>1 DEF OneInstance
    <3>. QED
      BY <1>0, <1>1, <2>2, <2>3, <3>2 DEF Consumes, Reschedules
  <2>4. CASE Stays(r)
    BY <1>0, <1>1, <2>2, <2>4 DEF Stays, SameSchedules
  <2>. QED
    BY <1>6, <2>3, <2>4, SettleEffect
<1>7. ASSUME NEW t \in Tasks, Creates(t) \/ Retires(t) PROVE Pending(s)'
  <2>1. row'[s] = row[s] /\ row[s].task # t
    BY <1>3, <1>7 DEF Creates, Retires, Administers
  <2>2. co'[s].phase = co[s].phase /\ (co[s].stale => co'[s].stale)
    BY <1>7 DEF Creates, Retires, Administers, Bumps
  <2>3. \A u \in Tasks \ {t} : SameSchedule(u)
    BY <1>7 DEF Creates, Retires, Administers, SameSchedule
  <2>. QED
    BY <1>0, <1>1, <2>1, <2>2, <2>3
<1>8. ASSUME NEW t \in Tasks, Redrafts(t) \/ Rearms(t) PROVE Pending(s)'
  <2>0. Administers(t)
    BY <1>8 DEF Redrafts, Rearms
  <2>1. row'[s] = row[s] /\ co'[s].phase = co[s].phase /\ (co[s].stale => co'[s].stale)
    BY <2>0 DEF Administers, Bumps
  <2>2. CASE row[s].task # t
    BY <1>0, <1>1, <2>0, <2>1, <2>2 DEF Administers, SameSchedule
  <2>3. CASE row[s].task = t /\ Redrafts(t)
    BY <1>3, <2>0, <2>1, <2>3 DEF Redrafts, Carrying, Pending
  <2>4. CASE row[s].task = t /\ Rearms(t)
    <3>1. Live(s) /\ "liveEdit" \in Events
      BY <1>0, <1>3, <2>1, <2>4 DEF Rearms, LiveRun
    <3>2. co[s].phase # "waiting"
      BY <3>1 DEF Carrying, NoQueue
    <3>3. co'[s].stale
      BY <2>0, <2>4, <3>1 DEF Administers, Bumps
    <3>. QED
      BY <2>1, <3>2, <3>3 DEF Pending
  <2>. QED
    BY <1>8, <2>2, <2>3, <2>4
<1>9. ASSUME NEW t \in Tasks, NEW r \in Runs, Starts(t, r) PROVE Pending(s)'
  <2>1. CASE s = r
    BY <1>9, <2>1 DEF Starts, NewRow, SameSchedules, SameSchedule, Pending
  <2>2. CASE s # r
    BY <1>0, <1>1, <1>9, <2>2 DEF Starts, OnlyRun, SameSchedules
  <2>. QED
    BY <2>1, <2>2
<1>10. ASSUME NEW t \in Tasks, NEW r \in Runs, SkipsBusy(t, r) PROVE Pending(s)'
  <2>1. s # r
    BY <1>3, <1>10 DEF SkipsBusy, Early, Idle
  <2>2. row'[s] = row[s] /\ co'[s] = co[s]
    BY <1>10, <2>1 DEF SkipsBusy, OnlyRun
  <2>3. row[s].task # t
    BY <1>0, <1>3, <1>10, <2>2 DEF SkipsBusy, OneInstance
  <2>. QED
    BY <1>0, <1>1, <1>10, <2>2, <2>3 DEF SkipsBusy, Reschedules
<1>11. ASSUME NEW t \in Tasks, NEW r \in Runs, SkipsNext(t, r) PROVE Pending(s)'
  <2>1. s # r
    BY <1>3, <1>11 DEF SkipsNext, NoRow
  <2>2. row'[s] = row[s] /\ co'[s].phase = co[s].phase /\ (co[s].stale => co'[s].stale)
    BY <1>11, <2>1 DEF SkipsNext, Bumps
  <2>3. CASE row[s].task # t
    BY <1>0, <1>1, <1>11, <2>2, <2>3 DEF SkipsNext, Reschedules
  <2>4. CASE row[s].task = t
    <3>1. Live(s) /\ HasRunningRow(t)
      BY <1>0, <1>3, <2>2, <2>4 DEF HasRunningRow
    <3>2. co'[s].stale
      BY <1>11, <2>4, <3>1 DEF SkipsNext, Bumps
    <3>3. co[s].phase # "waiting"
      <4>. SUFFICES ASSUME co[s].phase = "waiting" PROVE FALSE
        OBVIOUS
      <4>1. row[s].planned = task[t].next
        BY <1>3, <1>11, <2>2, <2>4 DEF SkipsNext, Carrying, Pending
      <4>2. task[t].next <= now
        BY <1>0, <1>3, <2>2, <4>1
      <4>. QED
        BY <1>11, <3>1, <4>2 DEF SkipsNext
    <3>. QED
      BY <2>2, <3>2, <3>3 DEF Pending
  <2>. QED
    BY <2>3, <2>4
<1>12. ASSUME NEW t \in Tasks, NEW r \in Runs, NEW kind \in {"manual", "test"},
              Launches(t, r, kind)
       PROVE  Pending(s)'
  <2>1. s # r
    BY <1>3, <1>12 DEF Launches, NewRow
  <2>. QED
    BY <1>0, <1>1, <1>12, <2>1 DEF Launches, OnlyRun, SameSchedules
<1>13. CASE Cancels \/ Closes
  BY <1>0, <1>1, <1>4, <1>13 DEF Cancels, Closes, Signals, SameSchedule
<1>14. CASE Dies
  BY <1>3, <1>14 DEF Dies, Forget, Idle, Early
<1>15. CASE Start
  BY <1>3, <1>15, StartEffect DEF Down, Idle, Early
<1>16. CASE UNCHANGED <<row, co, task>>
  BY <1>1, <1>4, <1>16 DEF SameSchedule
<1>. QED
  BY <1>4, <1>5, <1>6, <1>7, <1>8, <1>9, <1>10, <1>11, <1>12, <1>13, <1>14, <1>15, <1>16
     DEF StepKinds, vars, db, timers, Fire, StaleCallback, Tick

\* What NoOccurrenceLost says of a step of task t.
MovesPast(t) ==
  (task[t].enabled /\ task'[t].enabled /\ task[t].next # task'[t].next
     /\ task[t].next # None
     /\ (task'[t].next = None \/ task'[t].next > task[t].next)) =>
    \/ task[t].next <= now
    \/ \E r \in Runs : row'[r].task = t /\ row'[r].planned = task[t].next

LEMMA MovesPastStep ==
  ASSUME Common, Calm, Serving, Carrying, StepKinds, NEW t \in Tasks
  PROVE  MovesPast(t)
<1>. USE DEF Common
<1>0. now \in Nat /\ task[t].next \in Occ \cup {None} /\ \A n \in Occ : n \in Nat
  BY DEF Typed, TypeOK, TaskRow, Occ
<1>1. ASSUME task'[t].next = task[t].next PROVE MovesPast(t)
  BY <1>1 DEF MovesPast
<1>2. ASSUME NEW r \in Runs, NEW status \in Outcomes, Settles(r, status)
      PROVE  MovesPast(t)
  <2>1. CASE Consumes(r) /\ row[r].task = t
    <3>1. up = "up"
      BY <1>2, SettleEffect DEF Serving, Down, Typed, TypeOK, Live, Idle
    <3>2. co[r].phase \in Early
      BY <1>2, <2>1, <3>1 DEF Settles, Calm, Early, Consumes, Stages, Stage, Background
    <3>3. row[r].planned = task[t].next
      BY <2>1, <3>2 DEF Consumes, Carrying, Pending
    <3>. QED
      BY <1>2, <2>1, <3>3, SettleEffect DEF MovesPast
  <2>2. CASE Consumes(r) /\ row[r].task # t
    BY <1>1, <2>2 DEF Consumes, Reschedules, SameSchedule
  <2>3. CASE Stays(r)
    BY <1>1, <2>3 DEF Stays, SameSchedules, SameSchedule
  <2>. QED
    BY <1>2, <2>1, <2>2, <2>3, SettleEffect
<1>3. ASSUME NEW u \in Tasks, Creates(u) \/ Redrafts(u) \/ Rearms(u) \/ Retires(u)
      PROVE  MovesPast(t)
  <2>1. CASE u # t
    BY <1>1, <1>3, <2>1 DEF Creates, Redrafts, Rearms, Retires, Administers
  <2>2. CASE u = t /\ Rearms(t)
    <3>1. task'[t].next = now + 1
      BY <2>2 DEF Rearms, NextRunFor
    <3>. QED
      BY <1>0, <3>1, <2>2, ConstAssumption DEF MovesPast, Typed, TypeOK
  <2>3. CASE u = t /\ ~Rearms(t)
    BY <1>3, <2>3 DEF Creates, Redrafts, Retires, MovesPast
  <2>. QED
    BY <2>1, <2>2, <2>3
<1>4. ASSUME NEW u \in Tasks, NEW r \in Runs, SkipsBusy(u, r) PROVE MovesPast(t)
  <2>1. CASE u # t
    BY <1>1, <1>4, <2>1 DEF SkipsBusy, Reschedules, SameSchedule
  <2>2. CASE u = t
    BY <1>4, <2>2 DEF SkipsBusy, DueCallbacks, MovesPast
  <2>. QED
    BY <2>1, <2>2
<1>5. ASSUME NEW u \in Tasks, NEW r \in Runs, SkipsNext(u, r) PROVE MovesPast(t)
  <2>1. CASE u # t
    BY <1>1, <1>5, <2>1 DEF SkipsNext, Reschedules, SameSchedule
  <2>2. CASE u = t
    BY <1>5, <2>2 DEF SkipsNext, NoRow, MovesPast
  <2>. QED
    BY <2>1, <2>2
<1>6. CASE Start
  BY <1>6, StartEffect DEF MovesPast
<1>7. CASE SameSchedule(t)
  BY <1>1, <1>7 DEF SameSchedule
<1>8. CASE UNCHANGED task
  BY <1>1, <1>8
<1>. QED
  BY <1>2, <1>3, <1>4, <1>5, <1>6, <1>7, <1>8
     DEF StepKinds, vars, db, Moves, Fire, StaleCallback, Starts, Launches, SameSchedules,
         Cancels, Closes, Dies, Forget, Tick

\* The schedule moves past an occurrence that is not over only with a history
\* row for it.  A cancellation or a shutdown while a run sends its notification
\* settles the task a second time; a publication of the task while its run
\* waits for a busy key is forgotten when that run gets the key.
THEOREM OccurrencesAreKept ==
  ASSUME "cancel" \notin Events, "close" \notin Events,
         "liveEdit" \notin Events \/ Events \cap {"run", "test"} = {}
  PROVE  Spec => NoOccurrenceLost
<1>1. Init => Carrying
  BY DEF Init, Idle, Carrying, Pending, NoQueue, Early
<1>2. Common /\ Carrying /\ [Next]_vars => Carrying'
  BY Steps, CarryingStep DEF Common
<1>3. Spec => []Carrying
  BY <1>1, <1>2, CommonHolds, PTL DEF Spec
<1>4. Common /\ Calm /\ Serving /\ Carrying /\ [Next]_vars => \A t \in Tasks : MovesPast(t)
  BY Steps, MovesPastStep DEF Common
<1>5. Spec => [][\A t \in Tasks : MovesPast(t)]_vars
  BY <1>3, <1>4, CommonHolds, CalmRuns, PTL DEF Spec
<1>. QED
  BY <1>5 DEF NoOccurrenceLost, MovesPast
=============================================================================
