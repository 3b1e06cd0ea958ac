------------------------- MODULE CommandQueueProofs -------------------------
(***************************************************************************)
(* The safety properties of CommandQueue, and that it implements           *)
(* CommandPromise, for any number of processes, workers, updates and rows. *)
(***************************************************************************)
EXTENDS CommandQueue, FiniteSetTheorems, TLAPS

-----------------------------------------------------------------------------
(* What a step may do to the rows *)

\* In table t every row is still about the same command of the same user.
Faithful(t) ==
  \A e \in Rows : /\ t[e].update = row[e].update /\ t[e].actor = row[e].actor
                  /\ t[e].kind = row[e].kind /\ t[e].command = row[e].command

SameTries(t) == \A e \in Rows : t[e].tries = row[e].tries

\* Row e gets an outcome: what was cancelled was waiting, what succeeded ran.
Outcome(e, status) ==
  /\ row[e].status \in {"queued", "running"} /\ status \in Terminal
  /\ status = "cancelled" => row[e].status = "queued"
  /\ status = "succeeded" =>
       \E x \in Procs \X Workers : work[x].row = e /\ work[x].stage = "executing"

\* Table t differs from the present one by outcomes that were recorded.
Settles(t) ==
  /\ Faithful(t)
  /\ \A e \in Rows : t[e].status = row[e].status \/ Outcome(e, t[e].status)

\* What runs is at most given up.
Spares(t) ==
  \A e \in Rows : row[e].status = "running" => t[e].status \in {"running", "unknown"}

\* Table t after row e's status and owner were written.
Written(t, e, status, q) == [t EXCEPT ![e].status = status, ![e].owner = q]

\* Table t after row e was handed to p.
Taken(t, e, p) == Written(t, e, "running", p)

\* The step of a worker that takes row e, and perhaps starts its executor.
Takes(w, late, e) ==
  /\ work[w] = Idle
  /\ Claimable(Table(late), e)
  /\ row' = Taken(Table(late), e, w[1])
  /\ \/ /\ UnchangedSince(row[e])
        /\ \/ /\ work' = [work EXCEPT ![w] = Job(e, "probing")]
              /\ UNCHANGED <<ran, starts>>
           \/ /\ work' = [work EXCEPT ![w] = Job(e, "executing")]
              /\ Began(e, row[e].update, config.command)
     \/ UNCHANGED <<work, ran, starts>>
  /\ UNCHANGED <<send, accepted, shown>>

\* Senders go on with the reply they hold or are done with it, also when
\* Telegram has accepted it.
EndsSending ==
  /\ \A x \in Procs \X Senders : send'[x] = send[x] \/ send'[x] = 0
  /\ \A x \in accepted : x \in accepted' \/ send'[x] = 0
  /\ accepted' \subseteq accepted

\* Steps that record outcomes, end jobs and deliveries, or concern nothing here.
Quiet ==
  /\ Settles(row') /\ SameTries(row')
  /\ UNCHANGED <<ran, starts, shown>>
  /\ \/ Spares(row')
     \/ \E x \in Procs \X Workers :
          /\ work'[x] = Idle
          /\ \A e \in Rows : e # work[x].row => row'[e].status = row[e].status
  /\ \A x \in Procs \X Workers : work'[x] = work[x] \/ work'[x] = Idle
  /\ EndsSending

\* A worker whose runner has answered starts the executor.
Begins(w) ==
  /\ work[w].stage = "probing"
  /\ work' = [work EXCEPT ![w].stage = "executing"]
  /\ Began(work[w].row, row[work[w].row].update, work[w].command)
  /\ UNCHANGED <<row, send, accepted, shown>>

Admits(e, u, a, k) ==
  /\ Fresh(e) /\ \A f \in Rows : row[f].update # u
  /\ row' = [row EXCEPT ![e] = Queued(u, a, k)]
  /\ UNCHANGED <<work, send, accepted, ran, starts, shown>>

\* A sender takes the reply of row e.
TakesReply(x, e) ==
  /\ send[x] = 0 /\ send' = [send EXCEPT ![x] = e]
  /\ Settles(row') /\ Spares(row') /\ row'[e].status \in Terminal
  /\ \A f \in Rows : row'[f].tries = IF f = e THEN row[f].tries + 1 ELSE row[f].tries
  /\ UNCHANGED <<work, accepted, ran, starts, shown>>

\* Telegram accepts the reply a sender holds.
Replies(x) ==
  /\ send[x] # 0 /\ x \notin accepted /\ accepted' = accepted \cup {x}
  /\ shown' = [shown EXCEPT ![row[send[x]].update] = @ + 1]
  /\ UNCHANGED <<row, work, send, ran, starts>>

\* What a step of the queue amounts to.
Move ==
  \/ Quiet
  \/ \E w \in Procs \X Workers : \/ \E late \in SUBSET Rows, e \in Rows : Takes(w, late, e)
                                 \/ Begins(w)
  \/ \E e \in Rows, u \in Updates, a \in Actors, k \in Kinds : Admits(e, u, a, k)
  \/ \E x \in Procs \X Senders : \/ \E e \in Rows : TakesReply(x, e)
                                 \/ Replies(x)

\* The row ids are finitely many and none is 0, which stands for no row.
LEMMA RowsAreNumbers == Rows \subseteq Nat \ {0} /\ 0 \notin Rows /\ IsFiniteSet(Rows)
BY QueueAssumption, FS_Interval DEF Rows

\* Writing a row's status and owner changes nothing else.
LEMMA WrittenRows ==
  ASSUME NEW t \in [Rows -> Row], NEW e, NEW status \in Statuses, NEW q \in Procs \cup {None},
         NEW s, s = Written(t, e, status, q)
  PROVE  /\ s \in [Rows -> Row]
         /\ \A f \in Rows :
              /\ s[f].update = t[f].update /\ s[f].actor = t[f].actor
              /\ s[f].kind = t[f].kind /\ s[f].command = t[f].command
              /\ s[f].tries = t[f].tries
              /\ s[f].status = IF f = e THEN status ELSE t[f].status
<1>1. \A f \in Rows : t[f] \in Row
  OBVIOUS
<1>2. s = [f \in Rows |-> IF f = e THEN [t[f] EXCEPT !.status = status, !.owner = q]
                          ELSE t[f]]
  <2>1. CASE e \in Rows
    BY <2>1 DEF Written
  <2>2. CASE e \notin Rows
    BY <2>2 DEF Written
  <2> QED BY <2>1, <2>2
<1>4. ASSUME NEW f \in Rows
      PROVE  /\ s[f] \in Row
             /\ s[f].update = t[f].update /\ s[f].actor = t[f].actor
             /\ s[f].kind = t[f].kind /\ s[f].command = t[f].command
             /\ s[f].tries = t[f].tries
             /\ s[f].status = IF f = e THEN status ELSE t[f].status
  <2>1. CASE f = e
    <3>1. s[f] = [t[f] EXCEPT !.status = status, !.owner = q]
      BY <1>2, <2>1
    <3> QED BY <1>1, <2>1, <3>1 DEF Row
  <2>2. CASE f # e
    BY <1>1, <1>2, <2>2
  <2> QED BY <2>1, <2>2
<1>5. s = [f \in Rows |-> s[f]]
  BY <1>2
<1> QED BY <1>4, <1>5

\* _recover keeps the types of the rows and only settles some.
LEMMA RecoverySettles ==
  ASSUME TypeOK, NEW late
  PROVE  /\ Table(late) \in [Rows -> Row]
         /\ Settles(Table(late)) /\ SameTries(Table(late)) /\ Spares(Table(late))
<1>1. ASSUME NEW e \in Rows
      PROVE  /\ Recovered(row[e]) \in Row
             /\ Recovered(row[e]).update = row[e].update
             /\ Recovered(row[e]).actor = row[e].actor
             /\ Recovered(row[e]).kind = row[e].kind
             /\ Recovered(row[e]).command = row[e].command
             /\ Recovered(row[e]).tries = row[e].tries
             /\ \/ Recovered(row[e]).status = row[e].status
                \/ /\ row[e].status = "running" /\ Recovered(row[e]).status = "unknown"
                \/ /\ row[e].status = "queued" /\ Recovered(row[e]).status = "cancelled"
  <2>1. row[e] \in Row
    BY DEF TypeOK
  <2> QED BY <2>1 DEF Recovered, Row, Statuses, Terminal
<1>2. Table(late) = [e \in Rows |-> Table(late)[e]]
  BY DEF Table
<1>3. ASSUME NEW e \in Rows
      PROVE  /\ Table(late)[e] \in Row
             /\ Table(late)[e].update = row[e].update
             /\ Table(late)[e].actor = row[e].actor
             /\ Table(late)[e].kind = row[e].kind
             /\ Table(late)[e].command = row[e].command
             /\ Table(late)[e].tries = row[e].tries
             /\ \/ Table(late)[e].status = row[e].status
                \/ /\ Outcome(e, Table(late)[e].status)
                   /\ row[e].status = "running" => Table(late)[e].status = "unknown"
  <2>1. row[e] \in Row
    BY DEF TypeOK
  <2> QED BY <1>1, <2>1 DEF Table, Outcome, Terminal
<1> QED BY <1>2, <1>3 DEF Settles, Faithful, SameTries, Spares

\* A number of suspended coroutines leaves the bound of disturbances intact.
LEMMA SuspendedTyped ==
  ASSUME TypeOK, NEW late \in SUBSET Rows, Suspended(late)
  PROVE  events' \in 0 .. MaxEvents
<1> DEFINE S == {e \in late : Attended(e)}
<1>1. IsFiniteSet(S) /\ Cardinality(S) \in Nat
  <2>1. S \in SUBSET Rows
    OBVIOUS
  <2> HIDE DEF S
  <2> QED BY <2>1, RowsAreNumbers, FS_Subset, FS_CardinalityType
<1>2. Disturbed(Cardinality(S))
  BY DEF Suspended
<1> HIDE DEF S
<1> QED BY <1>1, <1>2, QueueAssumption DEF Disturbed, TypeOK

-----------------------------------------------------------------------------
(* Types *)

\* The count of disturbances keeps its bound.
LEMMA DisturbedTyped ==
  ASSUME TypeOK, NEW n \in Nat, Disturbed(n)
  PROVE  events' \in 0 .. MaxEvents
BY QueueAssumption DEF Disturbed, TypeOK

\* The end of a job: its row is settled, or the transaction failed.
LEMMA FinishSettles ==
  ASSUME TypeOK, NEW p \in Procs, NEW w \in Workers, NEW status \in Terminal,
         Finish(p, w, status), status # "cancelled",
         status = "succeeded" => work[<<p, w>>].stage = "executing"
  PROVE  /\ row' \in [Rows -> Row] /\ Settles(row') /\ SameTries(row')
         /\ \A e \in Rows : e # work[<<p, w>>].row => row'[e].status = row[e].status
         /\ events' \in 0 .. MaxEvents
         /\ work' \in [Procs \X Workers -> Work]
<1> DEFINE e == work[<<p, w>>].row
<1>1. /\ Completed(e, p, status) \in [Rows -> Row]
      /\ Settles(Completed(e, p, status)) /\ SameTries(Completed(e, p, status))
      /\ \A f \in Rows : f # e => Completed(e, p, status)[f].status = row[f].status
  <2> HIDE DEF e
  <2>1. CASE row[e].status = "running" /\ row[e].owner = p
    <3>1. Completed(e, p, status) = Written(row, e, status, None)
      BY <2>1 DEF Completed, Written
    <3>2. status \in Statuses /\ row \in [Rows -> Row] /\ None \in Procs \cup {None}
      BY DEF Statuses, TypeOK
    <3>3. PICK s : s = Completed(e, p, status)
      OBVIOUS
    <3>4. s \in [Rows -> Row]
      BY <3>1, <3>2, <3>3, WrittenRows
    <3>5. \A f \in Rows :
            /\ s[f].update = row[f].update /\ s[f].actor = row[f].actor
            /\ s[f].kind = row[f].kind /\ s[f].command = row[f].command
            /\ s[f].tries = row[f].tries
            /\ s[f].status = IF f = e THEN status ELSE row[f].status
      BY <3>1, <3>2, <3>3, WrittenRows
    <3>6. status = "succeeded" =>
            \E x \in Procs \X Workers : work[x].row = e /\ work[x].stage = "executing"
      BY DEF e
    <3> QED BY <2>1, <3>3, <3>4, <3>5, <3>6 DEF Settles, Outcome, Faithful, SameTries
  <2>2. CASE ~(row[e].status = "running" /\ row[e].owner = p)
    BY <2>2 DEF Completed, Settles, Faithful, SameTries, TypeOK
  <2> QED BY <2>1, <2>2
<1>2. row \in [Rows -> Row] /\ Settles(row) /\ SameTries(row)
  BY DEF Settles, Faithful, SameTries, TypeOK
<1>3. events' \in 0 .. MaxEvents
  BY DisturbedTyped DEF Finish, TypeOK
<1>4. Idle \in Work
  BY DEF Idle, Work, NoCommand, Command
<1>5. work' \in [Procs \X Workers -> Work]
  BY <1>4 DEF Finish, TypeOK
<1> QED BY <1>1, <1>2, <1>3, <1>5 DEF Finish

\* A job with what _execute read is well typed.
LEMMA JobTyped ==
  ASSUME TypeOK, NEW e \in Rows, NEW stage \in {"probing", "executing"}
  PROVE  Job(e, stage) \in Work
BY DEF Job, Work, TypeOK

\* The start of an executor keeps the types of the history.
LEMMA BeganTyped ==
  ASSUME TypeOK, NEW e, NEW u, NEW command \in Command, Began(e, u, command)
  PROVE  ran' \in [Rows -> SUBSET Command] /\ starts' \in [Updates -> Nat]
<1>1. /\ \A f \in Rows : ran[f] \in SUBSET Command
      /\ \A v \in Updates : starts[v] \in Nat
  BY DEF TypeOK
<1>2. ran' = [f \in Rows |-> IF f = e THEN ran[f] \cup {command} ELSE ran[f]]
  BY DEF Began, TypeOK
<1>3. starts' = [v \in Updates |-> IF v = u THEN starts[v] + 1 ELSE starts[v]]
  BY DEF Began, TypeOK
<1> QED BY <1>1, <1>2, <1>3

\* A worker's claim either settles rows, or takes one of a settled table.
LEMMA ClaimMoves ==
  ASSUME TypeOK, NEW p \in Procs, NEW w \in Workers, NEW late \in SUBSET Overdue,
         NEW e \in Rows, Claim(p, w, late, e)
  PROVE  /\ \/ /\ Settles(row') /\ SameTries(row') /\ Spares(row')
               /\ UNCHANGED <<work, ran, starts>>
            \/ Takes(<<p, w>>, late, e)
         /\ row' \in [Rows -> Row]
         /\ UNCHANGED <<proc, config, send, accepted, shown>>
         /\ events' \in 0 .. MaxEvents
<1> DEFINE t == Table(late)
<1>1. t \in [Rows -> Row] /\ Settles(t) /\ SameTries(t) /\ Spares(t)
  BY RecoverySettles
<1>2. t[e].status = "queued" /\ row[e].status = "queued"
  BY <1>1 DEF Claim, Claimable, Settles, Outcome, Terminal
<1>3. /\ t[e].kind = row[e].kind /\ t[e].update = row[e].update
      /\ t[e].command = row[e].command
  BY <1>1 DEF Settles, Faithful
<1>4. events' \in 0 .. MaxEvents
  BY SuspendedTyped DEF Claim, Overdue
<1> HIDE DEF t
<1>5. Taken(t, e, p) \in [Rows -> Row]
  <2>1. "running" \in Statuses /\ p \in Procs \cup {None}
    BY DEF Statuses
  <2> QED BY <1>1, <2>1, WrittenRows DEF Taken
<1>6. CASE row' = [t EXCEPT ![e].status = "failed"] /\ UNCHANGED <<work, ran, starts>>
  <2>1. row' \in [Rows -> Row]
    BY <1>1, <1>6 DEF Row, Statuses, Terminal
  <2>2. \A f \in Rows : /\ row'[f].tries = t[f].tries
                        /\ row'[f].update = t[f].update /\ row'[f].actor = t[f].actor
                        /\ row'[f].kind = t[f].kind /\ row'[f].command = t[f].command
                        /\ row'[f].status = IF f = e THEN "failed" ELSE t[f].status
    BY <1>1, <1>6 DEF Row
  <2>3. Settles(row') /\ SameTries(row') /\ Spares(row')
    BY <1>1, <1>2, <2>2 DEF Settles, Outcome, Faithful, SameTries, Spares, Terminal
  <2> QED BY <1>4, <1>6, <2>1, <2>3 DEF Claim
<1>7. CASE row' = Taken(t, e, p)
  <2>1. Takes(<<p, w>>, late, e)
    BY <1>3, <1>7 DEF Claim, Idling, Takes, Taken, Written, t, UnchangedSince
  <2> QED BY <1>4, <1>5, <1>7, <2>1 DEF Claim
<1> QED BY <1>6, <1>7 DEF Claim, Taken, Written, t

\* A delivery's claim settles rows, and marks at most one terminal row.
LEMMA ClaimDeliveryMoves ==
  ASSUME TypeOK, NEW p \in Procs, NEW d \in Senders, NEW late \in SUBSET Overdue,
         ClaimDelivery(p, d, late)
  PROVE  /\ \/ Settles(row') /\ SameTries(row') /\ Spares(row') /\ UNCHANGED send
            \/ \E e \in Rows : TakesReply(<<p, d>>, e)
         /\ row' \in [Rows -> Row]
         /\ send' \in [Procs \X Senders -> Rows \cup {0}]
         /\ events' \in 0 .. MaxEvents
<1> DEFINE t == Table(late)
<1>1. t \in [Rows -> Row] /\ Settles(t) /\ SameTries(t) /\ Spares(t)
  BY RecoverySettles
<1>2. events' \in 0 .. MaxEvents
  BY SuspendedTyped DEF ClaimDelivery, Overdue
<1> HIDE DEF t
<1>3. CASE row' = t /\ UNCHANGED send
  BY <1>1, <1>2, <1>3 DEF TypeOK
<1>4. ASSUME NEW e \in Rows, Deliverable(t, e),
             row' = [t EXCEPT ![e].reply = "sending", ![e].tries = @ + 1, ![e].owner = p],
             send' = [send EXCEPT ![<<p, d>>] = e]
      PROVE  /\ TakesReply(<<p, d>>, e) /\ row' \in [Rows -> Row]
             /\ send' \in [Procs \X Senders -> Rows \cup {0}]
  <2>1. \A f \in Rows : t[f] \in Row
    BY <1>1
  <2>2. row' = [f \in Rows |->
                  IF f = e THEN [t[f] EXCEPT !.reply = "sending", !.tries = @ + 1, !.owner = p]
                  ELSE t[f]]
    BY <1>1, <1>4
  <2>3. ASSUME NEW f \in Rows
        PROVE  /\ row'[f] \in Row
               /\ row'[f].update = t[f].update /\ row'[f].actor = t[f].actor
               /\ row'[f].kind = t[f].kind /\ row'[f].command = t[f].command
               /\ row'[f].status = t[f].status
               /\ row'[f].tries = IF f = e THEN t[f].tries + 1 ELSE t[f].tries
    <3>1. CASE f = e
      <4>1. row'[f] = [t[f] EXCEPT !.reply = "sending", !.tries = @ + 1, !.owner = p]
        BY <2>2, <3>1
      <4>2. t[f].tries + 1 \in 0 .. MaxTries
        BY <1>4, <2>1, <3>1, QueueAssumption DEF Deliverable, Row
      <4>3. t[f] \in Row
        BY <2>1
      <4> QED BY <3>1, <4>1, <4>2, <4>3 DEF Row
    <3>2. CASE f # e
      BY <2>1, <2>2, <3>2
    <3> QED BY <3>1, <3>2
  <2>4. row' = [f \in Rows |-> row'[f]]
    BY <2>2
  <2>5. send' \in [Procs \X Senders -> Rows \cup {0}]
    BY <1>4 DEF TypeOK
  <2>6. Settles(row') /\ Spares(row')
    BY <1>1, <2>3 DEF Settles, Faithful, Spares
  <2>7. row'[e].status \in Terminal
    BY <1>4, <2>3 DEF Deliverable
  <2>8. \A f \in Rows : row'[f].tries = IF f = e THEN row[f].tries + 1 ELSE row[f].tries
    BY <1>1, <2>3 DEF SameTries
  <2> QED BY <1>4, <2>3, <2>4, <2>5, <2>6, <2>7, <2>8 DEF ClaimDelivery, TakesReply
<1> QED BY <1>2, <1>3, <1>4 DEF ClaimDelivery, t

\* The end of a delivery changes the reply's state only.
LEMMA DeliveredMoves ==
  ASSUME TypeOK, NEW p \in Procs, NEW d \in Senders, NEW reply \in {"sent", "failed"},
         NEW n, Delivered(p, d, reply, n)
  PROVE  /\ Faithful(row') /\ SameTries(row') /\ row' \in [Rows -> Row]
         /\ Settles(row') /\ Spares(row')
         /\ send' \in [Procs \X Senders -> Rows \cup {0}]
         /\ accepted' \subseteq Procs \X Senders /\ EndsSending
<1> DEFINE e == send[<<p, d>>]
           s == [row EXCEPT ![e].reply = reply, ![e].owner = None]
<1>1. \A f \in Rows : row[f] \in Row
  BY DEF TypeOK
<1>2. s = [f \in Rows |-> IF f = e THEN [row[f] EXCEPT !.reply = reply, !.owner = None]
                          ELSE row[f]]
  <2>1. row \in [Rows -> Row]
    BY DEF TypeOK
  <2> HIDE DEF e
  <2>2. CASE e \in Rows
    BY <2>1, <2>2
  <2>3. CASE e \notin Rows
    BY <2>1, <2>3
  <2> QED BY <2>2, <2>3
<1> HIDE DEF e, s
<1>3. ASSUME NEW f \in Rows
      PROVE  /\ s[f] \in Row
             /\ s[f].update = row[f].update /\ s[f].actor = row[f].actor
             /\ s[f].kind = row[f].kind /\ s[f].command = row[f].command
             /\ s[f].status = row[f].status /\ s[f].tries = row[f].tries
  <2>1. CASE f = e
    <3>1. s[f] = [row[f] EXCEPT !.reply = reply, !.owner = None]
      BY <1>2, <2>1
    <3> QED BY <1>1, <3>1 DEF Row
  <2>2. CASE f # e
    BY <1>1, <1>2, <2>2
  <2> QED BY <2>1, <2>2
<1>4. s = [f \in Rows |-> s[f]]
  BY <1>2
<1>5. row' = s \/ row' = row
  BY DEF Delivered, s, e
<1>6. send' \in [Procs \X Senders -> Rows \cup {0}]
  BY DEF Delivered, TypeOK
<1>7. s \in [Rows -> Row]
  BY <1>3, <1>4
<1>8. accepted' \subseteq Procs \X Senders /\ EndsSending
  BY DEF Delivered, TypeOK, EndsSending
<1>9. /\ Faithful(row') /\ SameTries(row') /\ row' \in [Rows -> Row]
      /\ \A f \in Rows : row'[f].status = row[f].status
  BY <1>3, <1>5, <1>7 DEF Faithful, SameTries, TypeOK
<1> QED BY <1>6, <1>8, <1>9 DEF Settles, Spares

\* A row that is admitted is queued and about the present command.
LEMMA QueuedTyped ==
  ASSUME TypeOK, NEW u \in Updates, NEW a \in Actors, NEW k \in Kinds
  PROVE  /\ Queued(u, a, k) \in Row
         /\ Queued(u, a, k).update = u /\ Queued(u, a, k).status = "queued"
         /\ Queued(u, a, k).command = config.command
<1>1. NoRow \in Row
  BY QueueAssumption DEF NoRow, Row, Statuses, NoCommand, Command
<1>2. config.command \in Command
  BY DEF TypeOK
<1> HIDE DEF NoRow
<1> QED BY <1>1, <1>2 DEF Queued, Row, Statuses

\* Pruning a row changes no outcome.
LEMMA PruneMoves ==
  ASSUME TypeOK, NEW e \in Rows, Prune(e)
  PROVE  Settles(row') /\ SameTries(row') /\ Spares(row') /\ row' \in [Rows -> Row]
<1>1. \A f \in Rows : row[f] \in Row
  BY DEF TypeOK
<1>2. row' = [f \in Rows |-> IF f = e THEN [row[f] EXCEPT !.reply = "pruned", !.owner = None]
                             ELSE row[f]]
  BY DEF Prune, TypeOK
<1>3. ASSUME NEW f \in Rows
      PROVE  /\ row'[f] \in Row
             /\ row'[f].update = row[f].update /\ row'[f].actor = row[f].actor
             /\ row'[f].kind = row[f].kind /\ row'[f].command = row[f].command
             /\ row'[f].status = row[f].status /\ row'[f].tries = row[f].tries
  <2>1. CASE f = e
    <3>1. row'[f] = [row[f] EXCEPT !.reply = "pruned", !.owner = None]
      BY <1>2, <2>1
    <3> QED BY <1>1, <3>1 DEF Row
  <2>2. CASE f # e
    BY <1>1, <1>2, <2>2
  <2> QED BY <2>1, <2>2
<1>4. row' = [f \in Rows |-> row'[f]]
  BY <1>2
<1> QED BY <1>3, <1>4 DEF Settles, Faithful, SameTries, Spares

\* Steps that do not touch the rows, and leave coroutines alone or end them.
LEMMA UntouchedRows ==
  ASSUME TypeOK, UNCHANGED <<row, ran, starts, shown>>, EndsSending,
         \A x \in Procs \X Workers : work'[x] = work[x] \/ work'[x] = Idle
  PROVE  Quiet
BY DEF Quiet, Settles, Faithful, SameTries, Spares

\* Every step is one of these, and keeps the types.
LEMMA StepMoves ==
  ASSUME TypeOK, Next
  PROVE  TypeOK' /\ Move
<1>1. ASSUME NEW p \in Procs, Start(p)
      PROVE  TypeOK' /\ Move
  BY <1>1, UntouchedRows DEF Start, TypeOK, Move, EndsSending
<1>2. ASSUME NEW p \in Procs, NEW e \in Rows, NEW u \in Updates, NEW a \in Actors,
             NEW k \in Kinds, Enqueue(p, e, u, a, k)
      PROVE  TypeOK' /\ Move
  <2>1. Admits(e, u, a, k)
    BY <1>2 DEF Enqueue, Admits
  <2>2. TypeOK'
    BY <1>2, QueuedTyped DEF Enqueue, TypeOK
  <2> QED BY <2>1, <2>2 DEF Move
<1>3. ASSUME NEW p \in Procs, NEW w \in Workers, NEW late \in SUBSET Overdue,
             ClaimNothing(p, w, late)
      PROVE  TypeOK' /\ Move
  <2>1. TypeOK'
    BY <1>3, RecoverySettles, SuspendedTyped DEF ClaimNothing, TypeOK, Overdue
  <2>2. Quiet
    BY <1>3, RecoverySettles DEF ClaimNothing, Quiet, EndsSending
  <2> QED BY <2>1, <2>2 DEF Move
<1>4. ASSUME NEW p \in Procs, NEW w \in Workers, NEW late \in SUBSET Overdue,
             NEW e \in Rows, Claim(p, w, late, e)
      PROVE  TypeOK' /\ Move
  <2> DEFINE x == <<p, w>>
  <2>1. /\ \/ /\ Settles(row') /\ SameTries(row') /\ Spares(row')
              /\ UNCHANGED <<work, ran, starts>>
           \/ Takes(x, late, e)
        /\ row' \in [Rows -> Row]
        /\ UNCHANGED <<proc, config, send, accepted, shown>>
        /\ events' \in 0 .. MaxEvents
    BY <1>4, ClaimMoves
  <2>2. late \in SUBSET Rows
    BY DEF Overdue
  <2>3. x \in Procs \X Workers
    OBVIOUS
  <2> HIDE DEF x
  <2>4. CASE /\ Settles(row') /\ SameTries(row') /\ Spares(row')
             /\ UNCHANGED <<work, ran, starts>>
    BY <2>1, <2>4 DEF TypeOK, Move, Quiet, EndsSending
  <2>5. CASE Takes(x, late, e)
    <3>1. work' \in [Procs \X Workers -> Work]
      BY <2>5, JobTyped DEF Takes, TypeOK
    <3>2. ran' \in [Rows -> SUBSET Command] /\ starts' \in [Updates -> Nat]
      BY <2>5, BeganTyped DEF Takes, TypeOK
    <3> QED BY <2>1, <2>2, <2>3, <2>5, <3>1, <3>2 DEF TypeOK, Move
  <2> QED BY <2>1, <2>4, <2>5
<1>5. ASSUME NEW p \in Procs, NEW w \in Workers, Probed(p, w)
      PROVE  TypeOK' /\ Move
  <2> DEFINE x == <<p, w>>
  <2>1. x \in Procs \X Workers /\ work[x] \in Work
    BY DEF TypeOK
  <2>2. CASE Finish(p, w, "failed") /\ UNCHANGED <<ran, starts>>
    <3>1. /\ row' \in [Rows -> Row] /\ Settles(row') /\ SameTries(row')
          /\ \A e \in Rows : e # work[x].row => row'[e].status = row[e].status
          /\ \A e \in Rows : e # work[<<p, w>>].row => row'[e].status = row[e].status
        /\ events' \in 0 .. MaxEvents /\ work' \in [Procs \X Workers -> Work]
      BY <2>2, FinishSettles DEF Terminal
    <3>2. work' = [work EXCEPT ![x] = Idle]
      BY <2>2 DEF Finish
    <3> QED BY <1>5, <2>1, <2>2, <3>1, <3>2 DEF Probed, TypeOK, Move, Quiet, EndsSending
  <2>3. CASE /\ work' = [work EXCEPT ![x].stage = "executing"]
             /\ Began(work[x].row, row[work[x].row].update, work[x].command)
             /\ UNCHANGED <<row, events>>
    <3>1. Begins(x)
      BY <1>5, <2>3 DEF Probed, Begins
    <3>2. work[x].command \in Command
      BY <2>1 DEF Work
    <3>3. ran' \in [Rows -> SUBSET Command] /\ starts' \in [Updates -> Nat]
      BY <2>3, <3>2, BeganTyped
    <3>4. work' \in [Procs \X Workers -> Work]
      BY <2>1, <2>3 DEF TypeOK, Work
    <3> QED BY <1>5, <2>1, <2>3, <3>1, <3>3, <3>4 DEF Probed, TypeOK, Move
  <2> QED BY <1>5, <2>2, <2>3 DEF Probed
<1>6. ASSUME NEW p \in Procs, NEW w \in Workers, Executed(p, w)
      PROVE  TypeOK' /\ Move
  <2>1. PICK status \in {"succeeded", "failed"} : Finish(p, w, status)
    BY <1>6 DEF Executed
  <2>2. work[<<p, w>>].stage = "executing"
    BY <1>6 DEF Executed
  <2>3. /\ row' \in [Rows -> Row] /\ Settles(row') /\ SameTries(row')
        /\ \A e \in Rows : e # work[<<p, w>>].row => row'[e].status = row[e].status
        /\ events' \in 0 .. MaxEvents /\ work' \in [Procs \X Workers -> Work]
    BY <2>1, <2>2, FinishSettles DEF Terminal
  <2>4. work' = [work EXCEPT ![<<p, w>>] = Idle]
    BY <2>1 DEF Finish
  <2> QED BY <1>6, <2>3, <2>4 DEF Executed, TypeOK, Move, Quiet, EndsSending
<1>7. ASSUME NEW p \in Procs, NEW w \in Workers, Interrupted(p, w)
      PROVE  TypeOK' /\ Move
  <2>1. /\ row' \in [Rows -> Row] /\ Settles(row') /\ SameTries(row')
        /\ \A e \in Rows : e # work[<<p, w>>].row => row'[e].status = row[e].status
        /\ events' \in 0 .. MaxEvents /\ work' \in [Procs \X Workers -> Work]
    BY <1>7, FinishSettles DEF Terminal, Interrupted
  <2>2. work' = [work EXCEPT ![<<p, w>>] = Idle]
    BY <1>7 DEF Finish, Interrupted
  <2> QED BY <1>7, <2>1, <2>2 DEF Interrupted, TypeOK, Move, Quiet, EndsSending
<1>8. ASSUME NEW p \in Procs, NEW d \in Senders, NEW late \in SUBSET Overdue,
             ClaimDelivery(p, d, late)
      PROVE  TypeOK' /\ Move
  <2>1. /\ \/ Settles(row') /\ SameTries(row') /\ Spares(row') /\ UNCHANGED send
           \/ \E e \in Rows : TakesReply(<<p, d>>, e)
        /\ row' \in [Rows -> Row]
        /\ send' \in [Procs \X Senders -> Rows \cup {0}]
        /\ events' \in 0 .. MaxEvents
    BY <1>8, ClaimDeliveryMoves
  <2> QED BY <1>8, <2>1 DEF ClaimDelivery, TypeOK, Move, Quiet, EndsSending
<1>9. ASSUME NEW p \in Procs, NEW d \in Senders, Sent(p, d) \/ SendFailed(p, d)
      PROVE  TypeOK' /\ Move
  <2>1. PICK reply \in {"sent", "failed"}, n \in {0, 1} : Delivered(p, d, reply, n)
    BY <1>9 DEF Sent, SendFailed
  <2>2. /\ Settles(row') /\ Spares(row') /\ SameTries(row') /\ row' \in [Rows -> Row]
        /\ send' \in [Procs \X Senders -> Rows \cup {0}]
        /\ accepted' \subseteq Procs \X Senders /\ EndsSending
    BY <2>1, DeliveredMoves
  <2>3. events' \in 0 .. MaxEvents
    BY <2>1, DisturbedTyped DEF Delivered
  <2>4. UNCHANGED <<proc, config, work, ran, starts, shown>>
    BY <1>9 DEF Sent, SendFailed
  <2> QED BY <2>2, <2>3, <2>4 DEF TypeOK, Move, Quiet
<1>14. ASSUME NEW p \in Procs, NEW d \in Senders, Accept(p, d)
       PROVE  TypeOK' /\ Move
  <2> DEFINE x == <<p, d>>
  <2>1. /\ send[x] # 0 /\ x \notin accepted /\ accepted' = accepted \cup {x}
        /\ shown' = [shown EXCEPT ![row[send[x]].update] = @ + 1]
        /\ UNCHANGED <<proc, config, events, row, work, send, ran, starts>>
    BY <1>14 DEF Accept
  <2>2. shown' \in [Updates -> Nat]
    <3>1. shown' = [v \in Updates |-> IF v = row[send[x]].update THEN shown[v] + 1 ELSE shown[v]]
      BY <2>1 DEF TypeOK
    <3> QED BY <3>1 DEF TypeOK
  <2>3. x \in Procs \X Senders
    OBVIOUS
  <2> HIDE DEF x
  <2>4. Replies(x)
    BY <2>1 DEF Replies
  <2> QED BY <2>1, <2>2, <2>3, <2>4 DEF TypeOK, Move
<1>10. ASSUME NEW p \in Procs, Close(p) \/ Closed(p)
       PROVE  TypeOK' /\ Move
  <2>1. events' \in 0 .. MaxEvents
    BY <1>10, DisturbedTyped DEF Close, Closed, TypeOK
  <2> QED BY <1>10, <2>1, UntouchedRows DEF Close, Closed, TypeOK, Move, EndsSending
<1>11. ASSUME NEW p \in Procs, Crash(p)
       PROVE  TypeOK' /\ Move
  <2>1. events' \in 0 .. MaxEvents
    BY <1>11, DisturbedTyped DEF Crash
  <2>2. Idle \in Work
    BY DEF Idle, Work, NoCommand, Command
  <2>3. Quiet
    BY <1>11, UntouchedRows DEF Crash, EndsSending, TypeOK
  <2> QED BY <1>11, <2>1, <2>2, <2>3 DEF Crash, TypeOK, Move
<1>12. ASSUME EditCommand \/ DeleteCommand \/ CreateCommand \/ ChangeRole
       PROVE  TypeOK' /\ Move
  <2>1. events' \in 0 .. MaxEvents
    BY <1>12, DisturbedTyped DEF EditCommand, DeleteCommand, CreateCommand, ChangeRole
  <2>2. config' \in [command : Command, granted : BOOLEAN]
    <3>1. /\ config \in [command : Command, granted : BOOLEAN]
          /\ config.command.rev \in Nat /\ config.command.life \in Nat
      BY DEF TypeOK, Command
    <3>2. CASE EditCommand
      <4>1. config' = [config EXCEPT !.command = [config.command EXCEPT !.rev = @ + 1]]
        BY <3>2 DEF EditCommand
      <4>2. [config.command EXCEPT !.rev = @ + 1] \in Command
        BY <3>1 DEF Command
      <4> QED BY <3>1, <4>1, <4>2
    <3>3. CASE DeleteCommand
      <4>1. config' = [config EXCEPT !.command = [config.command EXCEPT !.rev = 0]]
        BY <3>3 DEF DeleteCommand
      <4>2. [config.command EXCEPT !.rev = 0] \in Command
        BY <3>1 DEF Command
      <4> QED BY <3>1, <4>1, <4>2
    <3>4. CASE CreateCommand
      <4>1. [life |-> config.command.life + 1, rev |-> 1] \in Command
        BY <3>1 DEF Command
      <4> QED BY <3>1, <3>4, <4>1 DEF CreateCommand
    <3>5. CASE ChangeRole
      BY <3>1, <3>5 DEF ChangeRole
    <3> QED BY <1>12, <3>2, <3>3, <3>4, <3>5
  <2>3. UNCHANGED <<proc, row, work, send, accepted, ran, starts, shown>>
    BY <1>12 DEF EditCommand, DeleteCommand, CreateCommand, ChangeRole
  <2>4. Quiet
    BY <2>3, UntouchedRows DEF EndsSending
  <2> QED BY <2>1, <2>2, <2>3, <2>4 DEF TypeOK, Move
<1>13. ASSUME NEW e \in Rows, Prune(e)
       PROVE  TypeOK' /\ Move
  <2>1. events' \in 0 .. MaxEvents
    BY <1>13, DisturbedTyped DEF Prune
  <2> QED BY <1>13, <2>1, PruneMoves DEF Prune, TypeOK, Move, Quiet, EndsSending
<1> QED BY <1>1, <1>2, <1>3, <1>4, <1>5, <1>6, <1>7, <1>8, <1>9, <1>10, <1>11, <1>12,
     <1>13, <1>14 DEF Next, Admission, WorkerStep, SenderStep, Environment

-----------------------------------------------------------------------------
(* Jobs *)

\* A worker's job is a row that was running when it was taken and can at most
\* have been given up since, and the command it was admitted for.
Jobs ==
  \A x \in Procs \X Workers :
    /\ work[x].row = 0 <=> work[x].stage = "idle"
    /\ work[x].row # 0 =>
         /\ row[work[x].row].status \in {"running", "unknown"}
         /\ work[x].command.rev = row[work[x].row].command.rev

\* The table is t but for row e, which was queued and now runs.
Handed(t, e) ==
  /\ Faithful(row') /\ SameTries(row')
  /\ row[e].status = "queued"
  /\ \A f \in Rows : row'[f].status = IF f = e THEN "running" ELSE t[f].status

\* What the table looks like after row e was taken.
LEMMA TakenRows ==
  ASSUME TypeOK, NEW w \in Procs \X Workers, NEW late \in SUBSET Rows, NEW e \in Rows,
         Takes(w, late, e)
  PROVE  Handed(Table(late), e)
<1>1. /\ Table(late) \in [Rows -> Row]
      /\ Settles(Table(late)) /\ SameTries(Table(late))
  BY RecoverySettles
<1>2. "running" \in Statuses /\ w[1] \in Procs \cup {None}
  BY DEF Statuses
<1>3. row' = Written(Table(late), e, "running", w[1])
  BY DEF Takes, Taken
<1>4. /\ row' \in [Rows -> Row]
      /\ \A f \in Rows :
           LET t == Table(late)
           IN  /\ row'[f].update = t[f].update /\ row'[f].actor = t[f].actor
               /\ row'[f].kind = t[f].kind /\ row'[f].command = t[f].command
               /\ row'[f].tries = t[f].tries
               /\ row'[f].status = IF f = e THEN "running" ELSE t[f].status
  BY <1>1, <1>2, <1>3, WrittenRows
<1>5. Table(late)[e].status = "queued"
  BY DEF Takes, Claimable
<1>6. row[e].status = "queued"
  BY <1>1, <1>5 DEF Settles, Outcome, Terminal
<1> QED BY <1>1, <1>4, <1>6 DEF Handed, Settles, Faithful, SameTries

\* Jobs, and that no two are about one row, are kept by every step.
LEMMA JobsStep ==
  ASSUME TypeOK, Jobs, OneExecutor, Move
  PROVE  Jobs' /\ OneExecutor'
<1>0. \A x \in Procs \X Workers : work[x] \in Work
  BY DEF TypeOK
<1>1. CASE Quiet
  <2>1. OneExecutor'
    BY <1>1 DEF Quiet, OneExecutor, Idle
  <2>2. ASSUME NEW x \in Procs \X Workers, work'[x].row # 0
        PROVE  row'[work'[x].row].status \in {"running", "unknown"}
    <3>1. work'[x] = work[x] /\ work[x].row \in Rows
      BY <1>0, <1>1, <2>2 DEF Quiet, Idle, Work
    <3>2. row[work[x].row].status \in {"running", "unknown"}
      BY <2>2, <3>1 DEF Jobs
    <3>3. CASE Spares(row')
      BY <1>1, <3>1, <3>2, <3>3 DEF Quiet, Settles, Outcome, Spares
    <3>4. ASSUME NEW y \in Procs \X Workers, work'[y] = Idle,
                 \A e \in Rows : e # work[y].row => row'[e].status = row[e].status
          PROVE  row'[work'[x].row].status \in {"running", "unknown"}
      <4>1. work[x].row # work[y].row
        BY <2>2, <3>1, <3>4 DEF OneExecutor, Idle
      <4> QED BY <3>1, <3>2, <3>4, <4>1
    <3> QED BY <1>1, <3>3, <3>4 DEF Quiet
  <2>3. \A x \in Procs \X Workers :
          work'[x].row # 0 => work'[x].command.rev = row'[work'[x].row].command.rev
    BY <1>0, <1>1 DEF Quiet, Settles, Faithful, Jobs, Idle, Work
  <2>4. \A x \in Procs \X Workers : work'[x].row = 0 <=> work'[x].stage = "idle"
    BY <1>1 DEF Quiet, Jobs, Idle
  <2> QED BY <2>1, <2>2, <2>3, <2>4 DEF Jobs
<1>2. ASSUME NEW w \in Procs \X Workers, NEW late \in SUBSET Rows, NEW e \in Rows,
             Takes(w, late, e)
      PROVE  Jobs' /\ OneExecutor'
  <2>1. /\ Faithful(row') /\ row[e].status = "queued"
        /\ \A f \in Rows : row'[f].status = IF f = e THEN "running" ELSE Table(late)[f].status
    BY <1>2, TakenRows DEF Handed
  <2>2. Settles(Table(late)) /\ Spares(Table(late))
    BY RecoverySettles
  <2>3. \A x \in Procs \X Workers : work[x].row # e
    BY <2>1, RowsAreNumbers DEF Jobs
  <2>4. ASSUME NEW x \in Procs \X Workers, work[x].row # 0
        PROVE  /\ row'[work[x].row].status \in {"running", "unknown"}
               /\ work[x].command.rev = row'[work[x].row].command.rev
    <3>1. /\ work[x].row \in Rows /\ work[x].row # e
          /\ row[work[x].row].status \in {"running", "unknown"}
          /\ work[x].command.rev = row[work[x].row].command.rev
      BY <1>0, <2>3, <2>4 DEF Work, Jobs
    <3> QED BY <2>1, <2>2, <3>1 DEF Faithful, Settles, Outcome, Spares
  <2>5. \/ UNCHANGED work
        \/ \E stage \in {"probing", "executing"} :
             UnchangedSince(row[e]) /\ work' = [work EXCEPT ![w] = Job(e, stage)]
    BY <1>2 DEF Takes
  <2>6. CASE UNCHANGED work
    BY <2>4, <2>6 DEF Jobs, OneExecutor
  <2>7. ASSUME NEW stage \in {"probing", "executing"}, UnchangedSince(row[e]),
               work' = [work EXCEPT ![w] = Job(e, stage)]
        PROVE  Jobs' /\ OneExecutor'
    <3>1. \A x \in Procs \X Workers : work'[x] = IF x = w THEN Job(e, stage) ELSE work[x]
      BY <2>7 DEF TypeOK
    <3>2. /\ Job(e, stage).row = e /\ Job(e, stage).stage = stage
          /\ Job(e, stage).command.rev = row[e].command.rev
      BY <2>7 DEF Job, UnchangedSince
    <3>3. OneExecutor'
      BY <2>3, <3>1, <3>2 DEF OneExecutor
    <3>4. row'[e].status = "running" /\ row'[e].command = row[e].command /\ e # 0
      BY <2>1, RowsAreNumbers DEF Faithful
    <3>5. Jobs'
      BY <2>4, <3>1, <3>2, <3>4 DEF Jobs
    <3> QED BY <3>3, <3>5
  <2> QED BY <2>5, <2>6, <2>7
<1>3. ASSUME NEW w \in Procs \X Workers, Begins(w)
      PROVE  Jobs' /\ OneExecutor'
  <2>1. \A x \in Procs \X Workers :
          /\ work'[x].row = work[x].row /\ work'[x].command = work[x].command
          /\ work'[x].stage = IF x = w THEN "executing" ELSE work[x].stage
    BY <1>0, <1>3 DEF Begins, Work, TypeOK
  <2>2. UNCHANGED row /\ work[w].stage = "probing"
    BY <1>3 DEF Begins
  <2> QED BY <2>1, <2>2 DEF Jobs, OneExecutor
<1>4. ASSUME NEW e \in Rows, NEW u \in Updates, NEW a \in Actors, NEW k \in Kinds,
             Admits(e, u, a, k)
      PROVE  Jobs' /\ OneExecutor'
  <2>1. UNCHANGED work /\ row[e].status = "none"
    BY <1>4 DEF Admits, Fresh, Used
  <2>2. \A f \in Rows : f # e => row'[f] = row[f]
    BY <1>4 DEF Admits, TypeOK
  <2> QED BY <1>0, <2>1, <2>2 DEF Jobs, OneExecutor, Work
<1>5. ASSUME NEW x \in Procs \X Senders, NEW e \in Rows, TakesReply(x, e)
      PROVE  Jobs' /\ OneExecutor'
  <2>1. UNCHANGED work /\ Settles(row') /\ Spares(row')
    BY <1>5 DEF TakesReply
  <2> QED BY <1>0, <2>1 DEF Jobs, OneExecutor, Work, Settles, Faithful, Outcome, Spares
<1>6. ASSUME NEW x \in Procs \X Senders, Replies(x)
      PROVE  Jobs' /\ OneExecutor'
  BY <1>6 DEF Replies, Jobs, OneExecutor
<1> QED BY <1>1, <1>2, <1>3, <1>4, <1>5, <1>6 DEF Move

-----------------------------------------------------------------------------
(* Limits *)

Python(t) == {e \in Running(t) : t[e].kind = "python"}

\* LimitsKept of any table.
Limited(t) ==
  /\ Cardinality(Running(t)) <= MaxWorkers
  /\ Cardinality(Python(t)) <= PythonWorkers
  /\ \A e, f \in Running(t) : t[e].actor = t[f].actor => e = f

\* What runs in a table can be counted.
LEMMA RunningFinite ==
  ASSUME NEW t
  PROVE  /\ IsFiniteSet(Running(t)) /\ Cardinality(Running(t)) \in Nat
         /\ IsFiniteSet(Python(t)) /\ Cardinality(Python(t)) \in Nat
<1>1. Running(t) \in SUBSET Rows /\ Python(t) \in SUBSET Rows
  BY DEF Running, Python
<1> QED BY <1>1, RowsAreNumbers, FS_Subset, FS_CardinalityType

\* A table in which fewer rows run is within the limits too.
LEMMA FewerRun ==
  ASSUME NEW s, NEW t, Limited(s), Running(t) \subseteq Running(s),
         \A e \in Rows : t[e].kind = s[e].kind /\ t[e].actor = s[e].actor
  PROVE  Limited(t)
<1>1. Running(t) \in SUBSET Running(s) /\ Python(t) \in SUBSET Python(s)
  BY DEF Running, Python
<1>2. /\ Cardinality(Running(t)) <= Cardinality(Running(s))
      /\ Cardinality(Python(t)) <= Cardinality(Python(s))
  BY <1>1, RunningFinite, FS_Subset
<1>3. /\ Cardinality(Running(t)) <= MaxWorkers
      /\ Cardinality(Python(t)) <= PythonWorkers
  BY <1>2, RunningFinite, QueueAssumption DEF Limited
<1>4. \A e, f \in Running(t) : t[e].actor = t[f].actor => e = f
  BY DEF Limited, Running
<1> QED BY <1>3, <1>4 DEF Limited

\* A claimable row may be added to what runs.
LEMMA OneMoreRuns ==
  ASSUME NEW s, NEW t, Limited(t), NEW e \in Rows, Claimable(t, e),
         \A f \in Rows : /\ s[f].kind = t[f].kind /\ s[f].actor = t[f].actor
                         /\ s[f].status = IF f = e THEN "running" ELSE t[f].status
  PROVE  Limited(s)
<1>1. e \notin Running(t) /\ Running(s) = Running(t) \cup {e}
  BY DEF Running, Claimable
<1>2. Cardinality(Running(s)) = Cardinality(Running(t)) + 1
  BY <1>1, RunningFinite, FS_AddElement
<1>3. Cardinality(Running(s)) <= MaxWorkers
  BY <1>2, RunningFinite, QueueAssumption DEF Claimable
<1>4. Cardinality(Python(s)) <= PythonWorkers
  <2>1. CASE t[e].kind = "python"
    <3>1. Python(s) = Python(t) \cup {e} /\ e \notin Python(t)
      BY <1>1, <2>1 DEF Python, Running
    <3>2. Cardinality(Python(s)) = Cardinality(Python(t)) + 1
      BY <3>1, RunningFinite, FS_AddElement
    <3>3. Cardinality(Python(t)) < PythonWorkers
      BY <2>1 DEF Claimable, Python
    <3> QED BY <3>2, <3>3, RunningFinite, QueueAssumption
  <2>2. CASE t[e].kind # "python"
    <3>1. Python(s) = Python(t)
      BY <1>1, <2>2 DEF Python, Running
    <3> QED BY <3>1 DEF Limited
  <2> QED BY <2>1, <2>2
<1>5. \A f, g \in Running(s) : s[f].actor = s[g].actor => f = g
  BY <1>1 DEF Limited, Claimable, Running
<1> QED BY <1>3, <1>4, <1>5 DEF Limited

\* Settling rows only ends executions.
LEMMA SettledRun ==
  ASSUME NEW t, Settles(t), Limited(row)
  PROVE  Limited(t)
<1>1. Running(t) \subseteq Running(row)
  BY DEF Settles, Outcome, Running, Terminal
<1> QED BY <1>1, FewerRun DEF Settles, Faithful

\* Only claim adds to what runs, after it has checked the limits on the
\* recovered table.
LEMMA LimitsStep ==
  ASSUME TypeOK, LimitsKept, Move
  PROVE  LimitsKept'
<1>1. Limited(row)
  BY DEF LimitsKept, Limited, Python
<1> SUFFICES Limited(row')
  BY DEF LimitsKept, Limited, Python, Running
<1>2. CASE Quiet
  BY <1>1, <1>2, SettledRun DEF Quiet
<1>3. ASSUME NEW w \in Procs \X Workers, NEW late \in SUBSET Rows, NEW e \in Rows,
             Takes(w, late, e)
      PROVE  Limited(row')
  <2> DEFINE t == Table(late)
  <2>1. Settles(t)
    BY RecoverySettles
  <2>2. Limited(t) /\ Claimable(t, e)
    BY <1>1, <1>3, <2>1, SettledRun DEF Takes
  <2>3. \A f \in Rows : /\ row'[f].kind = t[f].kind /\ row'[f].actor = t[f].actor
                        /\ row'[f].status = IF f = e THEN "running" ELSE t[f].status
    BY <1>3, <2>1, TakenRows DEF Handed, Settles, Faithful
  <2> HIDE DEF t
  <2> QED BY <2>2, <2>3, OneMoreRuns
<1>4. ASSUME NEW w \in Procs \X Workers, Begins(w)
      PROVE  Limited(row')
  BY <1>1, <1>4 DEF Begins
<1>5. ASSUME NEW e \in Rows, NEW u \in Updates, NEW a \in Actors, NEW k \in Kinds,
             Admits(e, u, a, k)
      PROVE  Limited(row')
  <2>1. row[e].status = "none" /\ row'[e].status = "queued"
    BY <1>5, QueuedTyped DEF Admits, Fresh, Used, TypeOK
  <2>2. \A f \in Rows : f # e => row'[f] = row[f]
    BY <1>5 DEF Admits, TypeOK
  <2>3. Running(row') = Running(row) /\ Python(row') = Python(row)
    BY <2>1, <2>2 DEF Running, Python
  <2> QED BY <1>1, <2>1, <2>2, <2>3 DEF Limited, Running
<1>6. ASSUME NEW x \in Procs \X Senders, NEW e \in Rows, TakesReply(x, e)
      PROVE  Limited(row')
  BY <1>1, <1>6, SettledRun DEF TakesReply
<1>7. ASSUME NEW x \in Procs \X Senders, Replies(x)
      PROVE  Limited(row')
  BY <1>1, <1>7 DEF Replies
<1> QED BY <1>2, <1>3, <1>4, <1>5, <1>6, <1>7 DEF Move

-----------------------------------------------------------------------------
(* What an executor is started with *)

\* A row that is not used yet has no history, one that is used has an update
\* and shares it with no other.
Admitted ==
  /\ \A e \in Rows : row[e].status = "none" => (row[e].update = None /\ ran[e] = {})
  /\ \A e \in Rows : row[e].status # "none" => row[e].update \in Updates
  /\ \A e, f \in Rows :
       (row[e].status # "none" /\ row[e].update = row[f].update) => e = f

\* An executor starts with the revision of its row: compared by the claim, or
\* remembered while the runner is awaited.
LEMMA RanStep ==
  ASSUME TypeOK, Jobs, Admitted, AdmittedRevision, Move
  PROVE  Admitted' /\ AdmittedRevision'
<1> None \notin Updates
  BY QueueAssumption
<1>1. ASSUME Faithful(row'), UNCHANGED ran,
             \A e \in Rows : row'[e].status = "none" <=> row[e].status = "none"
      PROVE  Admitted' /\ AdmittedRevision'
  BY <1>1 DEF Admitted, AdmittedRevision, Faithful
<1>2. ASSUME NEW t, Settles(t)
      PROVE  \A e \in Rows : t[e].status = "none" <=> row[e].status = "none"
  BY <1>2 DEF Settles, Outcome, Terminal
<1>3. CASE Quiet
  BY <1>1, <1>2, <1>3 DEF Quiet, Settles
<1>4. ASSUME NEW e \in Rows, NEW u, NEW command, Began(e, u, command),
             Faithful(row'), row[e].status # "none",
             \A f \in Rows : row'[f].status = "none" <=> row[f].status = "none",
             command.rev = row[e].command.rev
      PROVE  Admitted' /\ AdmittedRevision'
  <2>1. \A f \in Rows : ran'[f] = IF f = e THEN ran[f] \cup {command} ELSE ran[f]
    BY <1>4 DEF Began, TypeOK
  <2>2. \A f \in Rows : row'[f].update = row[f].update /\ row'[f].command = row[f].command
    BY <1>4 DEF Faithful
  <2>3. \A f \in Rows : row'[f].status = "none" => ran'[f] = {}
    <3> TAKE f \in Rows
    <3> HAVE row'[f].status = "none"
    <3>1. row[f].status = "none" /\ f # e
      BY <1>4
    <3> QED BY <2>1, <3>1 DEF Admitted
  <2>4. Admitted'
    BY <1>4, <2>2, <2>3 DEF Admitted
  <2>5. ASSUME NEW f \in Rows, NEW c \in ran'[f]
        PROVE  c.rev = row'[f].command.rev
    <3>1. c \in ran[f] \/ (f = e /\ c = command)
      BY <2>1, <2>5
    <3> QED BY <1>4, <2>2, <3>1 DEF AdmittedRevision
  <2> QED BY <2>4, <2>5 DEF AdmittedRevision
<1>5. ASSUME NEW w \in Procs \X Workers, NEW late \in SUBSET Rows, NEW e \in Rows,
             Takes(w, late, e)
      PROVE  Admitted' /\ AdmittedRevision'
  <2>1. /\ Faithful(row') /\ row[e].status = "queued"
        /\ \A f \in Rows : row'[f].status = "none" <=> row[f].status = "none"
    <3>1. /\ Faithful(row') /\ row[e].status = "queued"
          /\ \A f \in Rows :
               row'[f].status = IF f = e THEN "running" ELSE Table(late)[f].status
      BY <1>5, TakenRows DEF Handed
    <3>2. \A f \in Rows : Table(late)[f].status = "none" <=> row[f].status = "none"
      BY <1>2, RecoverySettles
    <3> QED BY <3>1, <3>2
  <2>2. \/ UNCHANGED ran
        \/ UnchangedSince(row[e]) /\ Began(e, row[e].update, config.command)
    BY <1>5 DEF Takes
  <2> QED BY <1>1, <1>4, <2>1, <2>2 DEF UnchangedSince
<1>6. ASSUME NEW w \in Procs \X Workers, Begins(w)
      PROVE  Admitted' /\ AdmittedRevision'
  <2>1. work[w].row \in Rows \cup {0} /\ work[w].stage = "probing"
    BY <1>6 DEF Begins, TypeOK, Work
  <2>2. /\ work[w].row \in Rows /\ row[work[w].row].status # "none"
        /\ work[w].command.rev = row[work[w].row].command.rev
    BY <2>1 DEF Jobs
  <2> QED BY <1>4, <1>6, <2>2 DEF Begins, Faithful
<1>7. ASSUME NEW e \in Rows, NEW u \in Updates, NEW a \in Actors, NEW k \in Kinds,
             Admits(e, u, a, k)
      PROVE  Admitted' /\ AdmittedRevision'
  <2>1. row[e].status = "none" /\ row'[e].status = "queued" /\ row'[e].update = u
    BY <1>7, QueuedTyped DEF Admits, Fresh, Used, TypeOK
  <2>2. \A f \in Rows : f # e => row'[f] = row[f]
    BY <1>7 DEF Admits, TypeOK
  <2>3. UNCHANGED ran /\ \A f \in Rows : row[f].update # u
    BY <1>7 DEF Admits
  <2> QED BY <2>1, <2>2, <2>3 DEF Admitted, AdmittedRevision
<1>8. ASSUME NEW x \in Procs \X Senders, NEW e \in Rows, TakesReply(x, e)
      PROVE  Admitted' /\ AdmittedRevision'
  BY <1>1, <1>2, <1>8 DEF TakesReply, Settles
<1>9. ASSUME NEW x \in Procs \X Senders, Replies(x)
      PROVE  Admitted' /\ AdmittedRevision'
  BY <1>1, <1>9 DEF Replies, Faithful
<1> QED BY <1>3, <1>5, <1>6, <1>7, <1>8, <1>9 DEF Move

-----------------------------------------------------------------------------
(* Starts *)

\* An executor was not started for an update that is unknown, queued or
\* waiting for the runner, and was started once for one that executes.
Started ==
  /\ \A u \in Updates : (\A e \in Rows : row[e].update # u) => starts[u] = 0
  /\ \A e \in Rows : row[e].status = "queued" => starts[row[e].update] = 0
  /\ \A x \in Procs \X Workers :
       /\ work[x].stage = "probing" => starts[row[work[x].row].update] = 0
       /\ work[x].stage = "executing" => starts[row[work[x].row].update] = 1

\* An executor starts from a queued row or from the one probing job of a row,
\* so it has not been started before.
LEMMA StartedStep ==
  ASSUME TypeOK, Jobs, OneExecutor, Admitted, Started, Move
  PROVE  Started'
<1>0. /\ \A x \in Procs \X Workers : work[x] \in Work
      /\ \A x \in Procs \X Workers :
           work[x].stage \in {"probing", "executing"} =>
             /\ work[x].row \in Rows
             /\ row[work[x].row].status \in {"running", "unknown"}
  BY DEF TypeOK, Work, Jobs
<1>1. ASSUME UNCHANGED starts, Faithful(row'),
             \A e \in Rows : row'[e].status = "queued" => row[e].status = "queued",
             \A x \in Procs \X Workers : work'[x] = work[x] \/ work'[x] = Idle
      PROVE  Started'
  BY <1>0, <1>1 DEF Started, Faithful, Idle
<1>2. ASSUME NEW t, Settles(t)
      PROVE  \A e \in Rows : t[e].status = "queued" => row[e].status = "queued"
  BY <1>2 DEF Settles, Outcome, Terminal
<1>3. CASE Quiet
  BY <1>1, <1>2, <1>3 DEF Quiet, Settles
<1>4. ASSUME NEW w \in Procs \X Workers, NEW e \in Rows, NEW command,
             Began(e, row[e].update, command), Faithful(row'),
             row[e].status # "none", starts[row[e].update] = 0,
             row'[e].status # "queued",
             \A f \in Rows : row'[f].status = "queued" => row[f].status = "queued",
             \A x \in Procs \X Workers : x # w => (work'[x] = work[x] /\ work[x].row # e),
             work'[w].row = e, work'[w].stage = "executing"
      PROVE  Started'
  <2>1. row[e].update \in Updates
    BY <1>4 DEF Admitted
  <2>2. \A v \in Updates : starts'[v] = IF v = row[e].update THEN 1 ELSE starts[v]
    BY <1>4, <2>1 DEF Began, TypeOK
  <2>3. \A f \in Rows : (f # e /\ row[f].status # "none") => starts'[row[f].update] = starts[row[f].update]
    BY <1>4, <2>2 DEF Admitted
  <2>4. \A f \in Rows : row'[f].update = row[f].update
    BY <1>4 DEF Faithful
  <2>5. \A u \in Updates : (\A f \in Rows : row'[f].update # u) => starts'[u] = 0
    BY <2>2, <2>4 DEF Started
  <2>6. \A f \in Rows : row'[f].status = "queued" => starts'[row'[f].update] = 0
    BY <1>4, <2>3, <2>4 DEF Started
  <2>7. starts'[row'[e].update] = 1
    BY <2>1, <2>2, <2>4
  <2>8. ASSUME NEW x \in Procs \X Workers
        PROVE  /\ work'[x].stage = "probing" => starts'[row'[work'[x].row].update] = 0
               /\ work'[x].stage = "executing" => starts'[row'[work'[x].row].update] = 1
    <3>1. CASE x = w
      BY <1>4, <2>7, <3>1
    <3>2. CASE x # w
      BY <1>0, <1>4, <2>3, <2>4, <3>2 DEF Started
    <3> QED BY <3>1, <3>2
  <2> QED BY <2>5, <2>6, <2>8 DEF Started
<1>5. ASSUME NEW w \in Procs \X Workers, NEW late \in SUBSET Rows, NEW e \in Rows,
             Takes(w, late, e)
      PROVE  Started'
  <2>1. /\ Faithful(row') /\ row[e].status = "queued"
        /\ \A f \in Rows :
             row'[f].status = IF f = e THEN "running" ELSE Table(late)[f].status
    BY <1>5, TakenRows DEF Handed
  <2>2. \A f \in Rows : row'[f].status = "queued" => row[f].status = "queued"
    BY <1>2, <2>1, RecoverySettles
  <2>3. /\ starts[row[e].update] = 0
        /\ \A x \in Procs \X Workers : work[x].row # e
    BY <2>1, RowsAreNumbers DEF Started, Jobs
  <2>4. CASE UNCHANGED <<work, ran, starts>>
    BY <1>1, <2>1, <2>2, <2>4
  <2>5. CASE work' = [work EXCEPT ![w] = Job(e, "probing")] /\ UNCHANGED <<ran, starts>>
    <3>1. \A x \in Procs \X Workers :
            /\ x # w => work'[x] = work[x]
            /\ work'[w].row = e /\ work'[w].stage = "probing"
      BY <2>5 DEF TypeOK, Job
    <3>2. \A f \in Rows : row'[f].update = row[f].update
      BY <2>1 DEF Faithful
    <3>3. ASSUME NEW x \in Procs \X Workers
          PROVE  /\ work'[x].stage = "probing" => starts'[row'[work'[x].row].update] = 0
                 /\ work'[x].stage = "executing" => starts'[row'[work'[x].row].update] = 1
      <4>1. CASE x = w
        BY <2>3, <2>5, <3>1, <3>2, <4>1
      <4>2. CASE x # w
        BY <1>0, <2>5, <3>1, <3>2, <4>2 DEF Started
      <4> QED BY <4>1, <4>2
    <3> QED BY <2>2, <2>5, <3>2, <3>3 DEF Started
  <2>6. CASE /\ work' = [work EXCEPT ![w] = Job(e, "executing")]
             /\ Began(e, row[e].update, config.command)
    <3>1. /\ \A x \in Procs \X Workers : x # w => work'[x] = work[x]
          /\ work'[w].row = e /\ work'[w].stage = "executing"
      BY <2>6 DEF TypeOK, Job
    <3> QED BY <1>4, <2>1, <2>2, <2>3, <2>6, <3>1
  <2> QED BY <1>5, <2>4, <2>5, <2>6 DEF Takes
<1>6. ASSUME NEW w \in Procs \X Workers, Begins(w)
      PROVE  Started'
  <2> DEFINE e == work[w].row
  <2>1. /\ work[w].stage = "probing" /\ UNCHANGED row
        /\ Began(e, row[e].update, work[w].command)
    BY <1>6 DEF Begins
  <2>2. e \in Rows /\ row[e].status \in {"running", "unknown"}
    BY <1>0, <2>1
  <2>3. starts[row[e].update] = 0
    BY <2>1 DEF Started
  <2>4. /\ \A x \in Procs \X Workers : x # w => (work'[x] = work[x] /\ work[x].row # e)
        /\ work'[w].row = e /\ work'[w].stage = "executing"
    BY <1>0, <1>6, <2>2, RowsAreNumbers DEF Begins, OneExecutor, TypeOK, Work
  <2>5. Faithful(row')
    BY <2>1 DEF Faithful
  <2> HIDE DEF e
  <2> QED BY <1>4, <2>1, <2>2, <2>3, <2>4, <2>5
<1>7. ASSUME NEW e \in Rows, NEW u \in Updates, NEW a \in Actors, NEW k \in Kinds,
             Admits(e, u, a, k)
      PROVE  Started'
  <2>1. /\ row[e].status = "none" /\ row'[e].update = u
        /\ \A f \in Rows : f # e => row'[f] = row[f]
        /\ \A f \in Rows : row[f].update # u
        /\ UNCHANGED <<work, starts>>
    BY <1>7, QueuedTyped DEF Admits, Fresh, Used, TypeOK
  <2>2. starts[u] = 0
    BY <2>1 DEF Started
  <2>3. row[e].update \notin Updates
    BY <2>1, QueueAssumption DEF Admitted
  <2> QED BY <1>0, <2>1, <2>2, <2>3 DEF Started
<1>8. ASSUME NEW x \in Procs \X Senders, NEW e \in Rows, TakesReply(x, e)
      PROVE  Started'
  BY <1>1, <1>2, <1>8 DEF TakesReply, Settles
<1>9. ASSUME NEW x \in Procs \X Senders, Replies(x)
      PROVE  Started'
  BY <1>1, <1>9 DEF Replies, Faithful
<1> QED BY <1>3, <1>5, <1>6, <1>7, <1>8, <1>9 DEF Move

-----------------------------------------------------------------------------
(* Replies *)

\* The delivery coroutines that hold row e, whose message Telegram may still
\* accept.
Sending(e) == {x \in Procs \X Senders : send[x] = e /\ x \notin accepted}

\* Every reply that was shown, and every one that may still be, was counted
\* in the tries of its row, which has an outcome.
Counted ==
  /\ \A u \in Updates : (\A e \in Rows : row[e].update # u) => shown[u] = 0
  /\ \A x \in Procs \X Senders : send[x] # 0 => row[send[x]].status \in Terminal
  /\ \A e \in Rows :
       /\ IsFiniteSet(Sending(e))
       /\ row[e].status # "none" =>
            shown[row[e].update] + Cardinality(Sending(e)) <= row[e].tries

\* A reply that is shown was counted when it was claimed.
LEMMA CountedStep ==
  ASSUME TypeOK, row' \in [Rows -> Row], shown' \in [Updates -> Nat],
         send' \in [Procs \X Senders -> Rows \cup {0}], Admitted, Counted, Move
  PROVE  Counted'
<1>0. /\ \A e \in Rows : row[e] \in Row /\ row'[e] \in Row
      /\ \A u \in Updates : shown[u] \in Nat /\ shown'[u] \in Nat
      /\ \A e \in Rows : row[e].tries \in Nat /\ row'[e].tries \in Nat
  BY QueueAssumption DEF TypeOK, Row
<1>n. \A e \in Rows : IsFiniteSet(Sending(e)) /\ Cardinality(Sending(e)) \in Nat
  BY FS_CardinalityType DEF Counted
<1>u. \A e \in Rows : row[e].status # "none" => row[e].update \in Updates
  BY DEF Admitted
<1>s. \A x \in Procs \X Senders : send[x] \in Rows \cup {0} /\ send'[x] \in Rows \cup {0}
  BY DEF TypeOK
\* Senders that stop sending, whatever the rows' outcomes.
<1>1. ASSUME UNCHANGED shown, Faithful(row'), SameTries(row'),
             \A e \in Rows : /\ row[e].status \in Terminal => row'[e].status \in Terminal
                             /\ row'[e].status = "none" <=> row[e].status = "none",
             EndsSending
      PROVE  Counted'
  <2>1. ASSUME NEW e \in Rows
        PROVE  /\ IsFiniteSet(Sending(e)')
               /\ Cardinality(Sending(e)') <= Cardinality(Sending(e))
               /\ Cardinality(Sending(e)') \in Nat
    <3>1. Sending(e)' \in SUBSET Sending(e)
      BY <1>1, RowsAreNumbers DEF Sending, EndsSending
    <3> QED BY <1>n, <3>1, FS_Subset, FS_CardinalityType
  <2>2. \A e \in Rows : row'[e].update = row[e].update /\ row'[e].tries = row[e].tries
    BY <1>1 DEF Faithful, SameTries
  <2>3. ASSUME NEW e \in Rows, row'[e].status # "none"
        PROVE  shown'[row'[e].update] + Cardinality(Sending(e)') <= row'[e].tries
    <3>1. /\ row[e].status # "none" /\ shown'[row'[e].update] = shown[row[e].update]
          /\ row'[e].tries = row[e].tries
      BY <1>1, <2>2, <2>3
    <3>2. shown[row[e].update] + Cardinality(Sending(e)) <= row[e].tries
      BY <3>1 DEF Counted
    <3>3. shown[row[e].update] \in Nat
      BY <1>0, <1>u, <3>1
    <3> QED BY <1>0, <1>n, <2>1, <3>1, <3>2, <3>3
  <2>4. \A u \in Updates : (\A e \in Rows : row'[e].update # u) => shown'[u] = 0
    BY <1>1, <2>2 DEF Counted
  <2>5. \A x \in Procs \X Senders : send'[x] # 0 => row'[send'[x]].status \in Terminal
    BY <1>1, <1>s DEF Counted, EndsSending
  <2> QED BY <2>1, <2>3, <2>4, <2>5 DEF Counted, Sending
<1>2. ASSUME NEW t, Settles(t)
      PROVE  \A e \in Rows : /\ row[e].status \in Terminal => t[e].status \in Terminal
                             /\ t[e].status = "none" <=> row[e].status = "none"
  BY <1>2 DEF Settles, Outcome, Terminal
<1>3. CASE Quiet
  BY <1>1, <1>2, <1>3 DEF Quiet, Settles
<1>4. ASSUME NEW w \in Procs \X Workers, NEW late \in SUBSET Rows, NEW e \in Rows,
             Takes(w, late, e)
      PROVE  Counted'
  <2>1. /\ Faithful(row') /\ SameTries(row') /\ row[e].status = "queued"
        /\ \A f \in Rows :
             row'[f].status = IF f = e THEN "running" ELSE Table(late)[f].status
    <3>1. Handed(Table(late), e)
      BY <1>4, TakenRows
    <3> QED BY <3>1 DEF Handed
  <2>2. \A f \in Rows : /\ row[f].status \in Terminal => row'[f].status \in Terminal
                        /\ row'[f].status = "none" <=> row[f].status = "none"
    BY <1>2, <2>1, RecoverySettles DEF Terminal
  <2>3. UNCHANGED shown /\ EndsSending
    BY <1>4 DEF Takes, EndsSending
  <2> QED BY <1>1, <2>1, <2>2, <2>3
<1>5. ASSUME NEW w \in Procs \X Workers, Begins(w)
      PROVE  Counted'
  BY <1>1, <1>5 DEF Begins, Faithful, SameTries, EndsSending
<1>6. ASSUME NEW e \in Rows, NEW u \in Updates, NEW a \in Actors, NEW k \in Kinds,
             Admits(e, u, a, k)
      PROVE  Counted'
  <2>1. /\ row[e].status = "none" /\ row'[e].update = u /\ row'[e].status = "queued"
        /\ \A f \in Rows : f # e => row'[f] = row[f]
        /\ \A f \in Rows : row[f].update # u
        /\ UNCHANGED <<send, accepted, shown>>
    BY <1>6, QueuedTyped DEF Admits, Fresh, Used, TypeOK
  <2>2. shown[u] = 0 /\ row[e].update \notin Updates
    BY <2>1, QueueAssumption DEF Counted, Admitted
  <2>3. \A x \in Procs \X Senders : send[x] # e
    BY <2>1, RowsAreNumbers DEF Counted, Terminal
  <2>4. \A f \in Rows : Sending(f)' = Sending(f)
    BY <2>1 DEF Sending
  <2>5. Sending(e) = {} /\ Cardinality(Sending(e)) = 0
    BY <2>3, FS_EmptySet DEF Sending
  <2>6. \A v \in Updates : (\A f \in Rows : row'[f].update # v) => shown'[v] = 0
    BY <2>1, <2>2 DEF Counted
  <2>7. \A x \in Procs \X Senders : send'[x] # 0 => row'[send'[x]].status \in Terminal
    BY <1>s, <2>1, <2>3 DEF Counted
  <2>8. ASSUME NEW f \in Rows
        PROVE  /\ IsFiniteSet(Sending(f)')
               /\ row'[f].status # "none" =>
                    shown'[row'[f].update] + Cardinality(Sending(f)') <= row'[f].tries
    <3>1. CASE f = e
      <4>1. IsFiniteSet(Sending(e)') /\ Cardinality(Sending(e)') = 0
        BY <2>4, <2>5, FS_EmptySet
      <4>2. shown'[row'[e].update] = 0 /\ row'[e].tries \in Nat
        BY <1>0, <2>1, <2>2
      <4> QED BY <3>1, <4>1, <4>2
    <3>2. CASE f # e
      BY <2>1, <2>4, <3>2 DEF Counted
    <3> QED BY <3>1, <3>2
  <2> QED BY <2>6, <2>7, <2>8 DEF Counted, Sending
<1>7. ASSUME NEW x \in Procs \X Senders, NEW e \in Rows, TakesReply(x, e)
      PROVE  Counted'
  <2>1. /\ send[x] = 0 /\ UNCHANGED <<accepted, shown>>
        /\ \A y \in Procs \X Senders : send'[y] = IF y = x THEN e ELSE send[y]
        /\ \A f \in Rows : row'[f].tries = IF f = e THEN row[f].tries + 1 ELSE row[f].tries
        /\ \A f \in Rows : row'[f].update = row[f].update
        /\ row'[e].status \in Terminal
        /\ \A f \in Rows : /\ row[f].status \in Terminal => row'[f].status \in Terminal
                           /\ row'[f].status = "none" <=> row[f].status = "none"
    BY <1>2, <1>7 DEF TakesReply, Settles, Faithful, TypeOK
  <2>2. x \notin Sending(e) /\ Sending(e)' \subseteq Sending(e) \cup {x}
    BY <2>1, RowsAreNumbers DEF Sending
  <2>3. \A f \in Rows : f # e => Sending(f)' = Sending(f)
    BY <2>1, RowsAreNumbers DEF Sending
  <2>4. /\ IsFiniteSet(Sending(e)') /\ Cardinality(Sending(e)') \in Nat
        /\ Cardinality(Sending(e)') <= Cardinality(Sending(e)) + 1
    <3>1. /\ IsFiniteSet(Sending(e) \cup {x})
          /\ Cardinality(Sending(e) \cup {x}) = Cardinality(Sending(e)) + 1
      BY <1>n, <2>2, FS_AddElement
    <3> QED BY <2>2, <3>1, FS_Subset, FS_CardinalityType
  <2>5. \A u \in Updates : (\A f \in Rows : row'[f].update # u) => shown'[u] = 0
    BY <2>1 DEF Counted
  <2>6. \A y \in Procs \X Senders : send'[y] # 0 => row'[send'[y]].status \in Terminal
    BY <1>s, <2>1 DEF Counted
  <2>7. ASSUME NEW f \in Rows
        PROVE  /\ IsFiniteSet(Sending(f)')
               /\ row'[f].status # "none" =>
                    shown'[row'[f].update] + Cardinality(Sending(f)') <= row'[f].tries
    <3>1. row'[f].status # "none" =>
            /\ shown'[row'[f].update] = shown[row[f].update]
            /\ shown[row[f].update] \in Nat
            /\ shown[row[f].update] + Cardinality(Sending(f)) <= row[f].tries
      BY <1>0, <1>u, <2>1 DEF Counted
    <3>2. CASE f = e
      BY <1>0, <1>n, <2>1, <2>4, <3>1, <3>2
    <3>3. CASE f # e
      BY <1>0, <1>n, <2>1, <2>3, <3>1, <3>3
    <3> QED BY <3>2, <3>3
  <2> QED BY <2>5, <2>6, <2>7 DEF Counted, Sending
<1>8. ASSUME NEW x \in Procs \X Senders, Replies(x)
      PROVE  Counted'
  <2>e. PICK e \in Rows : e = send[x] /\ e # 0
    BY <1>s, <1>8, RowsAreNumbers DEF Replies
  <2>1. /\ e \in Rows /\ row[e].status \in Terminal /\ x \notin accepted
        /\ accepted' = accepted \cup {x} /\ UNCHANGED <<row, send>>
        /\ \A u \in Updates : shown'[u] = IF u = row[e].update THEN shown[u] + 1 ELSE shown[u]
    BY <1>s, <1>8, <2>e DEF Replies, TypeOK, Counted
  <2>2. x \in Sending(e)
    BY <2>1, <2>e DEF Sending
  <2>r. Sending(e)' = Sending(e) \ {x}
    BY <2>1 DEF Sending
  <2>3. \A f \in Rows : f # e => Sending(f)' = Sending(f)
    BY <2>1, <2>e DEF Sending
  <2>4. IsFiniteSet(Sending(e)') /\ Cardinality(Sending(e)') = Cardinality(Sending(e)) - 1
    BY <1>n, <2>1, <2>2, <2>r, FS_RemoveElement
  <2>5. \A u \in Updates : (\A f \in Rows : row'[f].update # u) => shown'[u] = 0
    BY <2>1 DEF Counted
  <2>6. \A y \in Procs \X Senders : send'[y] # 0 => row'[send'[y]].status \in Terminal
    BY <1>s, <2>1 DEF Counted
  <2>7. ASSUME NEW f \in Rows
        PROVE  /\ IsFiniteSet(Sending(f)')
               /\ row'[f].status # "none" =>
                    shown'[row'[f].update] + Cardinality(Sending(f)') <= row'[f].tries
    <3>1. row'[f].status # "none" =>
            /\ row[f].update \in Updates
            /\ shown[row[f].update] \in Nat
            /\ shown[row[f].update] + Cardinality(Sending(f)) <= row[f].tries
      BY <1>0, <1>u, <2>1 DEF Counted
    <3>2. CASE f = e
      BY <1>0, <1>n, <2>1, <2>4, <3>1, <3>2
    <3>3. CASE f # e
      <4>1. row[f].status # "none" => row[f].update # row[e].update
        BY <2>1, <3>3 DEF Admitted, Terminal
      <4> QED BY <1>0, <1>n, <2>1, <2>3, <3>1, <3>3, <4>1
    <3> QED BY <3>2, <3>3
  <2> QED BY <2>5, <2>6, <2>7 DEF Counted, Sending
<1> QED BY <1>3, <1>4, <1>5, <1>6, <1>7, <1>8 DEF Move

-----------------------------------------------------------------------------
(* The promise *)

\* What CommandPromise says of a row with this status.
PhaseOf(status) == IF status \in {"queued", "running"} THEN "admitted" ELSE status

\* An update's phase is read off its only row.
LEMMA PhaseRead ==
  ASSUME TypeOK, Admitted
  PROVE  /\ \A e \in Rows : row[e].status # "none" =>
              Phase[row[e].update] = PhaseOf(row[e].status)
         /\ \A u \in Updates : (\A e \in Rows : row[e].update # u) => Phase[u] = "new"
<1>1. ASSUME NEW e \in Rows, row[e].status # "none"
      PROVE  Phase[row[e].update] = PhaseOf(row[e].status)
  <2> DEFINE u == row[e].update
  <2>1. u \in Updates /\ RowsOf(u) = {e}
    BY <1>1 DEF Admitted, RowsOf
  <2>2. (CHOOSE f \in RowsOf(u) : TRUE) = e
    BY <2>1
  <2>3. RowsOf(u) \cap Live # {} <=> row[e].status \in {"queued", "running"}
    BY <2>1 DEF Live
  <2> HIDE DEF u
  <2> QED BY <2>1, <2>2, <2>3 DEF Phase, PhaseOf, u
<1>2. ASSUME NEW u \in Updates, \A e \in Rows : row[e].update # u
      PROVE  Phase[u] = "new"
  <2>1. RowsOf(u) = {}
    BY <1>2 DEF RowsOf
  <2> QED BY <2>1 DEF Phase
<1> QED BY <1>1, <1>2

\* The same in the next state.
LEMMA PhaseReadNext ==
  ASSUME TypeOK', Admitted'
  PROVE  /\ \A e \in Rows : row'[e].status # "none" =>
              Phase'[row'[e].update] = PhaseOf(row'[e].status)
         /\ \A u \in Updates : (\A e \in Rows : row'[e].update # u) => Phase'[u] = "new"
<1>1. ASSUME NEW e \in Rows, row'[e].status # "none"
      PROVE  Phase'[row'[e].update] = PhaseOf(row'[e].status)
  <2>1. row'[e].update \in Updates /\ {f \in Rows : row'[f].update = row'[e].update} = {e}
    BY <1>1 DEF Admitted
  <2>2. (CHOOSE f \in {f \in Rows : row'[f].update = row'[e].update} : TRUE) = e
    BY <2>1
  <2>3. {f \in Rows : row'[f].update = row'[e].update} \cap Live' # {}
          <=> row'[e].status \in {"queued", "running"}
    BY <2>1 DEF Live
  <2> QED BY <2>1, <2>2, <2>3 DEF Phase, RowsOf, PhaseOf
<1>2. ASSUME NEW u \in Updates, \A e \in Rows : row'[e].update # u
      PROVE  Phase'[u] = "new"
  <2>1. {f \in Rows : row'[f].update = u} = {}
    BY <1>2
  <2> QED BY <2>1 DEF Phase, RowsOf
<1> QED BY <1>1, <1>2

\* The inductive invariant.
IInv ==
  /\ TypeOK /\ LimitsKept
  /\ Jobs /\ OneExecutor
  /\ Admitted /\ AdmittedRevision
  /\ Started /\ Counted

\* Rows that get outcomes settle their updates.
LEMMA Settling ==
  ASSUME IInv, IInv', Faithful(row'),
         \A e \in Rows : \/ row'[e].status = row[e].status
                         \/ Outcome(e, row'[e].status)
                         \/ row[e].status = "queued" /\ row'[e].status = "running"
  PROVE  /\ \E us \in SUBSET Updates : Promise!Settle(us)
         /\ \A e \in Rows : row[e].status # "none" =>
              /\ Phase[row[e].update] = PhaseOf(row[e].status)
              /\ Phase'[row[e].update] = PhaseOf(row'[e].status)
<1> USE DEF IInv
<1>1. \A e \in Rows : row[e].status # "none" =>
        /\ row'[e].status # "none" /\ row'[e].update = row[e].update
        /\ Phase[row[e].update] = PhaseOf(row[e].status)
        /\ Phase'[row[e].update] = PhaseOf(row'[e].status)
  <2>1. \A e \in Rows : row[e].status # "none" =>
          row'[e].status # "none" /\ row'[e].update = row[e].update
    BY DEF Outcome, Terminal, Faithful
  <2> QED BY <2>1, PhaseRead, PhaseReadNext
<1> DEFINE us == {u \in Updates : Phase'[u] # Phase[u]}
<1>2. ASSUME NEW u \in us
      PROVE  Promise!Settled(u)
  <2>1. PICK e \in Rows : row[e].update = u
    <3>1. CASE \A e \in Rows : row[e].update # u
      <4>1. \A e \in Rows : row'[e].update # u
        BY <3>1 DEF Faithful
      <4> QED BY <3>1, <4>1, PhaseRead, PhaseReadNext
    <3> QED BY <3>1
  <2>2. row[e].status # "none"
    BY <2>1, QueueAssumption DEF Admitted
  <2>3. /\ Phase[u] = PhaseOf(row[e].status) /\ Phase'[u] = PhaseOf(row'[e].status)
        /\ Phase'[u] # Phase[u]
    BY <1>1, <2>1, <2>2
  <2>4. Outcome(e, row'[e].status)
    BY <2>3 DEF PhaseOf
  <2>5. Phase[u] = "admitted" /\ Phase'[u] = row'[e].status /\ row'[e].status \in Terminal
    BY <2>3, <2>4 DEF Outcome, PhaseOf, Terminal
  <2>6. row'[e].status = "succeeded" => starts[u] = 1
    BY <2>1, <2>4 DEF Outcome, Started
  <2>7. row'[e].status = "cancelled" => starts[u] = 0
    BY <2>1, <2>4 DEF Outcome, Started
  <2> QED BY <2>5, <2>6, <2>7 DEF Promise!Settled, Promise!Outcomes, Terminal
<1>3. Phase' = [u \in Updates |-> IF u \in us THEN Phase'[u] ELSE Phase[u]]
  <2>1. Phase' = [u \in Updates |-> Phase'[u]]
    BY DEF Phase
  <2> QED BY <2>1
<1>4. Promise!Settle(us)
  <2> HIDE DEF us
  <2> QED BY <1>2, <1>3 DEF Promise!Settle
<1> QED BY <1>1, <1>4

\* A step that settles updates, and starts no executor or one that may.
LEMMA SettlingStep ==
  ASSUME \E us \in SUBSET Updates : Promise!Settle(us), UNCHANGED shown,
         \/ UNCHANGED starts
         \/ \E u \in Updates : Phase'[u] # "cancelled" /\ Promise!StartExecutor(u)
  PROVE  Promise!Next
BY DEF Promise!Next

\* Every step of the queue is one of the promise, or changes nothing in it.
LEMMA PromiseStep ==
  ASSUME IInv, IInv', Move
  PROVE  Promise!Next \/ UNCHANGED <<Phase, starts, shown>>
<1> USE DEF IInv
<1>1. CASE Quiet
  <2>1. \E us \in SUBSET Updates : Promise!Settle(us)
    BY <1>1, Settling DEF Quiet, Settles
  <2> QED BY <1>1, <2>1, SettlingStep DEF Quiet
<1>2. ASSUME NEW w \in Procs \X Workers, NEW late \in SUBSET Rows, NEW e \in Rows,
             Takes(w, late, e)
      PROVE  Promise!Next
  <2>1. Handed(Table(late), e)
    BY <1>2, TakenRows
  <2>2. /\ Faithful(row') /\ row[e].status = "queued" /\ row'[e].status = "running"
        /\ \A f \in Rows : \/ row'[f].status = row[f].status
                           \/ Outcome(f, row'[f].status)
                           \/ row[f].status = "queued" /\ row'[f].status = "running"
    <3>1. Settles(Table(late))
      BY RecoverySettles
    <3> QED BY <2>1, <3>1 DEF Handed, Settles
  <2>3. /\ \E us \in SUBSET Updates : Promise!Settle(us)
        /\ Phase[row[e].update] = "admitted" /\ Phase'[row[e].update] = "admitted"
    BY <2>2, Settling DEF PhaseOf
  <2>4. row[e].update \in Updates /\ starts[row[e].update] = 0
    BY <2>2 DEF Admitted, Started
  <2>5. \/ UNCHANGED starts
        \/ starts' = [starts EXCEPT ![row[e].update] = @ + 1]
    BY <1>2 DEF Takes, Began
  <2>6. starts' = [starts EXCEPT ![row[e].update] = @ + 1]
          => Promise!StartExecutor(row[e].update)
    BY <2>3, <2>4 DEF Promise!StartExecutor
  <2>7. UNCHANGED shown
    BY <1>2 DEF Takes
  <2> QED BY <2>3, <2>4, <2>5, <2>6, <2>7, SettlingStep
<1>3. ASSUME NEW w \in Procs \X Workers, Begins(w)
      PROVE  Promise!Next
  <2>1. PICK e \in Rows : /\ e = work[w].row
                          /\ row[e].status \in {"running", "unknown"}
                          /\ starts[row[e].update] = 0
    <3>1. work[w].row \in Rows \cup {0} /\ work[w].stage = "probing"
      BY <1>3 DEF Begins, TypeOK, Work
    <3> QED BY <3>1 DEF Jobs, Started
  <2>2. UNCHANGED <<row, shown>> /\ starts' = [starts EXCEPT ![row[e].update] = @ + 1]
    BY <1>3, <2>1 DEF Begins, Began
  <2>3. /\ \E us \in SUBSET Updates : Promise!Settle(us)
        /\ Phase[row[e].update] \in {"admitted", "unknown"}
        /\ Phase'[row[e].update] # "cancelled"
    BY <2>1, <2>2, Settling DEF Faithful, PhaseOf
  <2>4. row[e].update \in Updates
    BY <2>1 DEF Admitted
  <2>5. Promise!StartExecutor(row[e].update)
    BY <2>1, <2>2, <2>3 DEF Promise!StartExecutor
  <2> QED BY <2>2, <2>3, <2>4, <2>5, SettlingStep
<1>4. ASSUME NEW e \in Rows, NEW u \in Updates, NEW a \in Actors, NEW k \in Kinds,
             Admits(e, u, a, k)
      PROVE  Promise!Next
  <2>1. /\ row[e].status = "none" /\ row'[e].update = u /\ row'[e].status = "queued"
        /\ \A f \in Rows : f # e => row'[f] = row[f]
        /\ \A f \in Rows : row[f].update # u
        /\ UNCHANGED <<starts, shown>>
    BY <1>4, QueuedTyped DEF Admits, Fresh, Used, TypeOK
  <2>2. Phase[u] = "new" /\ Phase'[u] = "admitted"
    BY <2>1, PhaseRead, PhaseReadNext DEF PhaseOf
  <2>3. ASSUME NEW v \in Updates, v # u
        PROVE  Phase'[v] = Phase[v]
    <3>1. CASE \A f \in Rows : row[f].update # v
      <4>1. \A f \in Rows : row'[f].update # v
        BY <2>1, <2>3, <3>1
      <4> QED BY <3>1, <4>1, PhaseRead, PhaseReadNext
    <3>2. ASSUME NEW f \in Rows, row[f].update = v
          PROVE  Phase'[v] = Phase[v]
      <4>1. row[f].status # "none" /\ row'[f] = row[f]
        BY <2>1, <3>2, QueueAssumption DEF Admitted
      <4> QED BY <3>2, <4>1, PhaseRead, PhaseReadNext
    <3> QED BY <3>1, <3>2
  <2>4. Phase' = [Phase EXCEPT ![u] = "admitted"]
    <3>1. Phase = [v \in Updates |-> Phase[v]] /\ Phase' = [v \in Updates |-> Phase'[v]]
      BY DEF Phase
    <3> QED BY <2>2, <2>3, <3>1
  <2>5. Promise!Admit(u)
    BY <2>1, <2>2, <2>4 DEF Promise!Admit
  <2> QED BY <2>5 DEF Promise!Next
<1>5. ASSUME NEW x \in Procs \X Senders, NEW e \in Rows, TakesReply(x, e)
      PROVE  Promise!Next
  <2>1. \E us \in SUBSET Updates : Promise!Settle(us)
    BY <1>5, Settling DEF TakesReply, Settles
  <2> QED BY <1>5, <2>1, SettlingStep DEF TakesReply
<1>6. ASSUME NEW x \in Procs \X Senders, Replies(x)
      PROVE  Promise!Next
  <2>1. PICK e \in Rows : e = send[x] /\ e # 0
    BY <1>6, RowsAreNumbers DEF Replies, TypeOK
  <2> DEFINE u == row[e].update
  <2>2. /\ row[e].status \in Terminal /\ u \in Updates /\ x \notin accepted
        /\ shown' = [shown EXCEPT ![u] = @ + 1] /\ UNCHANGED <<row, starts>>
    BY <1>6, <2>1 DEF Replies, Counted, Admitted, Terminal
  <2>4. UNCHANGED Phase
    BY <2>2 DEF Phase, RowsOf, Live
  <2>5. Phase[u] \in Terminal
    BY <2>2, PhaseRead DEF PhaseOf, Terminal
  <2>6. shown[u] < MaxTries
    <3>1. IsFiniteSet(Sending(e)) /\ shown[u] + Cardinality(Sending(e)) <= row[e].tries
      BY <2>2 DEF Counted, Terminal
    <3>2. Cardinality(Sending(e)) \in Nat /\ Cardinality(Sending(e)) # 0
      <4>1. x \in Sending(e)
        BY <2>1, <2>2 DEF Sending
      <4> QED BY <3>1, <4>1, FS_CardinalityType, FS_EmptySet
    <3>3. shown[u] \in Nat /\ row[e].tries \in 0 .. MaxTries
      BY <2>2 DEF TypeOK, Row
    <3> QED BY <3>1, <3>2, <3>3, QueueAssumption
  <2>7. Promise!Reply(u)
    BY <2>2, <2>4, <2>5, <2>6 DEF Promise!Reply, Promise!Outcomes, Terminal
  <2> QED BY <2>2, <2>7 DEF Promise!Next
<1> QED BY <1>1, <1>2, <1>3, <1>4, <1>5, <1>6 DEF Move

-----------------------------------------------------------------------------
(* Theorems *)

\* An empty queue satisfies the invariant and is a fresh promise.
LEMMA InitInv == Init => IInv /\ Promise!Init
<1> SUFFICES ASSUME Init PROVE IInv /\ Promise!Init
  OBVIOUS
<1> USE DEF Init, NoRow, NoCommand, Idle
<1>1. TypeOK
  BY QueueAssumption DEF TypeOK, Row, Work, Command, Statuses
<1>2. LimitsKept
  <2>1. Running(row) = {} /\ {e \in Running(row) : row[e].kind = "python"} = {}
    BY DEF Running
  <2>2. Cardinality({}) = 0
    BY FS_EmptySet
  <2> HIDE DEF Init
  <2> QED BY <2>1, <2>2, QueueAssumption DEF LimitsKept
<1>3. Jobs /\ OneExecutor /\ Admitted /\ AdmittedRevision
  BY QueueAssumption DEF Jobs, OneExecutor, Admitted, AdmittedRevision
<1>4. Started
  BY DEF Started
<1>5. Counted
  <2>1. \A e \in Rows : Sending(e) = {}
    BY RowsAreNumbers DEF Sending
  <2> QED BY <2>1, FS_EmptySet DEF Counted
<1>6. \A u \in Updates : RowsOf(u) = {}
  BY QueueAssumption DEF RowsOf
<1>7. Promise!Init
  BY <1>6 DEF Promise!Init, Phase
<1> QED BY <1>1, <1>2, <1>3, <1>4, <1>5, <1>7 DEF IInv

\* IInv is inductive.
LEMMA NextInv == IInv /\ [Next]_vars => IInv'
<1> SUFFICES ASSUME IInv, [Next]_vars PROVE IInv'
  OBVIOUS
<1>1. CASE Next
  <2>1. TypeOK' /\ Move
    BY <1>1, StepMoves DEF IInv
  <2>2. Jobs' /\ OneExecutor' /\ LimitsKept' /\ Admitted' /\ AdmittedRevision' /\ Started'
    BY <2>1, JobsStep, LimitsStep, RanStep, StartedStep DEF IInv
  <2>3. Counted'
    BY <2>1, CountedStep DEF IInv, TypeOK
  <2> QED BY <2>1, <2>2, <2>3 DEF IInv
<1>2. CASE UNCHANGED vars
  <2>1. \A e \in Rows : Sending(e)' = Sending(e)
    BY <1>2 DEF vars, Sending
  <2>2. Counted'
    BY <1>2, <2>1 DEF vars, IInv, Counted
  <2>3. TypeOK' /\ LimitsKept' /\ Jobs' /\ OneExecutor'
    BY <1>2 DEF vars, IInv, TypeOK, LimitsKept, Jobs, OneExecutor, Running
  <2>4. Admitted' /\ AdmittedRevision' /\ Started'
    BY <1>2 DEF vars, IInv, Admitted, AdmittedRevision, Started
  <2> QED BY <2>2, <2>3, <2>4 DEF IInv
<1> QED BY <1>1, <1>2

\* The inductive invariant holds in every state the queue can reach.
THEOREM QueueInvariant == Spec => []IInv
BY InitInv, NextInv, PTL DEF Spec

\* Every variable of the queue keeps its type; in particular no row is tried
\* more than MaxTries times.
THEOREM QueueTypeCorrect == Spec => []TypeOK
<1>1. IInv => TypeOK
  BY DEF IInv
<1> QED BY <1>1, QueueInvariant, PTL

\* claim keeps the limits on running executions, in all, per executor and per
\* user, however many processes and workers share the table.
THEOREM LimitsHold == Spec => []LimitsKept
<1>1. IInv => LimitsKept
  BY DEF IInv
<1> QED BY <1>1, QueueInvariant, PTL

\* No two workers ever execute one row, whatever leases expire.
THEOREM ExecutorIsAlone == Spec => []OneExecutor
<1>1. IInv => OneExecutor
  BY DEF IInv
<1> QED BY <1>1, QueueInvariant, PTL

\* An executor starts with the revision that was admitted or not at all.
THEOREM RevisionIsAdmitted == Spec => []AdmittedRevision
<1>1. IInv => AdmittedRevision
  BY DEF IInv
<1> QED BY <1>1, QueueInvariant, PTL

\* The queue of all processes implements the promise for each update: started
\* at most once, settled once and truthfully, answered a bounded number of
\* times and only after the outcome.
THEOREM QueueKeepsPromise == Spec => PromiseKept
<1>1. IInv /\ IInv' /\ [Next]_vars => [Promise!Next]_(Promise!promiseVars)
  <2> SUFFICES ASSUME IInv, IInv', [Next]_vars
               PROVE  Promise!Next \/ UNCHANGED <<Phase, starts, shown>>
    BY DEF Promise!promiseVars
  <2>1. CASE Next
    <3>1. Move
      BY <2>1, StepMoves DEF IInv
    <3> QED BY <3>1, PromiseStep
  <2>2. CASE UNCHANGED vars
    BY <2>2 DEF vars, Phase, RowsOf, Live
  <2> QED BY <2>1, <2>2
<1> QED BY <1>1, InitInv, QueueInvariant, PTL DEF Spec, PromiseKept, Promise!Spec
=============================================================================
