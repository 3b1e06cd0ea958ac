----------------------------- MODULE LogStream -----------------------------
(***************************************************************************)
(* LogStream and IncrementalLogReader: one polling task reads what was     *)
(* added to the rotating log files, in a thread that opens one file after  *)
(* the other, and puts the entries into a bounded queue per subscriber.    *)
(* Lines are numbered as they are written.                                 *)
(***************************************************************************)
EXTENDS Naturals, Sequences, FiniteSets, SequencesExt

CONSTANTS
  Subs,       \* SSE connections
  Capacity,   \* Queue(maxsize=200)
  Backups,    \* log_backup_count
  MaxLines, MaxFiles  \* bounds

LogAssumption ==
  /\ Capacity \in Nat \ {0, 1} /\ {Backups, MaxLines, MaxFiles} \subseteq Nat

VARIABLES
  files,      \* the log and its backups, newest first: inode, lines from .. to
  cursors,    \* reader.cursors: the last line read, by inode
  poll,       \* the task: "off", "sleep" or "read", and whether it must stop
  read,       \* the read under way: paths left, inodes opened, lines found
  published,  \* history: the lines handed to the subscribers, in order
  queue,      \* each subscriber's queue: places in published, 0 is a gap
  state,      \* "out", "in" or "leaving", for each subscriber
  last        \* history: what each subscriber was sent last

vars == <<files, cursors, poll, read, published, queue, state, last>>

NoRead == [todo |-> 0, active |-> {}, lines |-> <<>>]

LogTypeOK ==
  /\ \A f \in Range(files) : f.from <= f.to /\ f.to <= MaxLines
  /\ poll \in [at : {"off", "sleep", "read"}, stopping : BOOLEAN]
  /\ \A s \in Subs : Len(queue[s]) <= Capacity
  /\ state \in [Subs -> {"out", "in", "leaving"}]
  /\ (\E s \in Subs : state[s] # "out") => poll.at # "off"
  /\ poll.at # "read" => read = NoRead

Init ==
  /\ files = <<[id |-> 1, from |-> 0, to |-> 0]>>
  /\ cursors = [i \in {} |-> 0]
  /\ poll = [at |-> "off", stopping |-> FALSE]
  /\ read = NoRead /\ published = <<>>
  /\ queue = [s \in Subs |-> <<>>]
  /\ state = [s \in Subs |-> "out"]
  /\ last = [s \in Subs |-> [entry |-> 0, gap |-> FALSE]]

-----------------------------------------------------------------------------
(* The program's own logging, in other threads *)

LoggingOnly == UNCHANGED <<cursors, poll, read, published, queue, state, last>>

Write ==
  /\ files[1].to < MaxLines
  /\ files' = [files EXCEPT ![1].to = @ + 1]
  /\ LoggingOnly

\* RotatingFileHandler: every backup moves on by one, the oldest goes; without
\* backups it goes on with the same file.
Rotated ==
  LET new == [id |-> files[1].id + 1, from |-> files[1].to, to |-> files[1].to]
  IN <<new>> \o IF Len(files) > Backups THEN Front(files) ELSE files

Rotate ==
  /\ Backups > 0
  /\ files[1].id < MaxFiles /\ files[1].from < files[1].to
  /\ files' = Rotated
  /\ LoggingOnly

-----------------------------------------------------------------------------
(* The reader *)

ReadBegins ==
  /\ poll.at = "sleep" /\ ~poll.stopping
  /\ poll' = [poll EXCEPT !.at = "read"]
  /\ read' = [NoRead EXCEPT !.todo = Len(files)]
  /\ UNCHANGED <<files, cursors, published, queue, state, last>>

\* The next path, oldest first, opens whatever file has that name by now; an
\* inode met before is not read again.
ReadFile ==
  /\ poll.at = "read" /\ read.todo > 0
  /\ LET f    == files[read.todo]
         done == IF f.id \in DOMAIN cursors THEN cursors[f.id] ELSE f.from
     IN IF f.id \in read.active
        THEN read' = [read EXCEPT !.todo = @ - 1] /\ UNCHANGED cursors
        ELSE /\ read' = [todo   |-> read.todo - 1,
                         active |-> read.active \cup {f.id},
                         lines  |-> read.lines \o [i \in 1 .. f.to - done |-> done + i]]
             /\ cursors' = [i \in DOMAIN cursors \cup {f.id} |->
                              IF i = f.id THEN f.to ELSE cursors[i]]
  /\ UNCHANGED <<files, poll, published, queue, state, last>>

\* Mutant: a full queue loses its oldest entry.
OfferedDropping(q, e) == IF Len(q) = Capacity THEN Tail(q) \o <<e>> ELSE q \o <<e>>

\* Mutant: the queue of a slow subscriber has no limit.
OfferedUnbounded(q, e) == q \o <<e>>

\* A queue that is full is emptied, and a gap takes the place of its entries.
Offered(q, e) == IF Len(q) = Capacity THEN <<0, e>> ELSE q \o <<e>>

\* The queue after n entries behind the first ones were put into it, each in turn.
Delivered(q, first, n) ==
  LET after[i \in 0 .. n] == IF i = 0 THEN q ELSE Offered(after[i - 1], first + i)
  IN after[n]

\* The read is over: cursors of files that were not opened are forgotten, and
\* the entries go to every queue without an await.
ReadEnds ==
  /\ poll.at = "read" /\ read.todo = 0
  /\ cursors' = [i \in DOMAIN cursors \cap read.active |-> cursors[i]]
  /\ published' = published \o read.lines
  /\ queue' = [s \in Subs |->
       IF state[s] = "in"
       THEN Delivered(queue[s], Len(published), Len(read.lines))
       ELSE queue[s]]
  /\ read' = NoRead
  /\ poll' = [poll EXCEPT !.at = "sleep"]
  /\ UNCHANGED <<files, state, last>>

-----------------------------------------------------------------------------
(* Subscribers *)

\* The first subscriber primes the reader and starts the task; nobody gets
\* the lock while the last one waits for the task to end.
Subscribe(s) ==
  /\ state[s] = "out"
  /\ \A t \in Subs : state[t] # "leaving"
  /\ IF poll.at = "off"
     THEN /\ cursors' = [i \in DOMAIN cursors \cup {f.id : f \in Range(files)} |->
                           IF \E f \in Range(files) : f.id = i
                           THEN (CHOOSE f \in Range(files) : f.id = i).to ELSE cursors[i]]
          /\ poll' = [at |-> "sleep", stopping |-> FALSE]
     ELSE UNCHANGED <<cursors, poll>>
  /\ state' = [state EXCEPT ![s] = "in"]
  /\ queue' = [queue EXCEPT ![s] = <<>>]
  /\ last' = [last EXCEPT ![s] = [entry |-> Len(published), gap |-> FALSE]]
  /\ UNCHANGED <<files, read, published>>

Consume(s) ==
  /\ state[s] = "in" /\ queue[s] # <<>>
  /\ queue' = [queue EXCEPT ![s] = Tail(@)]
  /\ last' = [last EXCEPT ![s] =
       IF Head(queue[s]) = 0 THEN [@ EXCEPT !.gap = TRUE]
       ELSE [entry |-> Head(queue[s]), gap |-> FALSE]]
  /\ UNCHANGED <<files, cursors, poll, read, published, state>>

\* The connection is gone; the last one stops the task and awaits its end.
Unsubscribe(s) ==
  /\ state[s] = "in"
  /\ \A t \in Subs : state[t] # "leaving"
  /\ queue' = [queue EXCEPT ![s] = <<>>]
  /\ IF \E t \in Subs \ {s} : state[t] = "in"
     THEN state' = [state EXCEPT ![s] = "out"] /\ UNCHANGED poll
     ELSE /\ state' = [state EXCEPT ![s] = "leaving"]
          /\ poll' = [poll EXCEPT !.stopping = TRUE]
  /\ UNCHANGED <<files, cursors, read, published, last>>

Stopped(s) ==
  /\ state[s] = "leaving" /\ poll.at = "sleep"
  /\ state' = [state EXCEPT ![s] = "out"]
  /\ poll' = [at |-> "off", stopping |-> FALSE]
  /\ UNCHANGED <<files, cursors, read, published, queue, last>>

-----------------------------------------------------------------------------
Next ==
  \/ Write \/ Rotate \/ ReadBegins \/ ReadFile \/ ReadEnds
  \/ \E s \in Subs : Subscribe(s) \/ Consume(s) \/ Unsubscribe(s) \/ Stopped(s)

Spec == Init /\ [][Next]_vars

-----------------------------------------------------------------------------
\* What a subscriber is sent keeps the order of publication, and wherever
\* something is left out a gap stands in its place.
GapMarked ==
  \A s \in Subs : state[s] = "in" =>
    LET q    == queue[s]
        prev(i) == IF i = 1 THEN last[s].entry
                   ELSE IF q[i - 1] = 0 THEN IF i = 2 THEN last[s].entry ELSE q[i - 2]
                   ELSE q[i - 1]
        gap(i) == IF i = 1 THEN last[s].gap ELSE q[i - 1] = 0
    IN \A i \in DOMAIN q :
         q[i] # 0 => IF gap(i) THEN q[i] > prev(i) ELSE q[i] = prev(i) + 1

\* The reader is incremental: it publishes each line once, in order.
Incremental ==
  \A i, j \in DOMAIN published : i < j => published[i] < published[j]
=============================================================================
