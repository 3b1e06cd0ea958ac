----------------------------- MODULE TaskEvents -----------------------------
(***************************************************************************)
(* The live view of one task: a change of the task or of its run's         *)
(* progress publishes an event id into a one-place queue per subscriber,   *)
(* at once or when the run that made it comes to its next publication, and *)
(* each server-sent-events stream takes the id and sends a snapshot it     *)
(* reads afterwards.  Streams stop and come back at any await.             *)
(***************************************************************************)
EXTENDS Naturals

CONSTANTS Streams,
          Runs,        \* the coroutines of the task's runs
          MaxChanges   \* bound

EventsAssumption == MaxChanges \in Nat

VARIABLES
  changes,   \* how often the task or its progress has changed
  announced, \* the changes up to the last publication
  owes,      \* the runs that have changed something and publish later
  sequence,  \* _task_event_sequence
  queue,     \* each stream's queue: an event id, or 0 when it is empty
  at,        \* where each stream is
  taken,     \* the id a stream holds
  sent       \* each stream's last message: its id and the state it shows

vars == <<changes, announced, owes, sequence, queue, at, taken, sent>>

EventsTypeOK ==
  /\ changes \in 0 .. MaxChanges /\ announced \in 0 .. changes /\ owes \subseteq Runs
  /\ queue \in [Streams -> 0 .. sequence] /\ taken \in [Streams -> 0 .. sequence]
  /\ at \in [Streams -> {"off", "waits", "holds", "sends"}]
  /\ sent \in [Streams -> [id : 0 .. sequence, shows : 0 .. changes]]

Init ==
  /\ changes = 0 /\ announced = 0 /\ owes = {} /\ sequence = 0
  /\ queue = [s \in Streams |-> 0] /\ taken = [s \in Streams |-> 0]
  /\ at = [s \in Streams |-> "off"]
  /\ sent = [s \in Streams |-> [id |-> 0, shows |-> 0]]

Subscribed(s) == at[s] # "off"

\* _publish_task_updated: an id that was not taken yet gives way to the new one.
Publish ==
  /\ announced' = changes'
  /\ sequence' = sequence + 1
  /\ queue' = [s \in Streams |-> IF Subscribed(s) THEN sequence' ELSE 0]
  /\ UNCHANGED <<at, taken, sent>>

\* An edit, an attempt, a step, the settlement of a published run, a request to cancel: the
\* change is published in its step.
Change ==
  /\ changes < MaxChanges
  /\ changes' = changes + 1
  /\ Publish
  /\ UNCHANGED owes

\* A test run settles its row and its progress and then awaits the notification and the pool;
\* a scheduled run writes them before it waits for its chat. Nothing is published yet.
ChangeSilently(r) ==
  /\ changes < MaxChanges
  /\ changes' = changes + 1
  /\ owes' = owes \cup {r}
  /\ UNCHANGED <<announced, sequence, queue, at, taken, sent>>

\* The run gets its chat, or its cleanup or done callback takes it off the registry.
Report(r) ==
  /\ r \in owes /\ owes' = owes \ {r}
  /\ changes' \in {changes, changes + 1} \cap 0 .. MaxChanges
  /\ Publish

\* A stream subscribes before it reads its first snapshot, in one step.
Open(s) ==
  /\ at[s] = "off" /\ sequence < MaxChanges + 2
  /\ sequence' = sequence + 1
  /\ queue' = [queue EXCEPT ![s] = 0]
  /\ at' = [at EXCEPT ![s] = "sends"]
  /\ sent' = [sent EXCEPT ![s] = [id |-> sequence', shows |-> changes]]
  /\ UNCHANGED <<changes, announced, owes, taken>>

\* The message is on its way; the stream looks at its queue again.  A
\* keepalive changes nothing.
Sent(s) ==
  /\ at[s] = "sends"
  /\ at' = [at EXCEPT ![s] = "waits"]
  /\ UNCHANGED <<changes, announced, owes, sequence, queue, taken, sent>>

\* queue.get() won against the keepalive and the shutdown.
Take(s) ==
  /\ at[s] = "waits" /\ queue[s] # 0
  /\ taken' = [taken EXCEPT ![s] = queue[s]]
  /\ queue' = [queue EXCEPT ![s] = 0]
  /\ at' = [at EXCEPT ![s] = "holds"]
  /\ UNCHANGED <<changes, announced, owes, sequence, sent>>

\* The task as it is now goes out under the id that was taken.
Snapshot(s) ==
  /\ at[s] = "holds"
  /\ sent' = [sent EXCEPT ![s] = [id |-> taken[s], shows |-> changes]]
  /\ at' = [at EXCEPT ![s] = "sends"]
  /\ UNCHANGED <<changes, announced, owes, sequence, queue, taken>>

\* Disconnected, shut down, or the task is gone.
Close(s) ==
  /\ at[s] # "off"
  /\ at' = [at EXCEPT ![s] = "off"]
  /\ queue' = [queue EXCEPT ![s] = 0]
  /\ UNCHANGED <<changes, announced, owes, sequence, taken, sent>>

Stream(s) == Sent(s) \/ Take(s) \/ Snapshot(s)
Next == \/ Change \/ \E r \in Runs : ChangeSilently(r) \/ Report(r)
        \/ \E s \in Streams : Stream(s) \/ Open(s) \/ Close(s)

Spec == Init /\ [][Next]_vars

-----------------------------------------------------------------------------
\* Coalescing loses nothing: a stream that shows less than was published has an id to take or
\* holds one, one that shows an old state has that or a run is about to publish, and the ids
\* it sends only grow.
FreshOrNotified ==
  \A s \in Streams : Subscribed(s) =>
    /\ sent[s].shows >= announced \/ queue[s] # 0 \/ at[s] = "holds"
    /\ owes = {} => sent[s].shows = changes \/ queue[s] # 0 \/ at[s] = "holds"
    /\ at[s] = "holds" => taken[s] > sent[s].id
    /\ queue[s] # 0 => queue[s] > sent[s].id /\ (at[s] = "holds" => queue[s] > taken[s])
=============================================================================
