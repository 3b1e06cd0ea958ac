--------------------------- MODULE TelegramUpdates ---------------------------
(***************************************************************************)
(* How the management bot takes its updates from Telegram: the sessions of *)
(* TelegramManagementBot, its long polling loop with the offset it moves   *)
(* forward and back, and the webhook with its readiness gates, its lock    *)
(* and its bounded window of claimed update ids.  Telegram is external: it *)
(* holds an update until a later offset confirms it, or until a webhook    *)
(* request was answered, and sends it again otherwise.                     *)
(***************************************************************************)
EXTENDS Integers, Sequences, FiniteSets

CONSTANTS Requests,        \* concurrent webhook requests
          NoRequest,       \* the lock is free
          Limit,           \* _WEBHOOK_UPDATE_DEDUPE_LIMIT
          MaxUpdate,       \* bound: updates users send
          MaxSessions,     \* bound: starts of the service
          MaxRefusals,     \* bound: refusals of the command queue
          MaxLost          \* bound: webhook answers that get lost

ASSUME TelegramUpdatesAssumption ==
    /\ NoRequest \notin Requests
    /\ Limit \in Nat \ {0}
    /\ MaxUpdate \in Nat /\ MaxSessions \in Nat /\ MaxRefusals \in Nat /\ MaxLost \in Nat

VARIABLES transport,       \* settings.bot_transport
          phase,           \* "down", "cleaning", "menu", "serving", "closing"
          offset,          \* _offset, 0 when None
          batch,           \* updates of one getUpdates still to handle
          current,         \* the update the polling loop handles, 0 when none
          seen,            \* _webhook_seen_update_order
          request,         \* the webhook requests: stage, update, first readiness
          lock,            \* holder of _webhook_update_lock
          held,            \* updates Telegram still means to deliver
          last,            \* last update id Telegram gave out
          sessions, lost,  \* bounded counters
          attempts,        \* times the handler was started on an update
          refused,         \* attempts ended by CommandAdmissionUnavailable
          stale,           \* updates Telegram discarded at a session's start
          discarded,       \* updates acknowledged without being handled
          evicted          \* updates the window forgot

vars == <<transport, phase, offset, batch, current, seen, request, lock, held, last,
          sessions, lost, attempts, refused, stale, discarded, evicted>>
session == <<transport, phase, sessions>>
polling == <<offset, batch, current>>
webhook == <<seen, request, lock, discarded, evicted>>
server  == <<held, last, stale>>
counts  == <<attempts, refused, lost>>

Updates == 1..MaxUpdate
Idle    == [stage |-> "idle", update |-> 0, ready |-> FALSE]

Init ==
    /\ transport \in {"long_polling", "webhook"}
    /\ phase = "down" /\ sessions = 0 /\ lost = 0
    /\ offset = 0 /\ batch = {} /\ current = 0
    /\ seen = <<>> /\ request = [r \in Requests |-> Idle] /\ lock = NoRequest
    /\ held = {} /\ last = 0 /\ stale = {} /\ discarded = {} /\ evicted = {}
    /\ attempts = [u \in Updates |-> 0] /\ refused = [u \in Updates |-> 0]

(* --- Telegram and the session ------------------------------------------ *)

Send ==
    /\ last < MaxUpdate
    /\ last' = last + 1 /\ held' = held \cup {last + 1}
    /\ UNCHANGED <<session, polling, webhook, counts, stale>>

\* start(): a new session forgets the offset and the claimed ids.
Start ==
    /\ phase = "down" /\ sessions < MaxSessions
    /\ phase' = "cleaning" /\ sessions' = sessions + 1
    /\ offset' = 0 /\ seen' = <<>>
    /\ UNCHANGED <<transport, batch, current, request, lock, discarded, evicted, server, counts>>

\* deleteWebhook or setWebhook with drop_pending_updates=True; the answer may
\* be lost, and then the loop calls it again.
DropPending ==
    /\ phase = "cleaning"
    /\ stale' = stale \cup held /\ held' = {}
    /\ phase' \in {"cleaning", "menu"}
    /\ UNCHANGED <<transport, sessions, polling, webhook, counts, last>>

\* refresh_commands(): a failure starts the registration over.
RefreshMenu ==
    /\ phase = "menu"
    /\ phase' \in {"cleaning", "serving"}
    /\ UNCHANGED <<transport, sessions, polling, webhook, server, counts>>

\* close(): the stop gate closes and the loop's task is cancelled.
Close ==
    /\ phase \notin {"down", "closing"}
    /\ phase' = "closing" /\ batch' = {} /\ current' = 0
    /\ UNCHANGED <<transport, sessions, offset, webhook, server, counts>>

\* The process ends, after close() or by a crash: nothing of it survives.
Exit ==
    /\ phase # "down"
    /\ phase' = "down" /\ batch' = {} /\ current' = 0
    /\ request' = [r \in Requests |-> Idle] /\ lock' = NoRequest
    /\ UNCHANGED <<transport, sessions, offset, seen, discarded, evicted, server, counts>>

(* --- Long polling ------------------------------------------------------- *)

\* getUpdates(offset) confirms every update below the offset.
Fetch ==
    /\ transport = "long_polling" /\ phase = "serving" /\ batch = {} /\ current = 0
    /\ LET rest == {u \in held : u >= offset}
       IN /\ rest # held \/ rest # {}
          /\ held' = rest
          /\ batch' = rest
    /\ UNCHANGED <<session, offset, current, webhook, last, stale, counts>>

\* Telegram gives out the updates in the order of their ids.
Take ==
    /\ current = 0
    /\ \E u \in batch :
         /\ \A w \in batch : u <= w
         /\ current' = u /\ batch' = batch \ {u}
         /\ offset' = u + 1
         /\ attempts' = [attempts EXCEPT ![u] = @ + 1]
    /\ UNCHANGED <<session, webhook, server, refused, lost>>

\* The handler returned, or raised something the loop logs and skips.
Handled ==
    /\ current # 0
    /\ current' = 0
    /\ UNCHANGED <<session, offset, batch, webhook, server, counts>>

\* Mutant: the offset stays past the refused update.
RefusedKeepsOffset ==
    /\ current # 0 /\ refused[current] < MaxRefusals
    /\ batch' = {} /\ current' = 0
    /\ refused' = [refused EXCEPT ![current] = @ + 1]
    /\ UNCHANGED <<session, offset, webhook, server, attempts, lost>>

\* CommandAdmissionUnavailable: the offset goes back and the batch is dropped.
Refused ==
    /\ current # 0 /\ refused[current] < MaxRefusals
    /\ offset' = current /\ batch' = {} /\ current' = 0
    /\ refused' = [refused EXCEPT ![current] = @ + 1]
    /\ UNCHANGED <<session, webhook, server, attempts, lost>>

(* --- Webhook ------------------------------------------------------------ *)

Accepts == transport = "webhook" /\ phase = "serving"

Arrive(r) ==
    /\ transport = "webhook" /\ phase # "down" /\ request[r].stage = "idle"
    /\ \E u \in held :
         request' = [request EXCEPT ![r] = [stage |-> "body", update |-> u, ready |-> Accepts]]
    /\ UNCHANGED <<session, polling, seen, lock, discarded, evicted, server, counts>>

\* Mutant: readiness is tested only after the body was read.
BodyWithoutSnapshot(r) ==
    /\ request[r].stage = "body"
    /\ request' = [request EXCEPT ![r].stage = IF Accepts THEN "handle" ELSE "discard"]
    /\ UNCHANGED <<session, polling, seen, lock, discarded, evicted, server, counts>>

\* The body has been read: readiness at arrival counts, and so does the one now.
Body(r) ==
    /\ request[r].stage = "body"
    /\ request' = [request EXCEPT ![r].stage =
                     IF request[r].ready /\ Accepts THEN "handle" ELSE "discard"]
    /\ UNCHANGED <<session, polling, seen, lock, discarded, evicted, server, counts>>

\* _claim_webhook_update for an id that is not in the window.
Claim(u) ==
    IF Len(seen) < Limit
    THEN seen' = Append(seen, u) /\ UNCHANGED evicted
    ELSE seen' = Append(Tail(seen), u) /\ evicted' = evicted \cup {Head(seen)}

\* The request ends with 204; Telegram may not get to see it.
Answer(r) ==
    /\ request' = [request EXCEPT ![r] = Idle]
    /\ \/ held' = held \ {request[r].update} /\ UNCHANGED lost
       \/ lost < MaxLost /\ lost' = lost + 1 /\ UNCHANGED held

Claimed(u) == \E i \in DOMAIN seen : seen[i] = u

\* discard_webhook_update, and handle_webhook_update behind a closed stop gate.
Discard(r) ==
    /\ lock = NoRequest
    /\ \/ request[r].stage = "discard"
       \/ request[r].stage = "handle" /\ phase = "closing"
    /\ LET u == request[r].update
       IN IF Claimed(u) THEN UNCHANGED <<seen, evicted, discarded>>
          ELSE Claim(u) /\ discarded' = discarded \cup {u}
    /\ Answer(r)
    /\ UNCHANGED <<session, polling, lock, last, stale, attempts, refused>>

\* Mutant: a claimed update is refused with an error instead of acknowledged.
DuplicateRejected(r) ==
    /\ lock = NoRequest /\ request[r].stage = "handle" /\ phase # "closing"
    /\ Claimed(request[r].update)
    /\ request' = [request EXCEPT ![r] = Idle]
    /\ UNCHANGED <<session, polling, seen, lock, discarded, evicted, server, counts>>

\* Another request for an update that has been claimed is acknowledged.
Duplicate(r) ==
    /\ lock = NoRequest /\ request[r].stage = "handle" /\ phase # "closing"
    /\ Claimed(request[r].update)
    /\ Answer(r)
    /\ UNCHANGED <<session, polling, seen, lock, discarded, evicted, last, stale, attempts, refused>>

Handle(r) ==
    /\ lock = NoRequest /\ request[r].stage = "handle" /\ phase # "closing"
    /\ ~ Claimed(request[r].update)
    /\ Claim(request[r].update)
    /\ lock' = r /\ request' = [request EXCEPT ![r].stage = "handling"]
    /\ attempts' = [attempts EXCEPT ![request[r].update] = @ + 1]
    /\ UNCHANGED <<session, polling, discarded, server, refused, lost>>

\* The handler returned, or raised something that is logged.
Completed(r) ==
    /\ request[r].stage = "handling"
    /\ lock' = NoRequest
    /\ Answer(r)
    /\ UNCHANGED <<session, polling, seen, discarded, evicted, last, stale, attempts, refused>>

\* deque.remove, at the claim of u if there is one.
Withdraw(u) ==
    IF Claimed(u)
    THEN \E i \in DOMAIN seen : /\ seen[i] = u
                               /\ seen' = SubSeq(seen, 1, i - 1) \o SubSeq(seen, i + 1, Len(seen))
    ELSE seen' = seen

\* CommandAdmissionUnavailable: the claim is withdrawn and the answer is a 5xx.
Unavailable(r) ==
    /\ request[r].stage = "handling" /\ refused[request[r].update] < MaxRefusals
    /\ Withdraw(request[r].update)
    /\ refused' = [refused EXCEPT ![request[r].update] = @ + 1]
    /\ lock' = NoRequest /\ request' = [request EXCEPT ![r] = Idle]
    /\ UNCHANGED <<session, polling, discarded, evicted, server, attempts, lost>>

Poll == Fetch \/ Take \/ Handled
Serve(r) == Body(r) \/ Discard(r) \/ Duplicate(r) \/ Handle(r) \/ Completed(r)

Next ==
    \/ Send \/ Start \/ DropPending \/ RefreshMenu \/ Close \/ Exit
    \/ Poll \/ Refused
    \/ \E r \in Requests : Arrive(r) \/ Serve(r) \/ Unavailable(r)

\* The loop and the requests are asyncio tasks that are always resumed, and
\* Telegram delivers again what it was not answered.  Nothing makes the
\* command queue refuse, and nobody has to start or stop the service.
Fairness ==
    /\ WF_vars(Poll)
    /\ \A r \in Requests : WF_vars(Arrive(r)) /\ WF_vars(Serve(r))

Spec == Init /\ [][Next]_vars /\ Fairness

(* --- Properties --------------------------------------------------------- *)

\* The variables have their types, and the window stays within its limit.
UpdatesTypeOK ==
    /\ transport \in {"long_polling", "webhook"}
    /\ phase \in {"down", "cleaning", "menu", "serving", "closing"}
    /\ offset \in 0..MaxUpdate + 1 /\ current \in 0..MaxUpdate
    /\ batch \subseteq Updates /\ seen \in Seq(Updates) /\ Len(seen) <= Limit
    /\ request \in [Requests -> [stage : {"idle", "body", "discard", "handle", "handling"},
                                 update : 0..MaxUpdate, ready : BOOLEAN]]
    /\ lock \in Requests \cup {NoRequest}
    /\ held \cup stale \cup discarded \cup evicted \subseteq Updates /\ last \in 0..MaxUpdate
    /\ attempts \in [Updates -> Nat] /\ refused \in [Updates -> 0..MaxRefusals]
    /\ sessions \in 0..MaxSessions /\ lost \in 0..MaxLost

\* Telegram stops delivering an update only once the bot has taken it up: it
\* was handled, or it was one of those the bot throws away on purpose (sent
\* while the service was down, starting or stopping).  A refusal of the
\* command queue in the middle of a batch, or of one of several requests for
\* the same update, loses nothing.
NothingSkipped ==
    \A u \in 1..last :
        u \notin held \cup stale \cup discarded => attempts[u] > refused[u]

\* An update is handled a second time only after its first handling was
\* refused, however often Telegram delivers it, unless the window of claimed
\* ids has dropped it in the meantime.
HandledOnce == \A u \in Updates \ evicted : attempts[u] <= refused[u] + 1

\* No update is passed over or handled twice, except where the window of claimed
\* ids forgot it (interfaces/telegram/runtime.py), and every variable keeps its
\* type.
HandledExactly == UpdatesTypeOK /\ NothingSkipped /\ HandledOnce

\* An update that was waiting when a session began is never handled, not even
\* when its request was already in the process before the webhook was set.
StaleNeverHandled == [][\A u \in stale : attempts'[u] = attempts[u]]_vars

\* What Telegram wants to deliver to a serving bot is delivered and answered,
\* unless the service stops: neither a refused update nor a lost answer
\* blocks the others or itself forever.
Delivered ==
    \A u \in Updates : (u \in held /\ phase = "serving") ~> (u \notin held \/ phase # "serving")
=============================================================================
