---------------------------- MODULE MessageWait ----------------------------
(* Waiting for the bot's answer (integrations/checkin_messages.py,          *)
(* _wait_for_message): the event handlers are registered first, the history *)
(* is fetched and inspected after them, and every inspection may pause      *)
(* between its first test of the future and the moment it settles it, when  *)
(* it asks Telegram for the sender or for the buttons of a failure message. *)
(* Message 0 is the one whose button was clicked; the bot may edit it.      *)
EXTENDS Naturals, Sequences, FiniteSets, SequencesExt

CONSTANTS MaxMessage,  \* bound on the messages the chat gets
          Limit        \* how many messages a history request returns (50)

WaitAssumption == MaxMessage \in Nat /\ Limit \in Nat

Decisive == {"success", "failure"}   \* texts that settle the wait
Texts == Decisive \cup {"other"}
Nobody == -1

VARIABLES chat,      \* the messages after the baseline, each [text, bot]
          edited,    \* the text message 0 was edited to, or "old"
          editable,  \* the wait follows a click on message 0
          askSender, \* the target is not known to be a bot (bot_id is None)
          phase,     \* off | listening | looking | waiting | returned
          events,    \* messages whose event was received and not inspected yet
          history,   \* messages of the fetched history not inspected yet
          beyond,    \* messages older than the history that was returned
          looking,   \* inspections that pause: [id, source, stage]
          dropped,   \* history: messages whose inspection in a handler ended with an exception
          future     \* none, or how the wait was settled: [kind, id]

vars == <<chat, edited, editable, askSender, phase, events, history, beyond, looking, dropped,
          future>>
ends == <<chat, edited, editable, askSender>>

Settled(kind, id) == [kind |-> kind, id |-> id]
None == Settled("none", Nobody)
Done == future # None
TextOf(id) == IF id = 0 THEN edited ELSE chat[id].text
FromBot(id) == id = 0 \/ chat[id].bot

Init ==
  /\ chat = <<>> /\ edited = "old" /\ editable \in BOOLEAN /\ askSender \in BOOLEAN
  /\ phase = "off" /\ events = <<>> /\ history = <<>> /\ beyond = {}
  /\ looking = {} /\ dropped = {} /\ future = None

\* Mutant: the handlers are registered after the history was inspected.
ListeningLate == phase = "waiting"
Listening == phase \in {"listening", "looking", "waiting"}
Heard(id) == events' = IF Listening THEN Append(events, id) ELSE events

Post ==
  /\ Len(chat) < MaxMessage /\ phase # "returned"
  /\ \E t \in Texts, b \in BOOLEAN : chat' = Append(chat, [text |-> t, bot |-> b])
  /\ Heard(Len(chat) + 1)
  /\ UNCHANGED <<edited, editable, askSender, phase, history, beyond, looking, dropped, future>>

Edit ==
  /\ edited = "old" /\ phase # "returned" /\ edited' \in Texts
  /\ Heard(0)
  /\ UNCHANGED <<chat, editable, askSender, phase, history, beyond, looking, dropped, future>>

Register ==
  /\ phase = "off" /\ phase' = "listening"
  /\ UNCHANGED <<ends, events, history, beyond, looking, dropped, future>>

\* The newest Limit messages after the baseline (with it, after a click), oldest first.
Fetch ==
  /\ phase = "listening" /\ phase' = "looking"
  /\ LET all == (IF editable THEN <<0>> ELSE <<>>) \o [i \in DOMAIN chat |-> i]
         cut == IF Len(all) > Limit THEN Len(all) - Limit ELSE 0
     IN history' = SubSeq(all, cut + 1, Len(all)) /\ beyond' = Range(SubSeq(all, 1, cut))
  /\ UNCHANGED <<ends, events, looking, dropped, future>>

---------------------------------------------------------------------------
(* inspect_message *)
Relevant(id) ==
  /\ id = 0 => (editable /\ edited # "old")
  /\ askSender \/ FromBot(id)

Kind(id) == IF TextOf(id) = "failure" THEN "failed" ELSE "received"

\* What remains when the sender is known: a failure asks for the buttons first.
Judge(id, source, others) ==
  CASE TextOf(id) = "failure" ->
         looking' = others \cup {[id |-> id, source |-> source, stage |-> "buttons"]} /\ UNCHANGED future
    [] TextOf(id) = "success" ->
         looking' = others /\ future' = IF ~Done THEN Settled("received", id)
                                       ELSE IF source = "history" THEN Settled("broken", id) ELSE future
    [] OTHER -> looking' = others /\ UNCHANGED future

Begin(id, source) ==
  IF Done \/ ~Relevant(id) THEN UNCHANGED <<looking, future>>
  ELSE IF askSender
  THEN looking' = looking \cup {[id |-> id, source |-> source, stage |-> "sender"]} /\ UNCHANGED future
  ELSE Judge(id, source, looking)

Dispatch ==
  /\ events # <<>> /\ phase # "returned"
  /\ Begin(Head(events), "event") /\ events' = Tail(events)
  /\ UNCHANGED <<ends, phase, history, beyond, dropped>>

LookingBack == \E i \in looking : i.source = "history"
Look ==
  /\ phase = "looking" /\ history # <<>> /\ ~LookingBack /\ ~Done
  /\ Begin(Head(history), "history") /\ history' = Tail(history)
  /\ UNCHANGED <<ends, phase, events, beyond, dropped>>

SenderKnown ==
  /\ phase # "returned"
  /\ \E i \in looking :
       /\ i.stage = "sender"
       /\ IF FromBot(i.id) THEN Judge(i.id, i.source, looking \ {i})
                           ELSE looking' = looking \ {i} /\ UNCHANGED future
  /\ UNCHANGED <<ends, phase, events, history, beyond, dropped>>

\* get_sender() raises: in an event handler the exception is logged and the inspection is over, in
\* the history loop it leaves the wait, as does a history request that fails.
SenderFailed ==
  /\ phase # "returned"
  /\ \E i \in looking :
       /\ i.stage = "sender" /\ looking' = looking \ {i}
       /\ IF i.source = "event"
          THEN dropped' = dropped \cup {i.id} /\ UNCHANGED <<phase, future>>
          ELSE phase' = "returned" /\ future' = Settled("raised", i.id) /\ UNCHANGED dropped
  /\ UNCHANGED <<ends, events, history, beyond>>

FetchFailed ==
  /\ phase = "listening" /\ phase' = "returned" /\ future' = Settled("raised", Nobody)
  /\ UNCHANGED <<ends, events, history, beyond, looking, dropped>>

\* Settling a future a second time raises InvalidStateError: in an event handler it is logged,
\* in the history loop it leaves the wait.
ButtonsKnown ==
  /\ phase # "returned"
  /\ \E i \in looking :
       /\ i.stage = "buttons" /\ looking' = looking \ {i}
       /\ future' = IF ~Done THEN Settled("failed", i.id)
                    ELSE IF i.source = "history" THEN Settled("broken", i.id) ELSE future
  /\ UNCHANGED <<ends, phase, events, history, beyond, dropped>>

LookedBack ==
  /\ phase = "looking" /\ (history = <<>> \/ Done) /\ ~LookingBack
  /\ phase' = IF Done THEN "returned" ELSE "waiting"
  /\ UNCHANGED <<ends, events, history, beyond, looking, dropped, future>>

Return ==
  /\ phase = "waiting" /\ Done /\ phase' = "returned"
  /\ UNCHANGED <<ends, events, history, beyond, looking, dropped, future>>

Timeout ==
  /\ phase = "waiting" /\ ~Done /\ phase' = "returned" /\ future' = Settled("timeout", Nobody)
  /\ UNCHANGED <<ends, events, history, beyond, looking, dropped>>

Next == \/ Post \/ Edit \/ Register \/ Fetch \/ FetchFailed \/ Dispatch \/ Look
        \/ SenderKnown \/ SenderFailed \/ ButtonsKnown
        \/ LookedBack \/ Return \/ Timeout
Spec == Init /\ [][Next]_vars

---------------------------------------------------------------------------
MessageIds == 0..MaxMessage
WaitTypeOK ==
  /\ chat \in Seq([text : Texts, bot : BOOLEAN]) /\ Len(chat) <= MaxMessage
  /\ edited \in Texts \cup {"old"} /\ editable \in BOOLEAN /\ askSender \in BOOLEAN
  /\ phase \in {"off", "listening", "looking", "waiting", "returned"}
  /\ events \in Seq(MessageIds) /\ history \in Seq(MessageIds) /\ beyond \subseteq MessageIds
  /\ looking \subseteq [id : MessageIds, source : {"event", "history"}, stage : {"sender", "buttons"}]
  /\ dropped \subseteq MessageIds
  /\ future \in [kind : {"none", "received", "failed", "timeout", "broken", "raised"},
                 id : MessageIds \cup {Nobody}]

Answers == {i \in 1..Len(chat) : chat[i].bot /\ chat[i].text \in Decisive}
             \cup (IF editable /\ edited \in Decisive THEN {0} ELSE {})

\* Answers that the wait can still come to, or never could.
Ahead == beyond \cup Range(events) \cup {i.id : i \in looking}

\* A wait that times out has not overlooked an answer: each one the bot gave between the step
\* before the wait and its end was beyond the history request, is still being looked at, or was
\* lost with its sender, which is only asked for when the target is not known to be a bot.
NoReplyMissed ==
  future.kind = "timeout" =>
    Answers \subseteq Ahead \cup (IF askSender THEN dropped ELSE {})

\* "Resolve the waiter when a new matching bot message is found": a wait times out only if no
\* handler has found an answer and done with it.
AnswerResolves == future.kind = "timeout" => Answers \subseteq Ahead

\* "inspect in chronological order to preserve the event-handler semantics": the wait is
\* settled by the first answer of the chat.
FirstAnswerSettles ==
  future.kind \in {"received", "failed"} => \A i \in Answers \ beyond : 0 \in {i, future.id} \/ future.id <= i

\* A wait is settled once, by an answer or by the time.
SettledOnce == future.kind # "broken"
============================================================================
