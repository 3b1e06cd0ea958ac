--------------------------- MODULE CommandPromise ---------------------------
(***************************************************************************)
(* What the custom command queue promises for one Telegram update          *)
(* (docs/custom-command-executors.md §7): once admitted, its executor is   *)
(* started at most once whatever crashes, its outcome is final and does    *)
(* not lie about that start, and at most MaxTries replies are shown, none  *)
(* before the outcome.                                                     *)
(***************************************************************************)
EXTENDS Naturals

CONSTANTS Updates, MaxTries

VARIABLES
  phase,    \* "new", "admitted" or the outcome of each update
  starts,   \* how often each update's executor was started
  replies   \* how many replies each update's sender saw

promiseVars == <<phase, starts, replies>>

Outcomes == {"succeeded", "failed", "unknown", "cancelled"}

Init ==
  /\ phase = [u \in Updates |-> "new"]
  /\ starts = [u \in Updates |-> 0]
  /\ replies = [u \in Updates |-> 0]

Admit(u) ==
  /\ phase[u] = "new"
  /\ phase' = [phase EXCEPT ![u] = "admitted"]
  /\ UNCHANGED <<starts, replies>>

\* An executor whose lease expired while it was being prepared may start
\* after its update was settled as unknown.
StartExecutor(u) ==
  /\ phase[u] \in {"admitted", "unknown"}
  /\ starts[u] = 0
  /\ starts' = [starts EXCEPT ![u] = 1]

\* A success ran; what waited too long never did.
Settled(u) ==
  /\ phase[u] = "admitted" /\ phase'[u] \in Outcomes
  /\ phase'[u] = "succeeded" => starts[u] = 1
  /\ phase'[u] = "cancelled" => starts[u] = 0

\* Recovery settles every update that was interrupted or waited too long.
Settle(us) ==
  /\ \A u \in us : Settled(u)
  /\ phase' = [u \in Updates |-> IF u \in us THEN phase'[u] ELSE phase[u]]

Reply(u) ==
  /\ phase[u] \in Outcomes
  /\ replies[u] < MaxTries
  /\ replies' = [replies EXCEPT ![u] = @ + 1]
  /\ UNCHANGED <<phase, starts>>

\* A worker that claims may settle others and start its own in one step.
Next ==
  \/ /\ \E us \in SUBSET Updates : Settle(us)
     /\ UNCHANGED starts \/ \E u \in Updates : phase'[u] # "cancelled" /\ StartExecutor(u)
     /\ UNCHANGED replies
  \/ \E u \in Updates : Admit(u) \/ Reply(u)

Spec == Init /\ [][Next]_promiseVars
=============================================================================
