----------------------------- MODULE LoginFlows -----------------------------
(***************************************************************************)
(* LoginFlowManager and AccountDirectory.logout for one account name: QR   *)
(* and phone logins that await Telegram with a client of their own, their  *)
(* cancellation at any await, and the logout of the same account.  The     *)
(* pool is seen through whether it holds a lease (see ClientPool).         *)
(***************************************************************************)
EXTENDS Naturals, FiniteSets

CONSTANTS Flows, NoFlow

FlowAssumption == NoFlow \notin Flows

VARIABLES
  account,     \* the row: "none", "active" or "inactive"
  authorized,  \* whether the session file is signed in at Telegram
  leased,      \* whether the pooled client is in use
  enabled,     \* whether an enabled task refers to the account
  registered,  \* _flows_by_id
  current,     \* _flow_ids_by_account[account]
  lock,        \* the start that holds the manager's lock over an await
  flow,        \* each flow: method, stage, whether its client is open
  at,          \* the await each flow's request or QR waiter is at
  waiting,     \* flows whose QR waiter runs
  leaving,     \* cancellations that await the disconnect of their flow
  logout       \* where the logout is

rows == <<account, authorized>>
others == <<leased, enabled>>
books == <<registered, current, lock>>
vars == <<account, authorized, leased, enabled, registered, current, lock, flow, at, waiting,
          leaving, logout>>

Stages == {"new", "connecting", "phone_required", "qr_pending", "code_pending",
           "password_pending", "completed", "failed"}
ActiveStages == Stages \ {"new", "completed", "failed"}
Awaits == {"none", "pool", "connect", "check", "qr", "wait", "send", "code", "password",
           "pull", "fail", "disconnect"}

LoginTypeOK ==
  /\ account \in {"none", "active", "inactive"}
  /\ {authorized, leased, enabled} \subseteq BOOLEAN
  /\ registered \cup leaving \cup waiting \subseteq Flows
  /\ current \in Flows \cup {NoFlow} /\ lock \in Flows \cup {NoFlow}
  /\ flow \in [Flows -> [method : {"qr", "phone"}, stage : Stages, client : BOOLEAN]]
  /\ at \in [Flows -> Awaits]
  /\ logout \in {"idle", "dropping", "telegram", "disconnect"}

Init ==
  /\ account \in {"none", "active", "inactive"}
  /\ authorized = (account = "active")
  /\ leased = FALSE /\ enabled = FALSE
  /\ registered = {} /\ current = NoFlow /\ lock = NoFlow
  /\ flow = [f \in Flows |-> [method |-> "qr", stage |-> "new", client |-> FALSE]]
  /\ at = [f \in Flows |-> "none"]
  /\ leaving = {} /\ waiting = {}
  /\ logout = "idle"

LockFree == lock = NoFlow
\* The waiter lives from the QR code it shows to its last await.
Goto(f, a) ==
  /\ at' = [at EXCEPT ![f] = a]
  /\ waiting' = CASE a = "wait" -> waiting \cup {f}
                  [] a = "none" -> waiting \ {f}
                  [] OTHER      -> waiting
Stage(f, s) == flow' = [flow EXCEPT ![f].stage = s]

-----------------------------------------------------------------------------
(* start: the conflict test, the drop of the pooled client and the         *)
(* registration are one section of the manager's lock.                     *)

Supersedes == current # NoFlow => flow[current].stage \notin ActiveStages

Start(f, method) ==
  /\ LockFree /\ flow[f].stage = "new" /\ at[f] = "none"
  /\ Supersedes
  /\ registered' = registered \ {current}
  /\ account = "none" \/ ~leased
  /\ lock' = f
  /\ Goto(f, "pool")
  /\ flow' = [flow EXCEPT ![f].method = method]
  /\ UNCHANGED <<rows, others, current, leaving, logout>>

\* The pool dropped its client, so the flow gets one; or a lease came first.
StartRegisters(f) ==
  /\ at[f] = "pool"
  /\ lock' = NoFlow
  /\ \/ /\ account = "none" \/ ~leased
        /\ registered' = registered \cup {f} /\ current' = f
        /\ \/ flow[f].method = "qr" /\ Goto(f, "connect")
              /\ flow' = [flow EXCEPT ![f].stage = "connecting", ![f].client = TRUE]
           \/ flow[f].method = "phone" /\ Goto(f, "none")
              /\ flow' = [flow EXCEPT ![f].stage = "phone_required", ![f].client = TRUE]
     \/ /\ account # "none" /\ leased
        /\ Goto(f, "none")
        /\ UNCHANGED <<registered, current, flow>>
  /\ UNCHANGED <<rows, others, leaving, logout>>

-----------------------------------------------------------------------------
(* Requests and the QR waiter.  Each needs its flow to be registered when  *)
(* it begins; afterwards it only notices a cancellation by the missing     *)
(* client, except where _is_current is asked.                              *)

FlowOnly == UNCHANGED <<others, books, leaving, logout>>

Submit(f, stage, a) ==
  /\ LockFree /\ f \in registered /\ at[f] = "none"
  /\ flow[f].stage = stage
  /\ Goto(f, a)
  /\ UNCHANGED <<rows, flow>> /\ FlowOnly

SubmitPhone(f) == Submit(f, "phone_required", "connect")
SubmitCode(f) == Submit(f, "code_pending", "code")
SubmitPassword(f) == Submit(f, "password_pending", "password")

\* An await of f that raised: a start gives up, a waiter marks a current flow
\* failed, a submission reports it and leaves the flow as it is.
Raises(f) ==
  /\ \/ /\ f \in waiting /\ f \in registered
        /\ Stage(f, "failed") /\ Goto(f, "disconnect")
     \/ /\ f \notin waiting /\ flow[f].method = "qr" /\ at[f] # "password"
        /\ Goto(f, "fail") /\ UNCHANGED flow
     \/ /\ IF f \in waiting THEN f \notin registered
           ELSE flow[f].method = "phone" \/ at[f] = "password"
        /\ Goto(f, "none") /\ UNCHANGED flow
  /\ UNCHANGED rows /\ FlowOnly

TelegramFails(f) ==
  at[f] \in {"connect", "check", "qr", "wait", "send", "code", "password"} /\ Raises(f)

\* _complete activates the account whoever the flow's owner is by now; a new
\* account pulls its chats before the stage changes.
Complete(f) ==
  /\ account' = "active"
  /\ IF account = "none" /\ flow[f].client
     THEN Goto(f, "pull") /\ UNCHANGED flow
     ELSE Goto(f, "disconnect") /\ Stage(f, "completed")

Connected(f) ==
  /\ at[f] = "connect" /\ flow[f].client
  /\ Goto(f, "check")
  /\ UNCHANGED <<rows, flow>> /\ FlowOnly

Checked(f) ==
  /\ at[f] = "check" /\ flow[f].client
  /\ IF authorized THEN Complete(f)
     ELSE Goto(f, IF flow[f].method = "qr" THEN "qr" ELSE "send") /\ UNCHANGED <<account, flow>>
  /\ UNCHANGED authorized /\ FlowOnly

\* _create_qr, in start and for every code that ran out.
QrCreated(f) ==
  /\ at[f] = "qr"
  /\ Stage(f, "qr_pending")
  /\ Goto(f, IF f \in registered THEN "wait" ELSE "none")
  /\ UNCHANGED rows /\ FlowOnly

QrTimeout(f) ==
  /\ at[f] = "wait"
  /\ Goto(f, IF f \in registered /\ flow[f].client THEN "qr" ELSE "none")
  /\ UNCHANGED <<rows, flow>> /\ FlowOnly

CodeSent(f) ==
  /\ at[f] = "send"
  /\ Stage(f, "code_pending") /\ Goto(f, "none")
  /\ UNCHANGED rows /\ FlowOnly

CodeExpired(f) ==
  /\ at[f] = "code"
  /\ Stage(f, "phone_required") /\ Goto(f, "none")
  /\ UNCHANGED rows /\ FlowOnly

PasswordNeeded(f) ==
  /\ at[f] \in {"code", "wait"}
  /\ Stage(f, "password_pending") /\ Goto(f, "none")
  /\ UNCHANGED rows /\ FlowOnly

SignedIn(f) ==
  /\ at[f] \in {"code", "password", "wait"}
  /\ at[f] = "wait" => flow[f].client
  /\ authorized' = TRUE
  /\ Complete(f)
  /\ FlowOnly

Pulled(f) ==
  /\ at[f] = "pull"
  /\ Stage(f, "completed") /\ Goto(f, "disconnect")
  /\ UNCHANGED rows /\ FlowOnly

\* _fail_start: forgotten under the lock, then disconnected.
FailStart(f) ==
  /\ at[f] = "fail" /\ LockFree
  /\ registered' = registered \ {f}
  /\ current' = IF current = f THEN NoFlow ELSE current
  /\ Goto(f, "disconnect")
  /\ UNCHANGED <<rows, others, lock, flow, leaving, logout>>

Disconnected(f) ==
  /\ at[f] = "disconnect"
  /\ flow' = [flow EXCEPT ![f].client = FALSE]
  /\ Goto(f, "none")
  /\ UNCHANGED rows /\ FlowOnly

\* Mutant: the waiter is only asked to stop when the QR code is shown, and
\* the disconnect is left to it.
CancelLeavesWaiter(f) ==
  /\ LockFree /\ f \in registered
  /\ registered' = registered \ {f}
  /\ current' = IF current = f THEN NoFlow ELSE current
  /\ IF at[f] = "wait" THEN UNCHANGED leaving ELSE leaving' = leaving \cup {f}
  /\ UNCHANGED <<rows, others, lock, flow, at, waiting, logout>>

\* cancel, also from close: forgotten, the waiter stopped, disconnected.
Cancel(f) ==
  /\ LockFree /\ f \in registered
  /\ registered' = registered \ {f}
  /\ current' = IF current = f THEN NoFlow ELSE current
  /\ leaving' = leaving \cup {f}
  /\ IF f \in waiting THEN Goto(f, "none") ELSE UNCHANGED <<at, waiting>>
  /\ UNCHANGED <<rows, others, lock, flow, logout>>

CancelEnds(f) ==
  /\ f \in leaving
  /\ leaving' = leaving \ {f}
  /\ flow' = [flow EXCEPT ![f].client = FALSE]
  /\ UNCHANGED <<rows, others, books, at, waiting, logout>>

-----------------------------------------------------------------------------
(* logout: its tests are made once, before three awaits. *)

LogoutOnly == UNCHANGED <<others, books, flow, at, waiting, leaving>>

LogoutBegins ==
  /\ logout = "idle" /\ account # "none"
  /\ ~enabled /\ ~leased
  /\ logout' = "dropping"
  /\ UNCHANGED rows /\ LogoutOnly

LogoutDrops ==
  /\ logout = "dropping"
  /\ logout' = IF leased THEN "idle" ELSE "telegram"
  /\ UNCHANGED rows /\ LogoutOnly

\* Connected, and signed out if it was signed in; or it failed, perhaps
\* after Telegram had signed the session out.
LogoutTelegram(ok) ==
  /\ logout = "telegram"
  /\ authorized' \in (IF ok THEN {FALSE} ELSE {authorized, FALSE})
  /\ logout' = IF ok THEN "disconnect" ELSE "idle"
  /\ UNCHANGED account /\ LogoutOnly

LogoutEnds ==
  /\ logout = "disconnect"
  /\ account' = "inactive"
  /\ logout' = "idle"
  /\ UNCHANGED authorized /\ LogoutOnly

\* Runs of an active account take and release leases; tasks are enabled and
\* disabled without asking for the account's state.
OtherUsers ==
  /\ \/ leased' = ~leased /\ (leased \/ (account = "active" /\ authorized)) /\ UNCHANGED enabled
     \/ enabled' = ~enabled /\ account # "none" /\ UNCHANGED leased
  /\ UNCHANGED <<rows, books, flow, at, waiting, leaving, logout>>

-----------------------------------------------------------------------------
Step(f) ==
  \/ \E m \in {"qr", "phone"} : Start(f, m)
  \/ StartRegisters(f) \/ SubmitPhone(f) \/ SubmitCode(f) \/ SubmitPassword(f)
  \/ TelegramFails(f) \/ Connected(f) \/ Checked(f) \/ QrCreated(f) \/ QrTimeout(f)
  \/ CodeSent(f) \/ CodeExpired(f) \/ PasswordNeeded(f) \/ SignedIn(f) \/ Pulled(f)
  \/ FailStart(f) \/ Disconnected(f) \/ Cancel(f) \/ CancelEnds(f)

Logout == LogoutBegins \/ LogoutDrops \/ (\E ok \in BOOLEAN : LogoutTelegram(ok)) \/ LogoutEnds

Next == (\E f \in Flows : Step(f)) \/ Logout \/ OtherUsers

Spec == Init /\ [][Next]_vars

-----------------------------------------------------------------------------
\* A flow the manager still knows is the one its account points to, so no
\* finished login stays reachable, and start can see every active one.
NoForgottenFlow == registered \subseteq {current}

\* Every client a login opened is disconnected in the end: once a flow is
\* neither known nor at work, or has ended, its client is gone.
ClientReleased ==
  \A f \in Flows :
    flow[f].client /\ at[f] = "none" /\ f \notin leaving
      => f \in registered /\ flow[f].stage \in ActiveStages
=============================================================================
