------------------------------ MODULE Services ------------------------------
(***************************************************************************)
(* Parts a check-in relies on, side by side: the Python runner (whose      *)
(* module this one extends), the logins and the chats of an account, and a *)
(* wait for a bot's answer, the workflow of a run and the times a schedule *)
(* runs at.  They share no state, so a behaviour moves the one that        *)
(* "focus" names and leaves the others in an initial state.                *)
(***************************************************************************)
EXTENDS Integers, RunnerSandbox

CONSTANT Parts   \* the parts that behaviours move
VARIABLE focus

CONSTANTS Flows, NoFlow
VARIABLES account, authorized, leased, enabled, registered, current, lock, flow, loginAt,
          waiting, leaving, logout
Login == INSTANCE LoginFlows WITH at <- loginAt
loginVars == <<account, authorized, leased, enabled, registered, current, lock, flow, loginAt,
  waiting, leaving, logout>>

CONSTANTS Users, Photos
VARIABLES chatActive, leases, user, shot, listening, fetch, photo, row, files, closing
Chats == INSTANCE AccountChats WITH active <- chatActive
chatsVars == <<chatActive, leases, user, shot, listening, fetch, photo, row, files, closing>>

CONSTANTS MaxMessage, Limit
VARIABLES chat, edited, editable, askSender, phase, events, history, beyond, looking, dropped,
          future
Wait == INSTANCE MessageWait
waitVars == <<chat, edited, editable, askSender, phase, events, history, beyond, looking,
  dropped, future>>

CONSTANTS Workflows, MaxDepth, MaxAttempts
VARIABLES workflow, attempt, runPhase, stepAt, ctx, shown, ran, why, result, cancel
Workflow == INSTANCE WorkflowRun WITH phase <- runPhase, at <- stepAt
workflowVars == <<workflow, attempt, runPhase, stepAt, ctx, shown, ran, why, result, cancel>>

CONSTANTS Schedules, Zones, DayLength, WeekLength, LastDay
VARIABLES schedule, zone, plan, now, armed, since
Schedule == INSTANCE ScheduleRuns
scheduleVars == <<schedule, zone, plan, now, armed, since>>

ASSUME ServicesAssumption ==
  /\ Login!FlowAssumption /\ Chats!ChatAssumption /\ Wait!WaitAssumption
  /\ Workflow!WorkflowAssumption /\ Schedule!ScheduleAssumption

-----------------------------------------------------------------------------
ServicesInit ==
  /\ focus \in Parts
  /\ Init /\ (focus # "runner" => dockerUp)
  /\ Login!Init /\ (focus # "login" => account = "none")
  /\ Chats!Init /\ (focus # "chats" => chatActive /\ photo = 0)
  /\ Wait!Init /\ (focus # "wait" => ~editable /\ ~askSender)
  /\ IF focus = "workflow" THEN Workflow!Init ELSE workflow = <<>> /\ Workflow!Started
  /\ IF focus = "schedule" THEN Schedule!Init
     ELSE schedule = <<>> /\ zone = <<>> /\ plan = <<>> /\ now = 0 /\ armed = 0 /\ since = 0

RunnerSteps ==
  focus = "runner" /\ Next
  /\ UNCHANGED <<focus, loginVars, chatsVars, waitVars, workflowVars, scheduleVars>>
LoginSteps ==
  focus = "login" /\ Login!Next
  /\ UNCHANGED <<focus, vars, chatsVars, waitVars, workflowVars, scheduleVars>>
ChatsSteps ==
  focus = "chats" /\ Chats!Next
  /\ UNCHANGED <<focus, vars, loginVars, waitVars, workflowVars, scheduleVars>>
WaitSteps ==
  focus = "wait" /\ Wait!Next
  /\ UNCHANGED <<focus, vars, loginVars, chatsVars, workflowVars, scheduleVars>>
WorkflowSteps ==
  focus = "workflow" /\ Workflow!Next
  /\ UNCHANGED <<focus, vars, loginVars, chatsVars, waitVars, scheduleVars>>
ScheduleSteps ==
  focus = "schedule" /\ Schedule!Next
  /\ UNCHANGED <<focus, vars, loginVars, chatsVars, waitVars, workflowVars>>

ServicesNext ==
  RunnerSteps \/ LoginSteps \/ ChatsSteps \/ WaitSteps \/ WorkflowSteps \/ ScheduleSteps
servicesVars == <<focus, vars, loginVars, chatsVars, waitVars, workflowVars, scheduleVars>>
ServicesSpec == ServicesInit /\ [][ServicesNext]_servicesVars

-----------------------------------------------------------------------------
\* Every component keeps its type.
ServicesTypeOK ==
  /\ focus = "login" => Login!LoginTypeOK
  /\ focus = "chats" => Chats!ChatsTypeOK
  /\ focus = "wait" => Wait!WaitTypeOK
  /\ focus = "workflow" => Workflow!WorkflowTypeOK
  /\ focus = "schedule" => Schedule!ScheduleTypeOK

\* No login flow, client or lease of an account stays behind when its user is gone
\* (LoginFlows and AccountChats: features/accounts).
AccountsLeaveNothing == Login!NoForgottenFlow /\ Login!ClientReleased /\ Chats!LeasesBalanced

\* A wait that times out has overlooked no answer of the bot, except one whose sender Telegram
\* failed to tell (MessageWait).
NoReplyMissed == Wait!NoReplyMissed

\* What validation.py accepts does not run into a missing data source, a condition before its
\* wait or a variable of another type (WorkflowRun).
AcceptedRuns == focus = "workflow" => Workflow!SourcesPresent /\ Workflow!ConditionsReady

\* The progress of a finished run tells its last attempt (WorkflowRun).
ProgressTold == focus = "workflow" => Workflow!ProgressTold

\* The armed occurrence is the next point of the schedule, and a random time stays inside its
\* window, over a change of the clock (ScheduleRuns: features/checkin/schedule.py).
EarliestIsArmed ==
  focus = "schedule" => Schedule!EarliestIsArmed /\ Schedule!RandomInsideWindow

\* "Resolve the waiter when a new matching bot message is found": a wait that found its
\* answer returns it (MessageWait).
SettledOnce == Wait!SettledOnce

\* The same docstring: an answer a handler was given does not end in a time-out (MessageWait).
AnswerResolves == Wait!AnswerResolves
=============================================================================
