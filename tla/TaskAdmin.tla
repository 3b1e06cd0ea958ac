----------------------------- MODULE TaskAdmin ------------------------------
(***************************************************************************)
(* TaskService and WorkflowService: what an administrator does to a task   *)
(* through the HTTP API or a CLI.  Each operation is one synchronous call  *)
(* on the event loop: it writes the task row, bumps the task's revision,   *)
(* and brings the timer job in line.  A rejected call changes nothing.     *)
(***************************************************************************)
EXTENDS CheckinState

Editable(t) == up = "up" /\ Exists(t) /\ ~task[t].archived

Write(t, new) == task' = [task EXCEPT ![t] = new]

\* TaskService.create_task: disabled, unpublished, without a next run.
CreateTask(t, k) ==
  /\ up = "up"
  /\ ~Exists(t)
  /\ Write(t, [NoTask EXCEPT !.draft = k])
  /\ UNCHANGED <<now, up, row, timers, co, shared>>

\* TaskService.edit_task: only the draft of an enabled task changes, its
\* pending occurrence stays; only a disabled task is synchronised.
EditTask(t, k) ==
  /\ Editable(t)
  /\ IF task[t].enabled
     THEN /\ Write(t, [task[t] EXCEPT !.draft = k])
          /\ UNCHANGED job
     ELSE /\ Write(t, [task[t] EXCEPT !.draft = k, !.next = None])
          /\ SyncSchedule(t)
  /\ BumpRevision(t)
  /\ UNCHANGED <<now, up, row, cb, shared>>

\* TaskService.enable_task
EnableTask(t) ==
  /\ Editable(t)
  /\ task[t].version # None
  /\ NextRunFor(None) # None
  /\ Write(t, [task[t] EXCEPT !.enabled = TRUE, !.next = NextRunFor(None)])
  /\ BumpRevision(t)
  /\ SyncSchedule(t)
  /\ UNCHANGED <<now, up, row, cb, shared>>

\* Mutant: the timer of a disabled task is left armed.
DisableTaskUnsynced(t) ==
  /\ up = "up"
  /\ Exists(t)
  /\ Write(t, [task[t] EXCEPT !.enabled = FALSE, !.next = None])
  /\ BumpRevision(t)
  /\ UNCHANGED <<now, up, row, timers, shared>>

\* TaskService.disable_task
DisableTask(t) ==
  /\ up = "up"
  /\ Exists(t)
  /\ Write(t, [task[t] EXCEPT !.enabled = FALSE, !.next = None])
  /\ BumpRevision(t)
  /\ SyncSchedule(t)
  /\ UNCHANGED <<now, up, row, cb, shared>>

\* TaskService.skip_next_task: records the occurrence as skipped and moves on.
SkipNextTask(t, r) ==
  LET planned == task[t].next
  IN  /\ Editable(t)
      /\ Unused(r)
      /\ task[t].enabled
      /\ planned # None
      /\ ~(planned <= now /\ (running[t] # None \/ HasRunningRow(t)))
      /\ row' = [row EXCEPT ![r] =
                   [NoRow EXCEPT !.task = t, !.kind = "skip",
                                 !.status = "skipped", !.planned = planned]]
      /\ Write(t, [task[t] EXCEPT !.next = NextRunFor(planned)])
      /\ BumpRevision(t)
      /\ SyncSchedule(t)
      /\ UNCHANGED <<now, up, cb, shared>>

\* TaskService.archive_task
ArchiveTask(t) ==
  /\ up = "up"
  /\ Exists(t)
  /\ Write(t, [task[t] EXCEPT !.enabled = FALSE, !.archived = TRUE,
                              !.next = None])
  /\ BumpRevision(t)
  /\ SyncSchedule(t)
  /\ UNCHANGED <<now, up, row, cb, shared>>

\* TaskService.restore_task
RestoreTask(t) ==
  /\ up = "up"
  /\ Exists(t)
  /\ Write(t, [task[t] EXCEPT !.archived = FALSE, !.enabled = FALSE,
                              !.next = None])
  /\ BumpRevision(t)
  /\ SyncSchedule(t)
  /\ UNCHANGED <<now, up, row, cb, shared>>

\* WorkflowService.publish_task: version and schedule in one transaction.
PublishTask(t) ==
  /\ Editable(t)
  /\ task[t].enabled => NextRunFor(None) # None
  /\ Write(t, [task[t] EXCEPT
                 !.version = task[t].draft,
                 !.next = IF task[t].enabled THEN NextRunFor(None) ELSE None])
  /\ BumpRevision(t)
  /\ SyncSchedule(t)
  /\ UNCHANGED <<now, up, row, cb, shared>>
=============================================================================
