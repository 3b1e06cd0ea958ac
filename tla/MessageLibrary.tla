--------------------------- MODULE MessageLibrary ---------------------------
(***************************************************************************)
(* One message group, the editors that change it through the admin API,    *)
(* and one task whose draft and published workflow may refer to it.  The   *)
(* library's routes are plain functions, which the server runs in worker   *)
(* threads; the task service works in the event loop.  What interleaves    *)
(* are therefore single database transactions.                             *)
(***************************************************************************)
EXTENDS Naturals, FiniteSets

CONSTANTS Editors, MaxRevision

LibraryAssumption == MaxRevision \in Nat \ {0} /\ IsFiniteSet(Editors)

VARIABLES
  group,    \* the row: whether it exists, is empty, its revision and author
  editor,   \* each editor: what it asks, where its request is, what it had read
  draft,    \* whether the task's config refers to the group
  version   \* whether its latest published workflow does

vars == <<group, editor, draft, version>>
tasks == <<draft, version>>

Ops == {"fill", "clear", "delete"}
At == {"read", "asked", "drafts", "versions", "write"}

LibraryTypeOK ==
  /\ group \in [there : BOOLEAN, empty : BOOLEAN, revision : 1 .. MaxRevision,
                lost : BOOLEAN]
  /\ editor \in [Editors -> [op : Ops, at : At, revision : 1 .. MaxRevision]]
  /\ {draft, version} \subseteq BOOLEAN

Init ==
  /\ group = [there |-> TRUE, empty |-> FALSE, revision |-> 1, lost |-> FALSE]
  /\ editor = [e \in Editors |-> [op |-> "fill", at |-> "read", revision |-> 1]]
  /\ draft \in BOOLEAN /\ version \in BOOLEAN

Goto(e, a) == editor' = [editor EXCEPT ![e].at = a]

\* GET, long before the change it leads to.
Read(e) ==
  /\ editor[e].at = "read" /\ group.there
  /\ \E op \in Ops :
       editor' = [editor EXCEPT ![e] = [op |-> op, at |-> "asked", revision |-> group.revision]]
  /\ UNCHANGED <<group, tasks>>

\* update_group and delete_group: the group is looked for, and must not be
\* referred to when it is to lose its messages.
Change(e) ==
  /\ editor[e].at = "asked"
  /\ Goto(e, IF ~group.there THEN "read" ELSE IF editor[e].op = "fill" THEN "write" ELSE "drafts")
  /\ UNCHANGED <<group, tasks>>

\* _ensure_unreferenced: list_tasks, then the latest version of each.
CheckDrafts(e) ==
  /\ editor[e].at = "drafts"
  /\ Goto(e, IF draft THEN "read" ELSE "versions")
  /\ UNCHANGED <<group, tasks>>

CheckVersions(e) ==
  /\ editor[e].at = "versions"
  /\ Goto(e, IF version THEN "read" ELSE "write")
  /\ UNCHANGED <<group, tasks>>

\* What a write of e makes of the group; lost: it replaced an edit e had not
\* seen.
Written(e) ==
  [there    |-> editor[e].op # "delete",
   empty    |-> editor[e].op # "fill",
   revision |-> editor[e].revision + (IF editor[e].op = "delete" THEN 0 ELSE 1),
   lost     |-> group.lost \/ group.revision # editor[e].revision]

\* UPDATE or DELETE where id and revision match; anything else is a conflict.
Write(e) ==
  /\ editor[e].at = "write"
  /\ editor[e].revision < MaxRevision
  /\ Goto(e, "read")
  /\ group' = IF group.there /\ group.revision = editor[e].revision THEN Written(e) ELSE group
  /\ UNCHANGED tasks

\* validate_task_message_groups: a group that is referred to must be there
\* and hold messages.
Usable == group.there /\ ~group.empty

\* create_task, edit_task and the import of a definition.
SaveDraft(refers) ==
  /\ refers => Usable
  /\ draft' = refers
  /\ UNCHANGED <<group, editor, version>>

\* publish_task validates the draft again.
Publish ==
  /\ draft => Usable
  /\ version' = draft
  /\ UNCHANGED <<group, editor, draft>>

Next ==
  \/ \E e \in Editors : Read(e) \/ Change(e) \/ CheckDrafts(e) \/ CheckVersions(e) \/ Write(e)
  \/ \E refers \in BOOLEAN : SaveDraft(refers)
  \/ Publish

LibraryInit == Init /\ (draft \/ version => Usable)
Spec == LibraryInit /\ [][Next]_vars

-----------------------------------------------------------------------------
\* A change never overwrites another editor's: it replaces the revision its
\* editor had read, or is refused.
EditsKeepOthers == ~group.lost

\* The documented conflict: a group that a draft or the published workflow
\* refers to is neither deleted nor emptied.
ReferencedGroupStays == draft \/ version => Usable
=============================================================================
