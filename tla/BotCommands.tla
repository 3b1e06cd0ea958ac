----------------------------- MODULE BotCommands -----------------------------
(***************************************************************************)
(* The configuration of the bot's commands: the rows that administrators   *)
(* edit with an expected revision (BotCommandService), what a stored       *)
(* executor needs before it may be enabled, the confirmation of Python     *)
(* source, and the menus pushed to and pulled from Telegram while edits go *)
(* on.  A description, a role and a position are data no property tells    *)
(* apart.                                                                  *)
(***************************************************************************)
EXTENDS Integers, FiniteSets, TLC

CONSTANTS System,          \* DEFAULT_BOT_COMMANDS
          Custom,          \* names of custom commands
          Editors,         \* administrators editing a row
          Refreshers,      \* calls of refresh_commands in flight
          MaxWrites        \* bound: writes of rows

BotCommandsAssumption == System \cap Custom = {} /\ MaxWrites \in Nat

VARIABLES row,             \* BotCommandConfig rows
          loaded,          \* the row an editor has on the screen
          refresh,         \* the calls of refresh_commands
          menu,            \* Telegram's menus of the two managed scopes
          pulled,          \* a pull that waits for Telegram's default menu
          writes           \* number of writes so far

vars == <<row, loaded, refresh, menu, pulled, writes>>
remote == <<refresh, menu, pulled>>

Names   == System \cup Custom
NoRow   == [revision |-> 0, enabled |-> FALSE, visible |-> FALSE, kind |-> "none",
            config |-> "empty", confirmed |-> "no", write |-> 0, born |-> 0]
Default == [NoRow EXCEPT !.enabled = TRUE, !.visible = TRUE]
Kinds   == {"none", "http", "python", "javascript"}
Configs == {"empty", "a", "b", "draft", "corrupt"}
Keep    == "keep"
Quiet   == [stage |-> "idle", menu |-> {}, alone |-> TRUE]

Stored(c) == row[c].revision > 0
Current(c) == IF Stored(c) \/ c \in Custom THEN row[c] ELSE Default

\* A retired JavaScript command of an earlier version, still enabled, whose
\* configuration nothing can read any more, may be in the database.
Init ==
    /\ row \in {[c \in Names |-> NoRow]} \cup
               {[c \in Names |-> IF c = d
                                 THEN [Default EXCEPT !.revision = 1, !.kind = "javascript",
                                                      !.config = "corrupt"]
                                 ELSE NoRow] : d \in Custom}
    /\ loaded = [e \in Editors |-> <<>>]
    /\ refresh = [r \in Refreshers |-> Quiet]
    /\ menu = [default |-> {}, private |-> {}] /\ pulled = Quiet
    /\ writes = 0

(* --- Validation ----------------------------------------------------------- *)

\* registry.normalize: required fields may be missing from a disabled draft.
Normal(kind, config, draft) ==
    \/ kind = "none" /\ config = "empty"
    \/ kind \in {"http", "python"} /\ config \in {"a", "b"} \cup IF draft THEN {"draft"} ELSE {}

CodeHash(config) == IF config \in {"a", "b"} THEN config ELSE "none"

\* registry.status says "ready", the Python runner being available or not.
Ready(kind, config, confirmed, available) ==
    /\ kind \in {"http", "python"} /\ Normal(kind, config, FALSE)
    /\ kind = "python" => confirmed = CodeHash(config) /\ available

\* Mutant: the confirmation stays when the source changes.
ConfirmationKept(c, change, kind, config) ==
    IF kind # "python" THEN "no"
    ELSE IF change.confirm THEN CodeHash(config) ELSE row[c].confirmed

\* Changed source loses its confirmation unless the same edit confirms it.
Confirmation(c, change, kind, config) ==
    IF kind # "python" THEN "no"
    ELSE IF change.confirm THEN CodeHash(config)
    ELSE IF row[c].kind = kind /\ CodeHash(row[c].config) = CodeHash(config)
         THEN row[c].confirmed ELSE "no"

Pick(new, old) == IF new = Keep THEN old ELSE new

\* _transform for the fields an edit carries: the new row, or none at all.
\* (An edit refused because the runner is unavailable changes nothing.)
Transform(c, change, create) ==
    LET cur      == Current(c)
        kind     == Pick(change.kind, cur.kind)
        config   == Pick(change.config, IF cur.config = "corrupt" THEN "empty" ELSE cur.config)
        changed  == /\ kind = "python"
                    /\ cur.kind # kind \/ CodeHash(cur.config) # CodeHash(config)
        enabled  == IF change.enabled = Keep THEN ~ changed /\ cur.enabled
                    ELSE change.enabled = "yes"
        confirm  == Confirmation(c, change, kind, config)
        preserve == ~ create /\ c \in Custom /\ ~ enabled /\ change.kind = Keep /\ change.config = Keep
    IN IF \/ create /\ (c \in System \/ Stored(c))
          \/ ~ create /\ c \in Custom /\ ~ Stored(c)
          \/ c \in System /\ (kind # "none" \/ config # "empty" \/ change.confirm)
          \/ kind # cur.kind /\ change.config = Keep
          \/ change.confirm /\ (kind # "python" \/ CodeHash(config) = "none")
          \/ ~ preserve /\ ~ Normal(kind, config, ~ enabled)
          \/ c \in Custom /\ enabled /\ ~ Ready(kind, config, confirm, TRUE)
       THEN {}
       ELSE {[cur EXCEPT !.revision = @ + 1, !.enabled = enabled,
                         !.visible = create \/ @,
                         !.kind = kind, !.config = IF preserve THEN @ ELSE config,
                         !.confirmed = confirm, !.write = writes + 1,
                         !.born = IF create THEN writes + 1 ELSE @]}

\* The fields an edit may carry (the others are data).
Changes == [enabled : {Keep, "yes", "no"}, kind : {Keep, "none", "http", "python"},
            config : {Keep, "empty", "a", "b", "draft"}, confirm : BOOLEAN]

(* --- Editing --------------------------------------------------------------- *)

Save(new) == row' = new /\ writes < MaxWrites /\ writes' = writes + 1

Load(e, c) ==
    /\ c \in System \/ Stored(c)
    /\ loaded' = [loaded EXCEPT ![e] = <<c, Current(c)>>]
    /\ UNCHANGED <<row, remote, writes>>

Create(c) ==
    /\ \E change \in Changes :
         /\ Keep \notin {change.enabled, change.kind, change.config}
         /\ \E new \in Transform(c, change, TRUE) : Save([row EXCEPT ![c] = new])
    /\ UNCHANGED <<loaded, remote>>

\* Mutant: the expected revision is not compared.
PatchAnyRevision(e, target) ==
    /\ loaded[e] # <<>>
    /\ LET c == loaded[e][1]
       IN /\ target # c => c \in Custom /\ target \in Custom /\ ~ Stored(target)
          /\ \E change \in Changes : \E new \in Transform(c, change, FALSE) :
               Save([row EXCEPT ![c] = NoRow, ![target] = new])
    /\ loaded' = [loaded EXCEPT ![e] = <<>>]
    /\ UNCHANGED <<remote>>

\* patch_command_config of an edit that names the expected revision (the API
\* also takes edits that name none): revision, validation, renaming and saving
\* in one write transaction.
Patch(e, target) ==
    /\ loaded[e] # <<>>
    /\ LET c == loaded[e][1]
       IN /\ Current(c).revision = loaded[e][2].revision
          /\ target # c => c \in Custom /\ target \in Custom /\ ~ Stored(target)
          /\ \E change \in Changes : \E new \in Transform(c, change, FALSE) :
               Save([row EXCEPT ![c] = NoRow, ![target] = new])
    /\ loaded' = [loaded EXCEPT ![e] = <<>>]
    /\ UNCHANGED <<remote>>

Delete(c) ==
    /\ c \in Custom /\ Stored(c)
    /\ row' = [row EXCEPT ![c] = NoRow]
    /\ UNCHANGED <<loaded, remote, writes>>

\* Every command gets its position; a default without a row gets a row first.
Reorder ==
    /\ \E c \in System : ~ Stored(c)
    /\ Save([c \in Names |-> IF c \in System /\ ~ Stored(c)
                             THEN [Default EXCEPT !.revision = 1, !.write = writes + 1]
                             ELSE row[c]])
    /\ UNCHANGED <<loaded, remote>>

(* --- Menus ------------------------------------------------------------------ *)

Visible(available) ==
    {c \in Names : LET r == Current(c)
                   IN /\ r.enabled /\ r.visible
                      /\ c \in Custom => Ready(r.kind, r.config, r.confirmed, available)}

Busy(r) == refresh[r].stage \in {"default", "private"}

\* refresh_commands: the menu is computed once, then set in one scope after
\* the other; each call may fail and end it.  (Whether no other call ran at
\* the same time is recorded for the property.)
Refresh(r) ==
    /\ ~ Busy(r)
    /\ \E available \in BOOLEAN :
         refresh' = [q \in Refreshers |->
                       IF q = r THEN [stage |-> "default", menu |-> Visible(available),
                                      alone |-> \A p \in Refreshers : ~ Busy(p)]
                       ELSE IF Busy(q) THEN [refresh[q] EXCEPT !.alone = FALSE] ELSE Quiet]
    /\ UNCHANGED <<row, loaded, menu, pulled, writes>>

SetScope(r) ==
    /\ Busy(r)
    /\ menu' = [menu EXCEPT ![refresh[r].stage] = refresh[r].menu]
    /\ refresh' = [refresh EXCEPT ![r].stage = IF @ = "default" THEN "private" ELSE "done"]
    /\ UNCHANGED <<row, loaded, pulled, writes>>

ScopeFails(r) ==
    /\ Busy(r)
    /\ refresh' = [refresh EXCEPT ![r] = Quiet]
    /\ UNCHANGED <<row, loaded, menu, pulled, writes>>

\* pull_remote_commands: after the answer every default command gets the
\* visibility Telegram shows for it, and keeps whether it is enabled.
Pull ==
    /\ pulled = Quiet
    /\ pulled' = [Quiet EXCEPT !.stage = "pulled", !.menu = menu.default]
    /\ UNCHANGED <<row, loaded, refresh, menu, writes>>

Pulled ==
    /\ pulled # Quiet
    /\ Save([c \in Names |-> IF c \in Custom THEN row[c]
                             ELSE [Current(c) EXCEPT !.revision = @ + 1, !.write = writes + 1,
                                                     !.visible = c \in pulled.menu]])
    /\ pulled' = Quiet
    /\ UNCHANGED <<loaded, refresh, menu>>

Next ==
    \/ \E e \in Editors, c \in Names : Load(e, c) \/ Patch(e, c)
    \/ \E c \in Custom : Create(c) \/ Delete(c)
    \/ Reorder \/ Pull \/ Pulled
    \/ \E r \in Refreshers : Refresh(r) \/ SetScope(r) \/ ScopeFails(r)

Spec == Init /\ [][Next]_vars

(* --- Properties -------------------------------------------------------------- *)

\* The variables have their types.
CommandsTypeOK ==
    /\ \A c \in Names : /\ row[c].kind \in Kinds /\ row[c].config \in Configs
                        /\ row[c].confirmed \in {"no", "a", "b"}
                        /\ row[c].revision \in 0..MaxWrites + 1
                        /\ row[c].enabled \in BOOLEAN /\ row[c].visible \in BOOLEAN
    /\ \A e \in Editors : loaded[e] = <<>> \/ loaded[e][1] \in Names
    /\ refresh \in [Refreshers -> [stage : {"idle", "default", "private", "done"},
                               menu : SUBSET Names, alone : BOOLEAN]]
    /\ menu \in [default : SUBSET Names, private : SUBSET Names]
    /\ pulled.menu \subseteq Names /\ writes \in 0..MaxWrites

\* A confirmation is always of the source that is stored, whatever edits,
\* renames and disabled drafts led there, and an enabled Python command has
\* one; an enabled command of a supported kind is completely configured.
ConfirmedSource ==
    \A c \in Custom :
        LET r == row[c]
        IN /\ r.confirmed # "no" => r.kind = "python" /\ r.confirmed = r.config
           /\ r.enabled /\ r.kind # "javascript" => /\ r.config \in {"a", "b"}
                                                    /\ r.kind = "python" => r.confirmed = r.config

\* An edit that names the revision it expects is saved only onto the row its
\* editor had on the screen: whatever another edit, a pull or a reordering
\* wrote in between makes it a conflict.
\* (A row deleted and made again counts from one: see the README.)
EditsKeepOthers ==
    [][\A e \in Editors :
         loaded[e] # <<>> /\ loaded'[e] = <<>> =>
           LET c == loaded[e][1]
           IN \/ Current(c).write = loaded[e][2].write
              \/ Current(c).born # loaded[e][2].born]_vars

\* After a refresh that ran by itself both managed scopes show the menu it
\* computed, with nothing left over from an older one.  (Two at a time may
\* leave the scopes different: see the README.)
MenuReplaced ==
    \A r \in Refreshers :
        refresh[r].stage = "done" /\ refresh[r].alone =>
            menu = [default |-> refresh[r].menu, private |-> refresh[r].menu]
=============================================================================
