-------------------------- MODULE InterfacesProofs --------------------------
(***************************************************************************)
(* Theorems about the interfaces, for any numbers of users, codes,         *)
(* commands, administrators, refreshes and editors and for any settings of *)
(* the times: who acts from a button, whose edits are kept, which source   *)
(* is confirmed, what a menu shows, what a slow console is told, and the   *)
(* types and bounds of all their state.                                    *)
(***************************************************************************)
EXTENDS Interfaces, Integers, FiniteSetTheorems, SequenceTheorems, TLAPS

-----------------------------------------------------------------------------
(* Buttons: the handler that waits for Telegram carries its user's expiry. *)

Carried ==
  /\ confirm = [u \in Users |-> confirm[u]]
  /\ press # Access!Idle =>
       /\ press.user \in Users
       /\ press.expires = confirm[press.user]

LEMMA CarriedInit == Access!Init => Carried
BY DEF Access!Init, Carried

LEMMA CarriedStep == Carried /\ [Access!Next]_accessVars => Carried'
<1>. SUFFICES ASSUME Carried, [Access!Next]_accessVars PROVE Carried'
  OBVIOUS
<1>1. CASE UNCHANGED <<press, confirm>>
  BY <1>1 DEF Carried
<1>2. CASE press' = Access!Idle /\ UNCHANGED confirm
  BY <1>2 DEF Carried
<1>3. CASE Access!Ask
  BY <1>3 DEF Carried, Access!Ask
<1>4. ASSUME NEW u \in Users, NEW what, Access!Press(u, what) PROVE Carried'
  BY <1>4 DEF Carried, Access!Press
<1>. QED
  BY <1>1, <1>2, <1>3, <1>4 DEF Access!Next, Access!Tick, Access!AnswerFails, Access!Perform,
     Access!CreateCode, Access!RevokeCode, Access!RevokeBinding, Access!SetRange, Access!Bind,
     Access!Unbind, Access!Checkin, Access!buttons, accessVars

\* A task is changed from a button only for a user who is an administrator at
\* that moment, within the time its own confirmation allows, although both were
\* tested before the wait for Telegram (_handle_callback, _perform_action).
THEOREM ButtonsActAsAdmin == Spec => ActsAsAdmin
<1>1. Init => Access!Init
  BY DEF Init
<1>2. [Next]_<<focus, accessVars, commandVars, menuVars, adminVars, logVars, eventVars,
               libraryVars>> => [Access!Next]_accessVars
  BY DEF Next, AccessSteps, CommandSteps, MenuSteps, AdminSteps, LogSteps, EventSteps, LibrarySteps
<1>3. Carried /\ [Access!Next]_accessVars =>
        [acted' # acted => /\ Access!Role(press.user) = "admin"
                           /\ now <= confirm[press.user]]_(Access!vars)
  <2>. SUFFICES ASSUME Carried, Access!Next, acted' # acted
                PROVE  Access!Role(press.user) = "admin" /\ now <= confirm[press.user]
    BY DEF accessVars, Access!vars
  <2>1. Access!Perform
    BY DEF Access!Next, Access!Tick, Access!AnswerFails, Access!Ask, Access!CreateCode,
       Access!RevokeCode, Access!RevokeBinding, Access!SetRange, Access!Bind, Access!Unbind,
       Access!Checkin, Access!Press, Access!buttons
  <2>2. press # Access!Idle
    BY <2>1 DEF Access!Perform, Access!Idle
  <2>. QED
    BY <2>1, <2>2 DEF Access!Perform, Carried
<1>. QED
  BY <1>1, <1>2, <1>3, CarriedInit, CarriedStep, PTL
    DEF Spec, ActsAsAdmin, Access!ActsAsAdmin

-----------------------------------------------------------------------------
(* Commands: what an edit makes of a row. *)

CommandRow ==
  [revision : Nat, enabled : BOOLEAN, visible : BOOLEAN, kind : Commands!Kinds,
   config : Commands!Configs, confirmed : {"no", "a", "b"}, write : Nat, born : Nat]

RowsTyped == row \in [Defaults \cup Customs -> CommandRow] /\ writes \in Nat

\* The source of row r is confirmed, if it has to be.
Confirmed(r) ==
  /\ r.confirmed # "no" => r.kind = "python" /\ r.confirmed = r.config
  /\ r.enabled /\ r.kind # "javascript" =>
       r.config \in {"a", "b"} /\ (r.kind = "python" => r.confirmed = r.config)

LEMMA CurrentTyped ==
  ASSUME RowsTyped, NEW c \in Defaults \cup Customs
  PROVE  Commands!Current(c) \in CommandRow
<1>1. Commands!Default \in CommandRow
  BY DEF Commands!Default, Commands!NoRow, CommandRow, Commands!Kinds, Commands!Configs
<1>. QED
  BY <1>1 DEF RowsTyped, Commands!Current

\* _transform counts the revision up, keeps the row's origin and leaves no
\* confirmation of another source.
LEMMA Transformed ==
  ASSUME RowsTyped, NEW c \in Defaults \cup Customs, NEW change \in Commands!Changes,
         NEW create \in BOOLEAN, NEW new \in Commands!Transform(c, change, create)
  PROVE  /\ new \in CommandRow
         /\ new.revision = Commands!Current(c).revision + 1 /\ new.write = writes + 1
         /\ new.born = IF create THEN writes + 1 ELSE Commands!Current(c).born
         /\ c \in Customs => (create <=> ~ Commands!Stored(c))
         /\ c \in Customs /\ Confirmed(row[c]) => Confirmed(new)
<1>. PICK cur : cur = Commands!Current(c)
  OBVIOUS
<1>. PICK kind : kind = Commands!Pick(change.kind, cur.kind)
  OBVIOUS
<1>. PICK config :
       config = Commands!Pick(change.config, IF cur.config = "corrupt" THEN "empty" ELSE cur.config)
  OBVIOUS
<1>. PICK approved : approved = Commands!Confirmation(c, change, kind, config)
  OBVIOUS
<1>1. /\ cur \in CommandRow /\ writes + 1 \in Nat
      /\ (c \in Customs => cur = row[c])
  BY CurrentTyped DEF RowsTyped, Commands!Current
<1>2. /\ kind \in Commands!Kinds /\ config \in Commands!Configs
      /\ change.confirm \in BOOLEAN
      /\ change.kind # "keep" => kind = change.kind
      /\ change.kind = "keep" => kind = cur.kind
      /\ change.config = "keep" => config = cur.config \/ (cur.config = "corrupt" /\ config = "empty")
  BY <1>1 DEF Commands!Pick, Commands!Keep, Commands!Changes, CommandRow, Commands!Kinds,
     Commands!Configs
<1>3. PICK enabled \in BOOLEAN, preserve \in BOOLEAN :
        /\ new = [cur EXCEPT !.revision = @ + 1, !.enabled = enabled, !.visible = create \/ @,
                             !.kind = kind, !.config = IF preserve THEN @ ELSE config,
                             !.confirmed = approved, !.write = writes + 1,
                             !.born = IF create THEN writes + 1 ELSE @]
        /\ c \in Customs => (create <=> ~ Commands!Stored(c))
        /\ preserve => ~ enabled /\ change.kind = "keep" /\ change.config = "keep"
        /\ change.confirm => kind = "python" /\ Commands!CodeHash(config) # "none"
        /\ c \in Customs /\ enabled => Commands!Ready(kind, config, approved, TRUE)
  <2>1. PICK changed \in BOOLEAN :
          changed = (kind = "python" /\ (cur.kind # kind \/
                       Commands!CodeHash(cur.config) # Commands!CodeHash(config)))
    OBVIOUS
  <2>2. PICK enabled \in BOOLEAN :
          enabled = IF change.enabled = "keep" THEN ~ changed /\ cur.enabled
                    ELSE change.enabled = "yes"
    BY <1>1 DEF CommandRow
  <2>3. PICK preserve \in BOOLEAN :
          preserve = (~ create /\ c \in Customs /\ ~ enabled /\ change.kind = "keep"
                        /\ change.config = "keep")
    OBVIOUS
  <2>. WITNESS enabled \in BOOLEAN, preserve \in BOOLEAN
  <2>. QED
    BY <2>1, <2>2, <2>3 DEF Commands!Transform, Commands!Keep
<1>4. approved \in {"no", "a", "b"}
  BY <1>1, <1>2, <1>3 DEF Commands!Confirmation, Commands!CodeHash, CommandRow, RowsTyped
<1>5. /\ new \in CommandRow
      /\ new.enabled = enabled /\ new.kind = kind /\ new.confirmed = approved
      /\ new.config = IF preserve THEN cur.config ELSE config
  <2>1. PICK visible \in BOOLEAN : visible = (create \/ cur.visible)
    BY <1>1 DEF CommandRow
  <2>2. PICK stored \in Commands!Configs : stored = IF preserve THEN cur.config ELSE config
    BY <1>1, <1>2 DEF CommandRow
  <2>3. PICK born \in Nat : born = IF create THEN writes + 1 ELSE cur.born
    BY <1>1 DEF CommandRow
  <2>4. PICK number \in Nat, write \in Nat : number = cur.revision + 1 /\ write = writes + 1
    BY <1>1 DEF CommandRow
  <2>. DEFINE written == [cur EXCEPT !.revision = number, !.enabled = enabled,
                                     !.visible = visible, !.kind = kind, !.config = stored,
                                     !.confirmed = approved, !.write = write, !.born = born]
  <2>5. new = written
    BY <1>1, <1>3, <2>1, <2>2, <2>3, <2>4 DEF CommandRow
  <2>6. cur \in CommandRow /\ approved \in {"no", "a", "b"} /\ kind \in Commands!Kinds
    BY <1>1, <1>2, <1>4
  <2>7. /\ written \in CommandRow
        /\ written.enabled = enabled /\ written.kind = kind /\ written.confirmed = approved
        /\ written.config = stored
    BY ONLY <2>6 DEF CommandRow
  <2>. HIDE DEF written
  <2>. QED
    BY <2>2, <2>5, <2>7
<1>6. ASSUME c \in Customs, Confirmed(row[c]) PROVE Confirmed(new)
  <2>1. Confirmed(cur) /\ cur.confirmed \in {"no", "a", "b"}
    BY <1>1, <1>6 DEF CommandRow
  <2>2. ASSUME approved # "no" PROVE kind = "python" /\ approved = new.config
    <3>1. kind = "python"
      BY <2>2 DEF Commands!Confirmation
    <3>2. CASE change.confirm
      BY <1>2, <1>3, <1>5, <2>2, <3>1, <3>2 DEF Commands!Confirmation, Commands!CodeHash
    <3>3. CASE ~ change.confirm
      BY <1>1, <1>6, <1>5, <2>1, <2>2, <3>1, <3>3
        DEF Commands!Confirmation, Commands!CodeHash, Confirmed
    <3>. QED
      BY <3>1, <3>2, <3>3
  <2>3. ASSUME enabled
        PROVE  /\ new.config \in {"a", "b"}
               /\ kind = "python" => approved = new.config
    BY <1>3, <1>5, <1>6, <2>3 DEF Commands!Ready, Commands!Normal, Commands!CodeHash
  <2>. QED
    BY <1>5, <2>2, <2>3 DEF Confirmed
<1>. QED
  BY <1>1, <1>3, <1>5, <1>6 DEF CommandRow

-----------------------------------------------------------------------------
(* Commands: the rows, and the pages on the administrators' screens. *)

\* Row r was saved after the page p was loaded, or is what the page shows.
Follows(r, p) == r.revision >= p.revision /\ (r.revision = p.revision => r.write = p.write)

\* Stored custom rows have origins of their own, and a page shows a row that
\* the rows of its origin follow: a page of a command made anew has another.
Lineage ==
  /\ \A c \in Defaults \cup Customs : row[c].born <= writes
  /\ \A c, d \in Customs :
       Commands!Stored(c) /\ Commands!Stored(d) /\ row[c].born = row[d].born => c = d

Page(c, r) ==
  /\ r \in CommandRow /\ r.born <= writes
  /\ c \in Defaults => Follows(Commands!Current(c), r)
  /\ c \in Customs =>
       \A d \in Customs : Commands!Stored(d) /\ row[d].born = r.born => Follows(row[d], r)

Pages ==
  /\ loaded = [e \in Administrators |-> loaded[e]]
  /\ \A e \in Administrators :
       loaded[e] # <<>> =>
         \E c \in Defaults \cup Customs, r \in CommandRow : loaded[e] = <<c, r>> /\ Page(c, r)

Rows == RowsTyped /\ (\A c \in Customs : Confirmed(row[c])) /\ Lineage

\* What the steps do to the rows: nothing, an edit of c that is saved under the
\* name d, a deletion, or a write of the default commands alone.
Edits(c, d) ==
  /\ c \in Customs => d \in Customs /\ Commands!Stored(c) /\ (d # c => ~ Commands!Stored(d))
  /\ c \in Defaults => d = c
  /\ writes' = writes + 1
  /\ \E new \in CommandRow :
       /\ row' = [row EXCEPT ![c] = Commands!NoRow, ![d] = new]
       /\ new.revision = Commands!Current(c).revision + 1 /\ new.write = writes + 1
       /\ new.born = Commands!Current(c).born
       /\ c \in Customs => Confirmed(new)

Creates(c) ==
  /\ c \in Customs /\ ~ Commands!Stored(c) /\ writes' = writes + 1
  /\ \E new \in CommandRow :
       /\ row' = [row EXCEPT ![c] = new]
       /\ new.revision = 1 + row[c].revision /\ new.born = writes + 1 /\ Confirmed(new)

WritesDefaults ==
  /\ writes' = writes + 1
  /\ row' \in [Defaults \cup Customs -> CommandRow]
  /\ \A c \in Customs : row'[c] = row[c]
  /\ \A c \in Defaults :
       \/ row'[c] = row[c]
       \/ /\ row'[c].revision = Commands!Current(c).revision + 1
          /\ row'[c].born = Commands!Current(c).born

RowStep ==
  \/ UNCHANGED <<row, writes>>
  \/ \E c, d \in Defaults \cup Customs : Edits(c, d)
  \/ \E c \in Customs : Creates(c)
  \/ \E c \in Customs : row' = [row EXCEPT ![c] = Commands!NoRow] /\ UNCHANGED writes
  \/ WritesDefaults

LEMMA PatchStep ==
  ASSUME Rows, NEW e, NEW target \in Defaults \cup Customs, Commands!Patch(e, target),
         NEW c \in Defaults \cup Customs, c = loaded[e][1]
  PROVE  Edits(c, target)
<1>0. RowsTyped /\ Defaults \cap Customs = {} /\ \A d \in Customs : Confirmed(row[d])
  BY InterfacesAssumption DEF Rows, Commands!BotCommandsAssumption
<1>a. PICK change \in Commands!Changes :
        \E new \in Commands!Transform(c, change, FALSE) :
          /\ row' = [row EXCEPT ![c] = Commands!NoRow, ![target] = new] /\ writes' = writes + 1
          /\ target # c => c \in Customs /\ target \in Customs /\ ~ Commands!Stored(target)
  BY DEF Commands!Patch, Commands!Save
<1>1. PICK new \in Commands!Transform(c, change, FALSE) :
        /\ row' = [row EXCEPT ![c] = Commands!NoRow, ![target] = new] /\ writes' = writes + 1
        /\ target # c => c \in Customs /\ target \in Customs /\ ~ Commands!Stored(target)
  BY <1>a
<1>2. /\ new \in CommandRow
      /\ new.revision = Commands!Current(c).revision + 1 /\ new.write = writes + 1
      /\ new.born = Commands!Current(c).born
      /\ c \in Customs => Commands!Stored(c)
      /\ c \in Customs => Confirmed(new)
  <2>1. PICK create \in BOOLEAN : ~ create /\ new \in Commands!Transform(c, change, create)
    BY <1>1
  <2>. QED
    BY <1>0, <2>1, Transformed
<1>. QED
  BY <1>0, <1>1, <1>2 DEF Edits

LEMMA CreateStep ==
  ASSUME Rows, NEW c \in Customs, Commands!Create(c)
  PROVE  Creates(c)
<1>0. RowsTyped /\ \A d \in Customs : Confirmed(row[d])
  BY DEF Rows
<1>a. PICK change \in Commands!Changes :
        \E new \in Commands!Transform(c, change, TRUE) :
          row' = [row EXCEPT ![c] = new] /\ writes' = writes + 1
  BY DEF Commands!Create, Commands!Save
<1>1. PICK new \in Commands!Transform(c, change, TRUE) :
        row' = [row EXCEPT ![c] = new] /\ writes' = writes + 1
  BY <1>a
<1>2. /\ new \in CommandRow /\ Commands!Current(c) = row[c]
      /\ new.revision = Commands!Current(c).revision + 1 /\ new.born = writes + 1
      /\ ~ Commands!Stored(c) /\ Confirmed(new)
  BY <1>0, <1>1, Transformed DEF Commands!Current
<1>3. row[c].revision \in Nat
  BY <1>0 DEF RowsTyped, CommandRow
<1>4. new.revision = 1 + row[c].revision
  BY <1>2, <1>3
<1>. QED
  BY <1>1, <1>2, <1>4 DEF Creates

LEMMA DefaultsStep ==
  ASSUME Rows, Commands!Reorder \/ Commands!Pulled
  PROVE  WritesDefaults
<1>0. RowsTyped /\ Defaults \cap Customs = {}
  BY InterfacesAssumption DEF Rows, Commands!BotCommandsAssumption
<1>a. Commands!Default \in CommandRow /\ Commands!Default.revision = 0 /\ Commands!Default.born = 0
  BY DEF Commands!Default, Commands!NoRow, CommandRow, Commands!Kinds, Commands!Configs
<1>1. CASE Commands!Reorder
  <2>0. PICK w \in Nat : w = writes + 1
    BY <1>0 DEF RowsTyped
  <2>. DEFINE first == [Commands!Default EXCEPT !.revision = 1, !.write = w]
  <2>2. first \in CommandRow /\ first.revision = 1 /\ first.born = 0
    BY ONLY <1>a DEF CommandRow
  <2>3. /\ row' = [c \in Defaults \cup Customs |->
                     IF c \in Defaults /\ ~ Commands!Stored(c) THEN first ELSE row[c]]
        /\ writes' = writes + 1
    BY <1>1, <2>0 DEF Commands!Reorder, Commands!Save, Commands!Names
  <2>4. \A c \in Defaults : ~ Commands!Stored(c) => Commands!Current(c) = Commands!Default
    BY <1>0 DEF Commands!Current
  <2>. HIDE DEF first
  <2>. QED
    BY <1>0, <1>a, <2>2, <2>3, <2>4 DEF WritesDefaults, RowsTyped
<1>2. CASE Commands!Pulled
  <2>1. PICK w \in Nat : w = writes + 1
    BY <1>0 DEF RowsTyped
  <2>. DEFINE next(c) == [Commands!Current(c) EXCEPT !.revision = @ + 1, !.write = w,
                                                     !.visible = c \in pulled.menu]
  <2>2. ASSUME NEW c \in Defaults
        PROVE  /\ next(c) \in CommandRow
               /\ next(c).revision = Commands!Current(c).revision + 1
               /\ next(c).born = Commands!Current(c).born
    <3>0. PICK cur \in CommandRow : cur = Commands!Current(c)
      BY <1>0, CurrentTyped
    <3>1. PICK number \in Nat : number = cur.revision + 1
      BY DEF CommandRow
    <3>. DEFINE Rewritten(shown) ==
                  [cur EXCEPT !.revision = number, !.write = w, !.visible = shown]
    <3>2. CASE c \in pulled.menu
      <4>1. (c \in pulled.menu) = TRUE
        BY <3>2
      <4>2. next(c) = Rewritten(TRUE)
        BY <3>0, <3>1, <4>1
      <4>3. Rewritten(TRUE) \in CommandRow /\ Rewritten(TRUE).born = cur.born
            /\ Rewritten(TRUE).revision = number
        BY ONLY DEF CommandRow
      <4>. QED
        BY <3>0, <3>1, <4>2, <4>3
    <3>3. CASE c \notin pulled.menu
      <4>1. (c \in pulled.menu) = FALSE
        BY <3>3
      <4>2. next(c) = Rewritten(FALSE)
        BY <3>0, <3>1, <4>1
      <4>3. Rewritten(FALSE) \in CommandRow /\ Rewritten(FALSE).born = cur.born
            /\ Rewritten(FALSE).revision = number
        BY ONLY DEF CommandRow
      <4>. QED
        BY <3>0, <3>1, <4>2, <4>3
    <3>. QED
      BY <3>2, <3>3
  <2>3. /\ row' = [c \in Defaults \cup Customs |-> IF c \in Customs THEN row[c] ELSE next(c)]
        /\ writes' = writes + 1
    BY <1>2, <2>1 DEF Commands!Pulled, Commands!Save, Commands!Names
  <2>. HIDE DEF next
  <2>. QED
    BY <1>0, <2>2, <2>3 DEF WritesDefaults, RowsTyped
<1>. QED
  BY <1>1, <1>2

\* What a step makes of each row.
LEMMA NoRowTyped == Commands!NoRow \in CommandRow /\ Commands!NoRow.born = 0 /\ Confirmed(Commands!NoRow)
BY DEF Commands!NoRow, CommandRow, Confirmed, Commands!Kinds, Commands!Configs

LEMMA RowsStep == Rows /\ RowStep => Rows'
<1>. SUFFICES ASSUME Rows, RowStep PROVE Rows'
  OBVIOUS
<1>0. /\ RowsTyped /\ Defaults \cap Customs = {} /\ Lineage
      /\ \A c \in Customs : Confirmed(row[c])
      /\ \A c \in Defaults \cup Customs : row[c] \in CommandRow /\ row[c].born \in Nat
      /\ writes \in Nat /\ writes + 1 \in Nat
  BY InterfacesAssumption DEF Rows, RowsTyped, CommandRow, Commands!BotCommandsAssumption
<1>1. CASE UNCHANGED <<row, writes>>
  BY <1>0, <1>1 DEF Rows, RowsTyped, Lineage, Commands!Stored, Confirmed
<1>2. ASSUME NEW c \in Defaults \cup Customs, NEW d \in Defaults \cup Customs, Edits(c, d)
      PROVE  Rows'
  <2>1. PICK new \in CommandRow :
          /\ row' = [row EXCEPT ![c] = Commands!NoRow, ![d] = new]
          /\ new.born = Commands!Current(c).born
          /\ c \in Customs => Confirmed(new)
    BY <1>2 DEF Edits
  <2>2. /\ \A x \in Defaults \cup Customs :
             row'[x] = IF x = d THEN new ELSE IF x = c THEN Commands!NoRow ELSE row[x]
        /\ row' \in [Defaults \cup Customs -> CommandRow] /\ writes' = writes + 1
    BY <1>0, <1>2, <2>1, NoRowTyped DEF RowsTyped, Edits
  <2>3. /\ c \in Customs => d \in Customs /\ Commands!Stored(c) /\ new.born = row[c].born
        /\ c \in Defaults => d = c
        /\ new.born <= writes
    BY <1>0, <1>2, <2>1 DEF Edits, Commands!Current, Lineage, Commands!Default, Commands!NoRow
  <2>4. \A x \in Customs : Confirmed(row'[x])
    BY <1>0, <2>1, <2>2, <2>3, NoRowTyped
  <2>5. \A x \in Defaults \cup Customs : row'[x].born <= writes'
    <3>1. new.born <= writes + 1 /\ Commands!NoRow.born <= writes + 1
      BY <1>0, <2>3, NoRowTyped DEF CommandRow
    <3>2. \A x \in Defaults \cup Customs : row[x].born <= writes + 1
      BY <1>0 DEF Lineage
    <3>. QED
      BY <2>2, <3>1, <3>2
  <2>6. ASSUME NEW x \in Customs, NEW y \in Customs, row'[x].revision > 0, row'[y].revision > 0,
               row'[x].born = row'[y].born
        PROVE  x = y
    <3>1. Commands!NoRow.revision = 0
      BY DEF Commands!NoRow
    <3>. QED
      BY <1>0, <2>2, <2>3, <2>6, <3>1 DEF Lineage, Commands!Stored
  <2>. QED
    BY <1>0, <2>2, <2>4, <2>5, <2>6 DEF Rows, RowsTyped, Lineage, Commands!Stored, Confirmed
<1>3. ASSUME NEW c \in Customs, Creates(c) PROVE Rows'
  <2>1. PICK new \in CommandRow :
          row' = [row EXCEPT ![c] = new] /\ new.born = writes + 1 /\ Confirmed(new)
    BY <1>3 DEF Creates
  <2>2. /\ \A x \in Defaults \cup Customs : row'[x] = IF x = c THEN new ELSE row[x]
        /\ row' \in [Defaults \cup Customs -> CommandRow] /\ writes' = writes + 1
    BY <1>0, <1>3, <2>1 DEF RowsTyped, Creates
  <2>3. \A x \in Customs : Confirmed(row'[x])
    BY <1>0, <2>1, <2>2
  <2>4. \A x \in Defaults \cup Customs : row'[x].born <= writes'
    BY <1>0, <2>1, <2>2 DEF Lineage
  <2>5. ASSUME NEW x \in Customs, NEW y \in Customs, row'[x].revision > 0, row'[y].revision > 0,
               row'[x].born = row'[y].born
        PROVE  x = y
    BY <1>0, <2>1, <2>2, <2>5 DEF Lineage, Commands!Stored
  <2>. QED
    BY <1>0, <2>2, <2>3, <2>4, <2>5 DEF Rows, RowsTyped, Lineage, Commands!Stored, Confirmed
<1>4. ASSUME NEW c \in Customs, row' = [row EXCEPT ![c] = Commands!NoRow], UNCHANGED writes
      PROVE  Rows'
  <2>2. /\ \A x \in Defaults \cup Customs : row'[x] = IF x = c THEN Commands!NoRow ELSE row[x]
        /\ row' \in [Defaults \cup Customs -> CommandRow]
    BY <1>0, <1>4, NoRowTyped DEF RowsTyped
  <2>3. \A x \in Customs : Confirmed(row'[x])
    BY <1>0, <2>2, NoRowTyped
  <2>4. \A x \in Defaults \cup Customs : row'[x].born <= writes'
    BY <1>0, <1>4, <2>2, NoRowTyped DEF Lineage
  <2>5. ASSUME NEW x \in Customs, NEW y \in Customs, row'[x].revision > 0, row'[y].revision > 0,
               row'[x].born = row'[y].born
        PROVE  x = y
    <3>1. Commands!NoRow.revision = 0
      BY DEF Commands!NoRow
    <3>. QED
      BY <1>0, <2>2, <2>5, <3>1 DEF Lineage, Commands!Stored
  <2>. QED
    BY <1>0, <1>4, <2>2, <2>3, <2>4, <2>5
      DEF Rows, RowsTyped, Lineage, Commands!Stored, Confirmed
<1>5. CASE WritesDefaults
  <2>1. /\ row' \in [Defaults \cup Customs -> CommandRow] /\ writes' = writes + 1
        /\ \A c \in Customs : row'[c] = row[c]
    BY <1>5 DEF WritesDefaults
  <2>2. ASSUME NEW c \in Defaults PROVE row'[c].born <= writes'
    BY <1>0, <1>5 DEF WritesDefaults, Commands!Current, Commands!Default, Commands!NoRow, Lineage
  <2>3. \A x \in Defaults \cup Customs : row'[x].born <= writes'
    BY <1>0, <2>1, <2>2 DEF Lineage
  <2>. QED
    BY <1>0, <2>1, <2>3 DEF Rows, RowsTyped, Lineage, Commands!Stored, Confirmed
<1>. QED
  BY <1>1, <1>2, <1>3, <1>4, <1>5 DEF RowStep

\* A page stays one that the rows of its origin follow.
LEMMA PageStep ==
  ASSUME Rows, RowStep, NEW c \in Defaults \cup Customs, NEW r \in CommandRow, Page(c, r)
  PROVE  Page(c, r)'
<1>0. /\ RowsTyped /\ Defaults \cap Customs = {} /\ Lineage
      /\ \A x \in Defaults \cup Customs : row[x] \in CommandRow /\ row[x].revision \in Nat
      /\ writes \in Nat /\ writes + 1 \in Nat
      /\ r.revision \in Nat /\ r.born \in Nat /\ r.born <= writes
  BY InterfacesAssumption DEF Rows, RowsTyped, CommandRow, Commands!BotCommandsAssumption, Page
<1>1. writes' \in Nat /\ r.born <= writes'
  BY <1>0 DEF RowStep, Edits, Creates, WritesDefaults
<1>2. ASSUME c \in Defaults PROVE Follows(Commands!Current(c), r)'
  <2>1. Follows(Commands!Current(c), r) /\ Commands!Current(c).revision \in Nat
    BY <1>0, <1>2, CurrentTyped DEF Page, CommandRow
  <2>2. CASE row'[c] = row[c]
    BY <2>1, <2>2 DEF Commands!Current, Commands!Stored, Follows
  <2>3. CASE row'[c].revision = Commands!Current(c).revision + 1
    <3>1. row'[c].revision > 0
      BY <2>1, <2>3
    <3>2. Commands!Current(c)' = row'[c]
      BY <3>1 DEF Commands!Current, Commands!Stored
    <3>3. r.revision <= Commands!Current(c).revision
      BY <2>1 DEF Follows
    <3>. QED
      BY <1>0, <2>1, <2>3, <3>2, <3>3 DEF Follows
  <2>4. ASSUME NEW x \in Defaults \cup Customs, NEW y \in Defaults \cup Customs, Edits(x, y)
        PROVE  row'[c] = row[c] \/ row'[c].revision = Commands!Current(c).revision + 1
    BY <1>0, <1>2, <2>4 DEF Edits, RowsTyped
  <2>5. ASSUME NEW x \in Customs, Creates(x) \/ row' = [row EXCEPT ![x] = Commands!NoRow]
        PROVE  row'[c] = row[c]
    BY <1>0, <1>2, <2>5 DEF Creates, RowsTyped
  <2>6. CASE WritesDefaults
    BY <1>2, <2>2, <2>3, <2>6 DEF WritesDefaults
  <2>. QED
    BY <2>2, <2>3, <2>4, <2>5, <2>6 DEF RowStep
<1>3. ASSUME c \in Customs, NEW d \in Customs, row'[d].revision > 0, row'[d].born = r.born
      PROVE  Follows(row'[d], r)
  <2>1. ASSUME NEW x \in Customs, Commands!Stored(x), row[x].born = r.born
        PROVE  Follows(row[x], r)
    BY <1>3, <2>1 DEF Page
  <2>2. CASE row'[d] = row[d]
    BY <1>3, <2>1, <2>2 DEF Commands!Stored
  <2>3. ASSUME NEW x \in Defaults \cup Customs, NEW y \in Defaults \cup Customs, Edits(x, y)
        PROVE  Follows(row'[d], r)
    <3>1. PICK new \in CommandRow :
            /\ row' = [row EXCEPT ![x] = Commands!NoRow, ![y] = new]
            /\ new.revision = Commands!Current(x).revision + 1
            /\ new.born = Commands!Current(x).born
      BY <2>3 DEF Edits
    <3>2. row'[d] = IF d = y THEN new ELSE IF d = x THEN Commands!NoRow ELSE row[d]
      BY <1>0, <3>1 DEF RowsTyped
    <3>3. CASE d = y
      <4>1. x \in Customs /\ Commands!Stored(x) /\ Commands!Current(x) = row[x]
        BY <1>0, <2>3, <3>3 DEF Edits, Commands!Current
      <4>2. row[x].born = r.born /\ row'[d].revision = row[x].revision + 1
        BY <1>3, <3>1, <3>2, <3>3, <4>1
      <4>. QED
        BY <1>0, <2>1, <4>1, <4>2 DEF Follows
    <3>4. Commands!NoRow.revision = 0
      BY DEF Commands!NoRow
    <3>. QED
      BY <1>3, <2>2, <3>2, <3>3, <3>4
  <2>4. ASSUME NEW x \in Customs, Creates(x) PROVE Follows(row'[d], r)
    <3>1. PICK new \in CommandRow : row' = [row EXCEPT ![x] = new] /\ new.born = writes + 1
      BY <2>4 DEF Creates
    <3>2. row'[d] = IF d = x THEN new ELSE row[d]
      BY <1>0, <3>1 DEF RowsTyped
    <3>. QED
      BY <1>0, <1>3, <2>2, <3>1, <3>2
  <2>5. ASSUME NEW x \in Customs, row' = [row EXCEPT ![x] = Commands!NoRow]
        PROVE  Follows(row'[d], r)
    <3>1. row'[d] = IF d = x THEN Commands!NoRow ELSE row[d]
      BY <1>0, <2>5 DEF RowsTyped
    <3>2. Commands!NoRow.revision = 0
      BY DEF Commands!NoRow
    <3>. QED
      BY <1>3, <2>2, <3>1, <3>2
  <2>. QED
    BY <2>2, <2>3, <2>4, <2>5 DEF RowStep, WritesDefaults
<1>. QED
  BY <1>1, <1>2, <1>3 DEF Page, Commands!Stored

\* One step of the commands: what it does to the rows and to the screens.
LEMMA CommandStep ==
  ASSUME Rows, Pages, [Commands!Next]_commandVars
  PROVE  /\ RowStep
         /\ \/ UNCHANGED loaded
            \/ \E e \in Administrators : loaded' = [loaded EXCEPT ![e] = <<>>]
            \/ /\ UNCHANGED row
               /\ \E e \in Administrators, c \in Defaults \cup Customs :
                    /\ c \in Defaults \/ Commands!Stored(c)
                    /\ loaded' = [loaded EXCEPT ![e] = <<c, Commands!Current(c)>>]
<1>1. CASE UNCHANGED <<row, loaded, writes>>
  BY <1>1 DEF RowStep
<1>2. ASSUME NEW e \in Administrators, NEW c \in Defaults \cup Customs, Commands!Load(e, c)
      PROVE  /\ RowStep /\ UNCHANGED row /\ (c \in Defaults \/ Commands!Stored(c))
             /\ loaded' = [loaded EXCEPT ![e] = <<c, Commands!Current(c)>>]
  BY <1>2 DEF Commands!Load, RowStep
<1>3. ASSUME NEW e \in Administrators, NEW c \in Defaults \cup Customs, Commands!Patch(e, c)
      PROVE  RowStep /\ loaded' = [loaded EXCEPT ![e] = <<>>]
  <2>1. loaded[e] # <<>> /\ loaded' = [loaded EXCEPT ![e] = <<>>]
    BY <1>3 DEF Commands!Patch
  <2>2. PICK x \in Defaults \cup Customs, r \in CommandRow : loaded[e] = <<x, r>>
    BY <2>1 DEF Pages
  <2>3. Edits(x, c)
    BY <1>3, <2>2, PatchStep
  <2>. QED
    BY <2>1, <2>3 DEF RowStep
<1>4. ASSUME NEW c \in Customs, Commands!Create(c) PROVE RowStep /\ UNCHANGED loaded
  BY <1>4, CreateStep DEF Commands!Create, RowStep
<1>5. ASSUME NEW c \in Customs, Commands!Delete(c) PROVE RowStep /\ UNCHANGED loaded
  BY <1>5 DEF Commands!Delete, RowStep
<1>6. CASE Commands!Reorder \/ Commands!Pulled
  BY <1>6, DefaultsStep DEF Commands!Reorder, Commands!Pulled, RowStep
<1>7. CASE Commands!Pull
  BY <1>1, <1>7 DEF Commands!Pull
<1>8. ASSUME NEW r \in Idlers,
             Commands!Refresh(r) \/ Commands!SetScope(r) \/ Commands!ScopeFails(r)
      PROVE  UNCHANGED <<row, loaded, writes>>
  BY <1>8 DEF Commands!Refresh, Commands!SetScope, Commands!ScopeFails
<1>. QED
  BY <1>1, <1>2, <1>3, <1>4, <1>5, <1>6, <1>7, <1>8 DEF Commands!Next, Commands!Names, commandVars

LEMMA PagesStep == Rows /\ Pages /\ [Commands!Next]_commandVars => Pages'
<1>. SUFFICES ASSUME Rows, Pages, [Commands!Next]_commandVars PROVE Pages'
  OBVIOUS
<1>0. RowStep
  BY CommandStep
<1>1. ASSUME NEW e \in Administrators, loaded[e] # <<>>
      PROVE  \E c \in Defaults \cup Customs, r \in CommandRow :
               loaded[e] = <<c, r>> /\ Page(c, r)'
  BY <1>0, <1>1, PageStep DEF Pages
<1>2. loaded = [e \in Administrators |-> loaded[e]]
  BY DEF Pages
<1>3. CASE UNCHANGED loaded
  BY <1>1, <1>2, <1>3 DEF Pages
<1>4. ASSUME NEW e \in Administrators, loaded' = [loaded EXCEPT ![e] = <<>>] PROVE Pages'
  <2>1. \A f \in Administrators : loaded'[f] = IF f = e THEN <<>> ELSE loaded[f]
    BY <1>2, <1>4
  <2>2. loaded' = [f \in Administrators |-> loaded'[f]]
    BY <1>2, <1>4
  <2>. QED
    BY <1>1, <2>1, <2>2 DEF Pages
<1>5. ASSUME NEW e \in Administrators, NEW c \in Defaults \cup Customs, UNCHANGED row,
             c \in Defaults \/ Commands!Stored(c),
             loaded' = [loaded EXCEPT ![e] = <<c, Commands!Current(c)>>]
      PROVE  Pages'
  <2>0. RowsTyped /\ Defaults \cap Customs = {} /\ Lineage
    BY InterfacesAssumption DEF Rows, Commands!BotCommandsAssumption
  <2>1. PICK r \in CommandRow : r = Commands!Current(c)
    BY <2>0, CurrentTyped
  <2>2. r.born <= writes
    BY <2>0, <2>1 DEF RowsTyped, Lineage, Commands!Current, Commands!Default, Commands!NoRow
  <2>3. \A d \in Customs : c \in Customs /\ Commands!Stored(d) /\ row[d].born = r.born => row[d] = r
    BY <1>5, <2>0, <2>1 DEF Lineage, Commands!Current
  <2>4. Page(c, r)
    BY <2>0, <2>1, <2>2, <2>3 DEF Page, Follows, CommandRow
  <2>5. Page(c, r)'
    BY <1>0, <2>4, PageStep
  <2>6. \A f \in Administrators : loaded'[f] = IF f = e THEN <<c, r>> ELSE loaded[f]
    BY <1>2, <1>5, <2>1
  <2>7. loaded' = [f \in Administrators |-> loaded'[f]]
    BY <1>2, <1>5
  <2>. QED
    BY <1>1, <2>5, <2>6, <2>7 DEF Pages
<1>. QED
  BY <1>3, <1>4, <1>5, CommandStep

LEMMA CommandsInit == Commands!Init => Rows /\ Pages
<1>. SUFFICES ASSUME Commands!Init PROVE Rows /\ Pages
  OBVIOUS
<1>1. Pages
  BY DEF Commands!Init, Pages
<1>2. ASSUME row = [c \in Defaults \cup Customs |-> Commands!NoRow] PROVE Rows
  BY <1>2, NoRowTyped DEF Commands!Init, Rows, RowsTyped, Lineage, Commands!Stored,
     Commands!NoRow
<1>3. ASSUME NEW d \in Customs, NEW r,
             r = [Commands!Default EXCEPT !.revision = 1, !.kind = "javascript",
                                          !.config = "corrupt"],
             row = [c \in Defaults \cup Customs |-> IF c = d THEN r ELSE Commands!NoRow]
      PROVE  Rows
  <2>1. r \in CommandRow /\ r.born = 0 /\ Confirmed(r)
    BY <1>3 DEF Commands!Default, Commands!NoRow, CommandRow, Confirmed, Commands!Kinds,
       Commands!Configs
  <2>2. Commands!NoRow.revision = 0
    BY DEF Commands!NoRow
  <2>. QED
    BY <1>3, <2>1, <2>2, NoRowTyped DEF Commands!Init, Rows, RowsTyped, Lineage, Commands!Stored
<1>. QED
  BY <1>1, <1>2, <1>3 DEF Commands!Init, Commands!Names

\* An edit of a command that names the revision it expects is saved only onto
\* the row its editor had on the screen, whatever edits, renames, deletions,
\* pulls and reorderings came between (patch_command_config); an edit of a
\* message group replaces the revision its editor had read (update_group).
THEOREM EditsAreNeverLost == Spec => EditsKeepOthers
<1>1. Init => Rows /\ Pages /\ Library!EditsKeepOthers
  BY CommandsInit DEF Init, Library!LibraryInit, Library!Init, Library!EditsKeepOthers
<1>2. [Next]_<<focus, accessVars, commandVars, menuVars, adminVars, logVars, eventVars,
               libraryVars>>
      => [Commands!Next]_commandVars /\ [Library!Next]_libraryVars
  BY DEF Next, AccessSteps, CommandSteps, MenuSteps, AdminSteps, LogSteps, EventSteps, LibrarySteps
<1>3. Rows /\ Pages /\ [Commands!Next]_commandVars => Rows' /\ Pages'
  BY CommandStep, RowsStep, PagesStep
<1>4. Library!EditsKeepOthers /\ [Library!Next]_libraryVars => Library!EditsKeepOthers'
  <2>. SUFFICES ASSUME Library!EditsKeepOthers, [Library!Next]_libraryVars
                PROVE  Library!EditsKeepOthers'
    OBVIOUS
  <2>1. ASSUME NEW e \in Editors, Library!Write(e) PROVE Library!EditsKeepOthers'
    BY <2>1 DEF Library!Write, Library!Written, Library!EditsKeepOthers
  <2>2. CASE UNCHANGED group
    BY <2>2 DEF Library!EditsKeepOthers
  <2>. QED
    BY <2>1, <2>2 DEF Library!Next, Library!Read, Library!Change, Library!CheckDrafts,
       Library!CheckVersions, Library!SaveDraft, Library!Publish, libraryVars
<1>5. Rows /\ Pages /\ [Commands!Next]_commandVars =>
        [\A e \in Administrators :
           loaded[e] # <<>> /\ loaded'[e] = <<>> =>
             LET c == loaded[e][1]
             IN \/ Commands!Current(c).write = loaded[e][2].write
                \/ Commands!Current(c).born # loaded[e][2].born]_(Commands!vars)
  <2>. SUFFICES ASSUME Rows, Pages, Commands!Next,
                       NEW e \in Administrators, loaded[e] # <<>>, loaded'[e] = <<>>
                PROVE  \/ Commands!Current(loaded[e][1]).write = loaded[e][2].write
                       \/ Commands!Current(loaded[e][1]).born # loaded[e][2].born
    BY DEF commandVars, Commands!vars
  <2>1. PICK c \in Defaults \cup Customs, r \in CommandRow : loaded[e] = <<c, r>> /\ Page(c, r)
    BY DEF Pages
  <2>2. PICK f \in Administrators, d \in Defaults \cup Customs :
          Commands!Load(f, d) \/ Commands!Patch(f, d)
    BY DEF Commands!Next, Commands!Create, Commands!Delete, Commands!Reorder, Commands!Pulled,
       Commands!Pull, Commands!Refresh, Commands!SetScope, Commands!ScopeFails, Commands!Names
  <2>3. Commands!Patch(e, d)
    <3>1. loaded = [g \in Administrators |-> loaded[g]]
      BY DEF Pages
    <3>2. ASSUME Commands!Load(f, d) PROVE FALSE
      <4>1. loaded' = [loaded EXCEPT ![f] = <<d, Commands!Current(d)>>]
        BY <3>2 DEF Commands!Load
      <4>2. loaded'[e] = IF e = f THEN <<d, Commands!Current(d)>> ELSE loaded[e]
        BY <3>1, <4>1
      <4>. QED
        BY <4>2
    <3>3. ASSUME Commands!Patch(f, d) PROVE f = e
      <4>1. loaded' = [loaded EXCEPT ![f] = <<>>]
        BY <3>3 DEF Commands!Patch
      <4>. QED
        BY <3>1, <4>1
    <3>. QED
      BY <2>2, <3>2, <3>3
  <2>4. Commands!Current(c).revision = r.revision
    BY <2>1, <2>3 DEF Commands!Patch
  <2>5. CASE c \in Defaults
    BY <2>1, <2>4, <2>5 DEF Page, Follows
  <2>6. CASE c \in Customs
    <3>1. Edits(c, d)
      BY <2>1, <2>3, PatchStep
    <3>2. Commands!Stored(c) /\ Commands!Current(c) = row[c]
      BY <2>6, <3>1 DEF Edits, Commands!Current
    <3>. QED
      BY <2>1, <2>4, <2>6, <3>2 DEF Page, Follows
  <2>. QED
    BY <2>1, <2>5, <2>6
<1>. QED
  BY <1>1, <1>2, <1>3, <1>4, <1>5, PTL
    DEF Spec, EditsKeepOthers, Commands!EditsKeepOthers

-----------------------------------------------------------------------------
(* Menus: a refresh that runs alone. *)

Scopes == {"default", "private"}
Names == Listed \cup Unlisted
RefreshState ==
  [stage : {"idle", "default", "private", "done"}, menu : SUBSET Names, alone : BOOLEAN]

RefreshesTyped ==
  /\ menus = [s \in Scopes |-> menus[s]]
  /\ refreshing \in [Refreshers -> RefreshState]

\* While r runs alone, and until another one starts, nobody else sets a scope;
\* so the scopes it has been through show its menu.
Solitary(r) ==
  refreshing[r].alone /\ refreshing[r].stage # "idle" =>
    /\ \A q \in Refreshers \ {r} : ~ Menus!Busy(q)
    /\ refreshing[r].stage \in {"private", "done"} => menus["default"] = refreshing[r].menu
    /\ refreshing[r].stage = "done" => menus["private"] = refreshing[r].menu

Replaced == RefreshesTyped /\ \A r \in Refreshers : Solitary(r)

LEMMA QuietTyped == Menus!Quiet \in RefreshState /\ Menus!Quiet.stage = "idle"
BY DEF Menus!Quiet, RefreshState

LEMMA MenusInit == Menus!Init => Replaced
<1>. SUFFICES ASSUME Menus!Init PROVE Replaced
  OBVIOUS
<1>1. menus \in [default : {{}}, private : {{}}]
  BY DEF Menus!Init
<1>2. menus \in [Scopes -> {{}}]
  BY <1>1 DEF Scopes
<1>. QED
  BY <1>2, QuietTyped DEF Menus!Init, Replaced, RefreshesTyped, Solitary

LEMMA RefreshStep ==
  ASSUME Replaced, NEW r \in Refreshers, Menus!Refresh(r)
  PROVE  Replaced'
<1>1. ~ Menus!Busy(r) /\ UNCHANGED menus
  BY DEF Menus!Refresh
<1>2. PICK shown \in SUBSET Names, single \in BOOLEAN :
        /\ single = \A p \in Refreshers : ~ Menus!Busy(p)
        /\ refreshing' = [q \in Refreshers |->
              IF q = r THEN [stage |-> "default", menu |-> shown, alone |-> single]
              ELSE IF Menus!Busy(q) THEN [refreshing[q] EXCEPT !.alone = FALSE]
              ELSE Menus!Quiet]
  <2>1. PICK available \in BOOLEAN :
          refreshing' = [q \in Refreshers |->
              IF q = r THEN [stage |-> "default", menu |-> Menus!Visible(available),
                             alone |-> \A p \in Refreshers : ~ Menus!Busy(p)]
              ELSE IF Menus!Busy(q) THEN [refreshing[q] EXCEPT !.alone = FALSE]
              ELSE Menus!Quiet]
    BY DEF Menus!Refresh
  <2>2. Menus!Visible(available) \in SUBSET Names
    BY DEF Menus!Visible, Menus!Names, Names
  <2>. QED
    BY <2>1, <2>2
<1>3. ASSUME NEW q \in Refreshers
      PROVE  /\ refreshing'[q] \in RefreshState
             /\ refreshing'[q].stage \in {"idle", "default", "private"}
             /\ q = r => refreshing'[q].stage = "default" /\ refreshing'[q].alone = single
             /\ q # r => refreshing'[q].stage = "idle" \/ ~ refreshing'[q].alone
             /\ q # r => (Menus!Busy(q)' => Menus!Busy(q))
  <2>1. CASE q = r
    BY <1>2, <2>1 DEF RefreshState
  <2>2. CASE q # r /\ Menus!Busy(q)
    <3>1. PICK was \in RefreshState : was = refreshing[q]
      BY DEF Replaced, RefreshesTyped
    <3>2. refreshing'[q] = [was EXCEPT !.alone = FALSE]
      BY <1>2, <2>2, <3>1
    <3>3. was.stage \in {"default", "private"}
      BY <2>2, <3>1 DEF Menus!Busy
    <3>. QED
      BY <2>2, <3>2, <3>3 DEF RefreshState
  <2>3. CASE q # r /\ ~ Menus!Busy(q)
    BY <1>2, <2>3, QuietTyped DEF Menus!Busy
  <2>. QED
    BY <2>1, <2>2, <2>3
<1>4. RefreshesTyped'
  BY <1>1, <1>2, <1>3 DEF Replaced, RefreshesTyped
<1>5. ASSUME NEW q \in Refreshers PROVE Solitary(q)'
  <2>1. CASE q = r
    BY <1>2, <1>3, <2>1 DEF Solitary
  <2>2. CASE q # r
    BY <1>3, <2>2 DEF Solitary
  <2>. QED
    BY <2>1, <2>2
<1>. QED
  BY <1>4, <1>5 DEF Replaced

LEMMA ScopeStep ==
  ASSUME Replaced, NEW r \in Refreshers, Menus!SetScope(r)
  PROVE  Replaced'
<1>1. PICK was \in RefreshState : was = refreshing[r] /\ was.stage \in Scopes
  BY DEF Menus!SetScope, Menus!Busy, Replaced, RefreshesTyped, Scopes
<1>2. /\ menus' = [menus EXCEPT ![was.stage] = was.menu]
      /\ menus = [s \in Scopes |-> menus[s]]
  BY <1>1 DEF Menus!SetScope, Replaced, RefreshesTyped
<1>3. /\ menus' = [s \in Scopes |-> menus'[s]]
      /\ \A s \in Scopes : menus'[s] = IF s = was.stage THEN was.menu ELSE menus[s]
  BY <1>1, <1>2
<1>4. PICK next \in {"private", "done"} : next = IF was.stage = "default" THEN "private" ELSE "done"
  OBVIOUS
<1>5. refreshing' = [refreshing EXCEPT ![r] = [was EXCEPT !.stage = next]]
  BY <1>1, <1>4 DEF Menus!SetScope, Replaced, RefreshesTyped
<1>6. /\ [was EXCEPT !.stage = next] \in RefreshState
      /\ [was EXCEPT !.stage = next].stage = next
      /\ [was EXCEPT !.stage = next].menu = was.menu
      /\ [was EXCEPT !.stage = next].alone = was.alone
  BY DEF RefreshState
<1>7. /\ \A q \in Refreshers \ {r} : refreshing'[q] = refreshing[q]
      /\ refreshing'[r].stage = next /\ refreshing'[r].menu = was.menu
      /\ refreshing'[r].alone = was.alone
      /\ refreshing' \in [Refreshers -> RefreshState]
  BY <1>5, <1>6 DEF Replaced, RefreshesTyped
<1>8. Menus!Busy(r)
  BY DEF Menus!SetScope
<1>9. Solitary(r)'
  <2>. SUFFICES ASSUME was.alone PROVE Solitary(r)'
    BY <1>7 DEF Solitary
  <2>1. /\ \A q \in Refreshers \ {r} : ~ Menus!Busy(q)
        /\ was.stage = "private" => menus["default"] = was.menu
    BY <1>1 DEF Replaced, Solitary, Scopes
  <2>2. \A q \in Refreshers \ {r} : ~ Menus!Busy(q)'
    BY <1>7, <2>1 DEF Menus!Busy
  <2>3. menus'["default"] = was.menu /\ (next = "done" => menus'["private"] = was.menu)
    BY <1>1, <1>3, <1>4, <2>1 DEF Scopes
  <2>. QED
    BY <1>7, <2>2, <2>3 DEF Solitary
<1>10. ASSUME NEW q \in Refreshers \ {r} PROVE Solitary(q)'
  BY <1>7, <1>8 DEF Replaced, Solitary
<1>. QED
  BY <1>3, <1>7, <1>9, <1>10 DEF Replaced, RefreshesTyped

LEMMA FailureStep ==
  ASSUME Replaced, NEW r \in Refreshers, Menus!ScopeFails(r)
  PROVE  Replaced'
<1>1. /\ refreshing' \in [Refreshers -> RefreshState] /\ UNCHANGED menus
      /\ \A q \in Refreshers \ {r} : refreshing'[q] = refreshing[q]
      /\ refreshing'[r].stage = "idle"
  BY QuietTyped DEF Menus!ScopeFails, Replaced, RefreshesTyped
<1>2. \A q \in Refreshers : Menus!Busy(q)' => Menus!Busy(q)
  BY <1>1 DEF Menus!Busy
<1>3. ASSUME NEW q \in Refreshers PROVE Solitary(q)'
  <2>1. CASE q = r
    BY <1>1, <2>1 DEF Solitary
  <2>2. CASE q # r
    BY <1>1, <1>2, <2>2 DEF Replaced, Solitary
  <2>. QED
    BY <2>1, <2>2
<1>. QED
  BY <1>1, <1>3 DEF Replaced, RefreshesTyped

LEMMA MenusStep == Replaced /\ [Menus!Next]_menuVars => Replaced'
<1>. SUFFICES ASSUME Replaced, [Menus!Next]_menuVars PROVE Replaced'
  OBVIOUS
<1>1. CASE UNCHANGED <<refreshing, menus>>
  BY <1>1 DEF Replaced, RefreshesTyped, Solitary, Menus!Busy
<1>2. CASE \E r \in Refreshers : Menus!Refresh(r) \/ Menus!SetScope(r) \/ Menus!ScopeFails(r)
  BY <1>2, RefreshStep, ScopeStep, FailureStep
<1>. QED
  BY <1>1, <1>2 DEF Menus!Next, Menus!Load, Menus!Patch, Menus!Create, Menus!Delete,
     Menus!Reorder, Menus!Pull, Menus!Pulled, Menus!remote, menuVars

LEMMA MenuFollows == Replaced => Menus!MenuReplaced
<1>. SUFFICES ASSUME Replaced, NEW r \in Refreshers, refreshing[r].stage = "done",
                     refreshing[r].alone
              PROVE  menus = [default |-> refreshing[r].menu, private |-> refreshing[r].menu]
  BY DEF Menus!MenuReplaced
<1>1. PICK shown : shown = refreshing[r].menu
  OBVIOUS
<1>2. menus["default"] = shown /\ menus["private"] = shown
  BY <1>1 DEF Replaced, Solitary
<1>3. menus = [s \in {"default", "private"} |-> menus[s]]
  BY DEF Replaced, RefreshesTyped, Scopes
<1>4. menus = [default |-> shown, private |-> shown]
  BY ONLY <1>2, <1>3
<1>. QED
  BY <1>1, <1>4

\* A confirmed source is the one that is stored, and an enabled command of a
\* kind that still runs is completely configured and confirmed
\* (BotCommandService._transform); a refresh that ran by itself leaves both of
\* Telegram's scopes with the menu it computed (refresh_commands).
THEOREM CommandsAreHeld == Spec => []CommandsHold
<1>1. Init => Rows /\ Pages /\ Replaced
  BY CommandsInit, MenusInit DEF Init
<1>2. [Next]_<<focus, accessVars, commandVars, menuVars, adminVars, logVars, eventVars,
               libraryVars>>
      => [Commands!Next]_commandVars /\ [Menus!Next]_menuVars
  BY DEF Next, AccessSteps, CommandSteps, MenuSteps, AdminSteps, LogSteps, EventSteps, LibrarySteps
<1>3. Rows /\ Pages /\ [Commands!Next]_commandVars => Rows' /\ Pages'
  BY CommandStep, RowsStep, PagesStep
<1>4. Rows /\ Replaced => CommandsHold
  BY MenuFollows DEF Rows, Confirmed, CommandsHold, Commands!ConfirmedSource
<1>. QED
  BY <1>1, <1>2, <1>3, <1>4, MenusStep, PTL DEF Spec

-----------------------------------------------------------------------------
(* The administrator's login: challenges, their keys, and logouts. *)

Said == [key : Nat, purpose : Admin!Purposes, end : Int]

KeysTyped ==
  /\ clock \in Nat /\ key \in [id : Nat, born : Nat]
  /\ \A k \in DOMAIN old : old[k] \in Nat
  /\ DOMAIN issued \subseteq Challenges /\ used \in [Challenges -> Nat]
  /\ \A n \in DOMAIN issued : issued[n] \in Said

\* Challenge n can still be opened: k is the current key and olds are the
\* former ones, which outlive what they were named in.
Lasting(n, k, olds) ==
  /\ issued[n].end <= clock + NonceTTL
  /\ \/ issued[n].key = k.id
     \/ issued[n].key \in DOMAIN olds /\ olds[issued[n].key] >= issued[n].end

Waiting(n) == n \in DOMAIN issued /\ used[n] = 0 /\ issued[n].end > clock

Challenge(n) ==
  /\ used[n] <= 1
  /\ n \in DOMAIN nonces => n \in DOMAIN issued /\ nonces[n] = issued[n] /\ used[n] = 0
  /\ n \notin DOMAIN issued => used[n] = 0
  /\ Waiting(n) => n \in DOMAIN nonces /\ Lasting(n, key, old)

Vault == KeysTyped /\ \A n \in Challenges : Challenge(n)

LEMMA TimesTyped ==
  /\ NonceTTL \in Nat /\ Grace \in Nat /\ NonceTTL <= Grace
BY InterfacesAssumption DEF Admin!AccessAssumption

LEMMA PrunedNonces ==
  ASSUME NEW k, NEW olds, NEW n
  PROVE  /\ n \in DOMAIN Admin!Pruned(k, olds) <=>
              /\ n \in DOMAIN nonces /\ nonces[n].end > clock
              /\ nonces[n].key = k.id \/ nonces[n].key \in DOMAIN olds
         /\ n \in DOMAIN Admin!Pruned(k, olds) => Admin!Pruned(k, olds)[n] = nonces[n]
BY DEF Admin!Pruned, Admin!Restrict

\* A prune, after a rotation or without one, keeps the keys and the nonces of
\* the challenges that wait.
LEMMA KeysRoll ==
  ASSUME Vault, NEW k, NEW olds,
         \/ k = key /\ olds = Admin!Live(old)
         \/ k = Admin!NextKey /\ olds = Admin!Live(Admin!Retired)
  PROVE  /\ k \in [id : Nat, born : Nat] /\ \A x \in DOMAIN olds : olds[x] \in Nat
         /\ \A n \in Challenges :
              Waiting(n) => n \in DOMAIN Admin!Pruned(k, olds) /\ Lasting(n, k, olds)
<1>0. KeysTyped /\ \A n \in Challenges : Challenge(n)
  BY DEF Vault
<1>1. CASE k = key /\ olds = Admin!Live(old)
  <2>1. /\ DOMAIN olds = {x \in DOMAIN old : old[x] > clock}
        /\ \A x \in DOMAIN olds : olds[x] = old[x]
    BY <1>1 DEF Admin!Live, Admin!Restrict
  <2>2. ASSUME NEW n \in Challenges, Waiting(n)
        PROVE  n \in DOMAIN Admin!Pruned(k, olds) /\ Lasting(n, k, olds)
    <3>1. /\ n \in DOMAIN nonces /\ nonces[n] = issued[n] /\ Lasting(n, key, old)
          /\ issued[n].end > clock /\ issued[n].end \in Int
      BY <1>0, <2>2 DEF Challenge, Waiting, KeysTyped, Said
    <3>2. Lasting(n, k, olds)
      BY <1>0, <1>1, <2>1, <3>1 DEF Lasting, KeysTyped
    <3>. QED
      BY <3>1, <3>2, PrunedNonces DEF Lasting
  <2>. QED
    BY <1>0, <1>1, <2>1, <2>2 DEF KeysTyped
<1>2. CASE k = Admin!NextKey /\ olds = Admin!Live(Admin!Retired)
  <2>1. /\ DOMAIN Admin!Retired = DOMAIN old \cup {key.id}
        /\ \A x \in DOMAIN Admin!Retired :
             Admin!Retired[x] = IF x = key.id THEN clock + Grace ELSE old[x]
    BY DEF Admin!Retired, Admin!Put
  <2>2. /\ DOMAIN olds = {x \in DOMAIN Admin!Retired : Admin!Retired[x] > clock}
        /\ \A x \in DOMAIN olds : olds[x] = Admin!Retired[x]
    BY <1>2 DEF Admin!Live, Admin!Restrict
  <2>3. clock + Grace \in Nat /\ k \in [id : Nat, born : Nat]
    BY <1>0, <1>2, TimesTyped DEF KeysTyped, Admin!NextKey
  <2>4. ASSUME NEW n \in Challenges, Waiting(n)
        PROVE  n \in DOMAIN Admin!Pruned(k, olds) /\ Lasting(n, k, olds)
    <3>1. /\ n \in DOMAIN nonces /\ nonces[n] = issued[n] /\ Lasting(n, key, old)
          /\ issued[n].end > clock /\ issued[n].end \in Int
      BY <1>0, <2>4 DEF Challenge, Waiting, KeysTyped, Said
    <3>2. /\ issued[n].key \in DOMAIN Admin!Retired
          /\ Admin!Retired[issued[n].key] >= issued[n].end
      BY <1>0, <2>1, <3>1, TimesTyped DEF Lasting, KeysTyped
    <3>3. Admin!Retired[issued[n].key] \in Nat
      BY <1>0, <2>1, <2>3, <3>2 DEF KeysTyped
    <3>4. issued[n].key \in DOMAIN olds /\ olds[issued[n].key] >= issued[n].end
      BY <1>0, <2>2, <3>1, <3>2, <3>3 DEF KeysTyped
    <3>. QED
      BY <3>1, <3>4, PrunedNonces DEF Lasting
  <2>5. \A x \in DOMAIN olds : olds[x] \in Nat
    BY <1>0, <2>1, <2>2, <2>3 DEF KeysTyped
  <2>. QED
    BY <2>3, <2>4, <2>5
<1>. QED
  BY <1>1, <1>2

LEMMA RotateStep ==
  ASSUME Vault, NEW forced, Admin!RotateKeys(forced)
  PROVE  Vault'
<1>1. PICK k, olds :
        /\ \/ k = key /\ olds = Admin!Live(old)
           \/ k = Admin!NextKey /\ olds = Admin!Live(Admin!Retired)
        /\ key' = k /\ old' = olds /\ nonces' = Admin!Pruned(k, olds)
        /\ UNCHANGED <<clock, issued, used>>
  BY DEF Admin!RotateKeys, Admin!Rotate
<1>2. /\ k \in [id : Nat, born : Nat] /\ \A x \in DOMAIN olds : olds[x] \in Nat
      /\ \A n \in Challenges :
           Waiting(n) => n \in DOMAIN Admin!Pruned(k, olds) /\ Lasting(n, k, olds)
  BY <1>1, KeysRoll
<1>3. KeysTyped'
  BY <1>1, <1>2 DEF Vault, KeysTyped
<1>4. ASSUME NEW n \in Challenges PROVE Challenge(n)'
  <2>1. Waiting(n)' => Waiting(n)
    BY <1>1 DEF Waiting
  <2>2. Lasting(n, k, olds) => Lasting(n, key, old)'
    BY <1>1 DEF Lasting
  <2>. QED
    BY <1>1, <1>2, <2>1, <2>2, PrunedNonces DEF Vault, Challenge
<1>. QED
  BY <1>3, <1>4 DEF Vault

LEMMA IssueStep ==
  ASSUME Vault, NEW n \in Challenges, NEW purpose \in Admin!Purposes,
         Admin!IssueChallenge(n, purpose)
  PROVE  Vault'
<1>1. PICK k, olds :
        /\ \/ k = key /\ olds = Admin!Live(old)
           \/ k = Admin!NextKey /\ olds = Admin!Live(Admin!Retired)
        /\ key' = k /\ old' = olds
        /\ nonces' = Admin!Put(Admin!Pruned(k, olds), n,
                               [key |-> k.id, purpose |-> purpose, end |-> clock + NonceTTL])
        /\ issued' = Admin!Put(issued, n,
                               [key |-> k.id, purpose |-> purpose, end |-> clock + NonceTTL])
        /\ UNCHANGED <<clock, used>> /\ n \notin DOMAIN issued
  BY DEF Admin!IssueChallenge
<1>2. /\ k \in [id : Nat, born : Nat] /\ \A x \in DOMAIN olds : olds[x] \in Nat
      /\ \A m \in Challenges :
           Waiting(m) => m \in DOMAIN Admin!Pruned(k, olds) /\ Lasting(m, k, olds)
  BY <1>1, KeysRoll
<1>. DEFINE said == [key |-> k.id, purpose |-> purpose, end |-> clock + NonceTTL]
<1>3. /\ said \in Said /\ said.key = k.id /\ said.end = clock + NonceTTL
      /\ clock \in Nat /\ clock + NonceTTL \in Nat
  BY <1>2, TimesTyped DEF Said, Vault, KeysTyped
<1>4. /\ DOMAIN nonces' = DOMAIN Admin!Pruned(k, olds) \cup {n}
      /\ DOMAIN issued' = DOMAIN issued \cup {n}
      /\ nonces'[n] = said /\ issued'[n] = said
      /\ \A m \in DOMAIN Admin!Pruned(k, olds) : m # n => nonces'[m] = Admin!Pruned(k, olds)[m]
      /\ \A m \in DOMAIN issued : issued'[m] = issued[m]
  BY <1>1 DEF Admin!Put
<1>. HIDE DEF said
<1>5. KeysTyped'
  BY <1>1, <1>2, <1>3, <1>4 DEF Vault, KeysTyped
<1>6. Challenge(n)'
  BY <1>1, <1>3, <1>4 DEF Vault, Challenge, Lasting
<1>7. ASSUME NEW m \in Challenges \ {n} PROVE Challenge(m)'
  <2>1. Waiting(m)' => Waiting(m)
    BY <1>1, <1>4 DEF Waiting
  <2>2. Waiting(m) /\ Lasting(m, k, olds) => Lasting(m, key, old)'
    BY <1>1, <1>4 DEF Lasting, Waiting
  <2>. QED
    BY <1>1, <1>2, <1>4, <2>1, <2>2, PrunedNonces DEF Vault, Challenge
<1>. QED
  BY <1>5, <1>6, <1>7 DEF Vault

\* decrypt_payload spends the nonce: a challenge whose nonce is gone does not
\* wait, so none is opened twice.
LEMMA OpenStep ==
  ASSUME Vault, NEW n \in Challenges, Admin!Settled, Admin!Opens(n), UNCHANGED clock
  PROVE  Vault'
<1>1. PICK olds :
        /\ olds = Admin!Live(old) /\ old' = olds /\ UNCHANGED <<key, issued, clock>>
        /\ nonces' = Admin!Without(Admin!Pruned(key, olds), n)
        /\ used' = [used EXCEPT ![n] = IF n \in DOMAIN Admin!Pruned(key, olds) THEN @ + 1 ELSE @]
  BY DEF Admin!Settled, Admin!Opens, Admin!Reaches
<1>2. /\ \A x \in DOMAIN olds : olds[x] \in Nat
      /\ \A m \in Challenges :
           Waiting(m) => m \in DOMAIN Admin!Pruned(key, olds) /\ Lasting(m, key, olds)
  BY <1>1, KeysRoll
<1>3. /\ DOMAIN nonces' = DOMAIN Admin!Pruned(key, olds) \ {n}
      /\ \A m \in DOMAIN nonces' : nonces'[m] = nonces[m]
  BY <1>1, PrunedNonces DEF Admin!Without, Admin!Restrict
<1>4. /\ used' \in [Challenges -> Nat] /\ \A m \in Challenges \ {n} : used'[m] = used[m]
      /\ used'[n] = IF n \in DOMAIN Admin!Pruned(key, olds) THEN used[n] + 1 ELSE used[n]
  BY <1>1 DEF Vault, KeysTyped
<1>5. KeysTyped'
  BY <1>1, <1>2, <1>4 DEF Vault, KeysTyped
<1>6. Challenge(n)'
  BY <1>1, <1>2, <1>3, <1>4, PrunedNonces DEF Vault, Challenge, Waiting
<1>7. ASSUME NEW m \in Challenges \ {n} PROVE Challenge(m)'
  <2>1. Waiting(m)' => Waiting(m)
    BY <1>1, <1>4 DEF Waiting
  <2>2. Lasting(m, key, olds) => Lasting(m, key, old)'
    BY <1>1 DEF Lasting
  <2>. QED
    BY <1>1, <1>2, <1>3, <1>4, <2>1, <2>2, PrunedNonces DEF Vault, Challenge
<1>. QED
  BY <1>5, <1>6, <1>7 DEF Vault

LEMMA RestartStep ==
  ASSUME Vault, Admin!Restart
  PROVE  Vault'
<1>1. /\ key' = Admin!NextKey /\ old' = <<>> /\ nonces' = <<>> /\ UNCHANGED <<clock, used>>
      /\ issued' = [n \in DOMAIN issued |-> [issued[n] EXCEPT !.end = -1]]
  BY DEF Admin!Restart
<1>2. DOMAIN old' = {} /\ DOMAIN nonces' = {} /\ DOMAIN issued' = DOMAIN issued
  BY <1>1
<1>3. ASSUME NEW n \in DOMAIN issued PROVE issued'[n] \in Said /\ issued'[n].end = -1
  <2>1. PICK said \in Said : said = issued[n]
    BY DEF Vault, KeysTyped
  <2>2. [said EXCEPT !.end = -1] \in Said /\ [said EXCEPT !.end = -1].end = -1
    BY DEF Said
  <2>. QED
    BY <1>1, <2>1, <2>2
<1>4. key' \in [id : Nat, born : Nat]
  BY <1>1 DEF Vault, KeysTyped, Admin!NextKey
<1>5. KeysTyped'
  BY <1>1, <1>2, <1>3, <1>4 DEF Vault, KeysTyped
<1>6. ASSUME NEW n \in Challenges PROVE Challenge(n)'
  BY <1>1, <1>2, <1>3 DEF Vault, KeysTyped, Challenge, Waiting
<1>. QED
  BY <1>5, <1>6 DEF Vault

LEMMA VaultStep == Vault /\ [Admin!Next]_adminVars => Vault'
<1>. SUFFICES ASSUME Vault, [Admin!Next]_adminVars PROVE Vault'
  OBVIOUS
<1>1. CASE UNCHANGED <<clock, key, old, nonces, issued, used>>
  BY <1>1 DEF Vault, KeysTyped, Challenge, Waiting, Lasting
<1>2. CASE Admin!Tick
  <2>1. clock' = clock + 1 /\ UNCHANGED <<key, old, nonces, issued, used>>
    BY <1>2 DEF Admin!Tick, Admin!keyVars
  <2>2. KeysTyped'
    BY <2>1 DEF Vault, KeysTyped
  <2>3. ASSUME NEW n \in Challenges PROVE Challenge(n)'
    <3>1. clock \in Nat /\ (n \in DOMAIN issued => issued[n].end \in Int)
      BY DEF Vault, KeysTyped, Said
    <3>. QED
      BY <2>1, <3>1, TimesTyped DEF Vault, Challenge, Waiting, Lasting
  <2>. QED
    BY <2>2, <2>3 DEF Vault
<1>3. ASSUME NEW forced \in BOOLEAN, Admin!RotateKeys(forced) PROVE Vault'
  BY <1>3, RotateStep
<1>4. ASSUME NEW n \in Challenges, NEW purpose \in Admin!Purposes, Admin!IssueChallenge(n, purpose)
      PROVE  Vault'
  BY <1>4, IssueStep
<1>5. ASSUME NEW n \in Challenges, Admin!OpenSecret(n) PROVE Vault'
  BY <1>5, OpenStep DEF Admin!OpenSecret
<1>6. ASSUME NEW n \in Challenges, NEW stamp, NEW good, NEW ok, NEW t,
             Admin!Verify(n, stamp, good, t, ok)
      PROVE  Vault'
  BY <1>6, OpenStep DEF Admin!Verify
<1>7. ASSUME NEW t, NEW ok, Admin!Logout(t, ok) \/ \E csrf \in BOOLEAN : Admin!Authenticate(t, csrf, ok)
      PROVE  Vault'
  BY <1>1, <1>7 DEF Admin!Logout, Admin!Authenticate, Admin!keyVars
<1>. QED
  BY <1>1, <1>2, <1>3, <1>4, <1>5, <1>6, <1>7, RestartStep DEF Admin!Next, adminVars

LEMMA VaultInit == Admin!Init => Vault
BY DEF Admin!Init, Vault, KeysTyped, Challenge, Waiting

LEMMA ChallengesLast == Vault => Admin!ChallengeLasts /\ Admin!OneUsePerChallenge
<1>. SUFFICES ASSUME Vault PROVE Admin!ChallengeLasts /\ Admin!OneUsePerChallenge
  OBVIOUS
<1>1. ASSUME NEW n \in DOMAIN issued, used[n] = 0, issued[n].end > clock
      PROVE  n \in DOMAIN Admin!Pruned(key, Admin!Live(old))
  BY <1>1, KeysRoll DEF Vault, KeysTyped, Waiting
<1>. QED
  BY <1>1 DEF Vault, Challenge, Admin!ChallengeLasts, Admin!OneUsePerChallenge

LEMMA LogoutStep ==
  ASSUME Admin!LogoutIsFinal, [Admin!Next]_adminVars
  PROVE  Admin!LogoutIsFinal'
<1>0. gone \cap (DOMAIN sessions \cup DOMAIN store) = {}
  BY DEF Admin!LogoutIsFinal
<1>1. CASE UNCHANGED <<sessions, store, gone>>
  BY <1>0, <1>1 DEF Admin!LogoutIsFinal
<1>2. \A f, z : z \in DOMAIN Admin!Live(f) => z \in DOMAIN f
  BY DEF Admin!Live, Admin!Restrict
<1>3. \A f, x, y, z : z \in DOMAIN Admin!Put(f, x, y) <=> z \in DOMAIN f \/ z = x
  BY DEF Admin!Put
<1>4. \A ok, z : z \in DOMAIN Admin!PrunedStore(ok) => z \in DOMAIN store
  BY <1>2 DEF Admin!PrunedStore
<1>5. ASSUME NEW t, NEW ok, t \notin gone, Admin!Create(t, ok) PROVE Admin!LogoutIsFinal'
  BY <1>0, <1>2, <1>3, <1>4, <1>5 DEF Admin!Create, Admin!LogoutIsFinal
<1>6. ASSUME NEW n, NEW stamp, NEW good, NEW t, NEW ok, Admin!Verify(n, stamp, good, t, ok)
      PROVE  Admin!LogoutIsFinal'
  BY <1>1, <1>5, <1>6 DEF Admin!Verify, Admin!sessionVars
<1>7. ASSUME NEW t, NEW csrf, NEW ok, Admin!Authenticate(t, csrf, ok) PROVE Admin!LogoutIsFinal'
  <2>1. CASE DOMAIN sessions' \subseteq DOMAIN sessions /\ DOMAIN store' \subseteq DOMAIN store
             /\ UNCHANGED gone
    BY <1>0, <2>1 DEF Admin!LogoutIsFinal
  <2>2. CASE Admin!Known(t, ok)
    <3>1. t \notin gone
      BY <1>0, <1>2, <1>4, <2>2 DEF Admin!Known
    <3>2. /\ \A z \in DOMAIN sessions' : z \in DOMAIN sessions \/ z = t
          /\ \A z \in DOMAIN store' : z \in DOMAIN store \/ z = t
          /\ gone' = gone
      BY <1>2, <1>3, <1>4, <1>7 DEF Admin!Authenticate
    <3>. QED
      BY <1>0, <3>1, <3>2 DEF Admin!LogoutIsFinal
  <2>3. CASE ~ Admin!Known(t, ok)
    BY <1>2, <1>4, <1>7, <2>1, <2>3 DEF Admin!Authenticate
  <2>. QED
    BY <2>2, <2>3
<1>8. ASSUME NEW t, NEW ok, Admin!Logout(t, ok) PROVE Admin!LogoutIsFinal'
  <2>1. \A f, x, z : z \in DOMAIN Admin!Without(f, x) <=> z \in DOMAIN f /\ z # x
    BY DEF Admin!Without, Admin!Restrict
  <2>. QED
    BY <1>0, <1>8, <2>1 DEF Admin!Logout, Admin!Revoke, Admin!LogoutIsFinal
<1>9. CASE Admin!Restart
  <2>1. DOMAIN sessions' = {} /\ UNCHANGED <<store, gone>>
    BY <1>9 DEF Admin!Restart
  <2>. QED
    BY <1>0, <2>1 DEF Admin!LogoutIsFinal
<1>. QED
  BY <1>1, <1>6, <1>7, <1>8, <1>9 DEF Admin!Next, Admin!Tick, Admin!RotateKeys,
     Admin!IssueChallenge, Admin!OpenSecret, Admin!sessionVars, adminVars

-----------------------------------------------------------------------------
(* Users: codes, bindings and points. *)

LEMMA SameCardinality == ASSUME NEW S PROVE Access!Cardinality(S) = Cardinality(S)
BY DEF Access!Cardinality, Cardinality

LEMMA DaysGrow ==
  ASSUME NEW n \in Nat, NEW d \in Nat \ {0}
  PROVE  n \div d \in Nat /\ n \div d <= (n + 1) \div d
OBVIOUS

LEMMA MoreAwards ==
  ASSUME NEW m \in Nat, NEW k \in Nat, NEW t \in Nat, NEW n \in 1 .. m,
         k <= t, t <= m * k
  PROVE  k + 1 <= t + n /\ t + n <= m * (k + 1)
OBVIOUS

LEMMA BotSettings == CodeTTL \in Nat /\ Day \in Nat \ {0} /\ MaxPoints \in Nat \ {0} /\ MaxNow \in Nat
BY InterfacesAssumption DEF Access!BotAccessAssumption

CodeRow ==
  [state : {"absent", "open", "used", "revoked"}, role : {"user", "admin"}, expires : Int]
BindingRow == [user : Users, code : Codes, role : {"user", "admin"}, active : BOOLEAN]

BindingsTyped == now \in Nat /\ code \in [Codes -> CodeRow] /\ binding \in Seq(BindingRow)
Bindings == BindingsTyped /\ Access!CodesBindOnce

LEMMA CodesStep ==
  ASSUME Bindings, UNCHANGED <<now, binding>>, NEW c \in Codes, NEW new \in CodeRow,
         code[c].state # "used", code' = [code EXCEPT ![c] = new]
  PROVE  Bindings'
<1>1. \A i \in DOMAIN binding : binding[i].code \in Codes
  <2>1. \A i \in DOMAIN binding : binding[i] \in BindingRow
    BY DEF Bindings, BindingsTyped
  <2>. QED
    BY <2>1 DEF BindingRow
<1>2. \A d \in Codes : code[d].state = "used" => code'[d] = code[d]
  BY DEF Bindings, BindingsTyped
<1>3. Access!CodesBindOnce'
  BY <1>1, <1>2 DEF Bindings, Access!CodesBindOnce
<1>. QED
  BY <1>3 DEF Bindings, BindingsTyped

LEMMA EndBinding ==
  ASSUME Bindings, UNCHANGED <<now, code>>, NEW i \in DOMAIN binding,
         binding' = [binding EXCEPT ![i].active = FALSE]
  PROVE  Bindings'
<1>1. PICK was \in BindingRow : was = binding[i]
  BY DEF Bindings, BindingsTyped
<1>. DEFINE new == [was EXCEPT !.active = FALSE]
<1>2. binding' = [binding EXCEPT ![i] = new]
  BY <1>1
<1>3. /\ new \in BindingRow /\ new.user = was.user /\ new.code = was.code
      /\ new.role = was.role /\ ~ new.active
  BY DEF BindingRow
<1>. HIDE DEF new
<1>4. /\ binding' \in Seq(BindingRow) /\ DOMAIN binding' = DOMAIN binding
      /\ \A j \in DOMAIN binding : binding'[j] = IF j = i THEN new ELSE binding[j]
  <2>1. binding \in Seq(BindingRow) /\ new \in BindingRow
    BY <1>3 DEF Bindings, BindingsTyped
  <2>. QED
    BY ONLY <1>2, <2>1
<1>5. Access!CodesBindOnce'
  BY <1>1, <1>3, <1>4 DEF Bindings, Access!CodesBindOnce
<1>. QED
  BY <1>4, <1>5 DEF Bindings, BindingsTyped

\* /bind: the code was open, so no binding has it yet, and it is used by the
\* same transaction that makes sure the user has no other.
LEMMA BindStep ==
  ASSUME Bindings, NEW u \in Users, NEW c \in Codes, Access!Bind(u, c)
  PROVE  Bindings'
<1>. USE DEF Bindings
<1>1. CASE UNCHANGED <<code, binding>>
  BY <1>1 DEF Access!Bind, BindingsTyped, Access!CodesBindOnce
<1>2. CASE /\ ~ Access!Bound(u) /\ code[c].state = "open"
           /\ code' = [code EXCEPT ![c].state = "used"]
           /\ binding' = Append(binding, [user |-> u, code |-> c, role |-> code[c].role,
                                          active |-> TRUE])
  <2>1. PICK open \in CodeRow : open = code[c]
    BY DEF BindingsTyped
  <2>. DEFINE spent == [open EXCEPT !.state = "used"]
  <2>2. spent \in CodeRow /\ spent.state = "used" /\ spent.role = open.role
    BY DEF CodeRow
  <2>3. /\ code' \in [Codes -> CodeRow] /\ code'[c] = spent
        /\ \A d \in Codes \ {c} : code'[d] = code[d]
    BY <1>2, <2>1, <2>2 DEF BindingsTyped
  <2>. DEFINE new == [user |-> u, code |-> c, role |-> open.role, active |-> TRUE]
  <2>4. new \in BindingRow /\ new.user = u /\ new.code = c /\ new.role = open.role
    BY DEF BindingRow, CodeRow
  <2>5. /\ binding' \in Seq(BindingRow) /\ DOMAIN binding' = 1 .. Len(binding) + 1
        /\ \A i \in DOMAIN binding : i # Len(binding) + 1 /\ binding'[i] = binding[i]
        /\ DOMAIN binding = 1 .. Len(binding) /\ Len(binding) \in Nat
        /\ binding'[Len(binding) + 1] = new
    BY <1>2, <2>1, <2>4 DEF BindingsTyped
  <2>. HIDE DEF spent, new
  <2>6. ASSUME NEW i \in DOMAIN binding
        PROVE  /\ binding[i].code \in Codes /\ binding[i].code # c
               /\ binding[i].active => binding[i].user # u
    <3>1. binding[i] \in BindingRow
      BY DEF BindingsTyped
    <3>2. code[binding[i].code].state = "used"
      BY DEF Access!CodesBindOnce
    <3>. QED
      BY <1>2, <3>1, <3>2 DEF BindingRow, Access!Bound, Access!Rows
  <2>7. ASSUME NEW i \in DOMAIN binding', NEW j \in DOMAIN binding', i # j
        PROVE  /\ binding'[i].code # binding'[j].code
               /\ binding'[i].active /\ binding'[j].active => binding'[i].user # binding'[j].user
    <3>1. CASE i \in DOMAIN binding /\ j \in DOMAIN binding
      BY <2>5, <2>7, <3>1 DEF Access!CodesBindOnce
    <3>2. CASE i = Len(binding) + 1 /\ j \in DOMAIN binding
      BY <2>4, <2>5, <2>6, <3>2
    <3>3. CASE i \in DOMAIN binding /\ j = Len(binding) + 1
      BY <2>4, <2>5, <2>6, <3>3
    <3>. QED
      BY <2>5, <2>7, <3>1, <3>2, <3>3
  <2>8. ASSUME NEW i \in DOMAIN binding'
        PROVE  /\ code'[binding'[i].code].state = "used"
               /\ code'[binding'[i].code].role = binding'[i].role
    <3>1. CASE i \in DOMAIN binding
      BY <2>3, <2>5, <2>6, <3>1 DEF Access!CodesBindOnce
    <3>2. CASE i = Len(binding) + 1
      BY <2>2, <2>3, <2>4, <2>5, <3>2
    <3>. QED
      BY <2>5, <3>1, <3>2
  <2>9. Access!CodesBindOnce'
    BY <2>7, <2>8 DEF Access!CodesBindOnce
  <2>. QED
    BY <2>3, <2>5, <2>9 DEF Access!Bind, BindingsTyped
<1>. QED
  BY <1>1, <1>2 DEF Access!Bind, Access!Usable, Access!bindings

LEMMA BindingsStep == Bindings /\ [Access!Next]_accessVars => Bindings'
<1>. SUFFICES ASSUME Bindings, [Access!Next]_accessVars PROVE Bindings'
  OBVIOUS
<1>1. CASE UNCHANGED <<code, binding>> /\ now' \in {now, now + 1}
  BY <1>1 DEF Bindings, BindingsTyped, Access!CodesBindOnce
<1>2. ASSUME NEW c \in Codes, NEW role \in {"user", "admin"},
             NEW life \in {CodeTTL, Access!Never - now}, Access!CreateCode(c, role, now + life)
      PROVE  Bindings'
  <2>1. now + life \in Int
    BY BotSettings DEF Access!Never, Bindings, BindingsTyped
  <2>2. [state |-> "open", role |-> role, expires |-> now + life] \in CodeRow
    BY <2>1 DEF CodeRow
  <2>. QED
    BY <1>2, <2>2, CodesStep DEF Access!CreateCode
<1>3. ASSUME NEW c \in Codes, Access!RevokeCode(c) PROVE Bindings'
  <2>1. PICK open \in CodeRow : open = code[c]
    BY DEF Bindings, BindingsTyped
  <2>2. [open EXCEPT !.state = "revoked"] \in CodeRow
    BY DEF CodeRow
  <2>3. code' = [code EXCEPT ![c] = [open EXCEPT !.state = "revoked"]]
    BY <1>3, <2>1 DEF Access!RevokeCode
  <2>. QED
    BY <1>3, <2>2, <2>3, CodesStep DEF Access!RevokeCode
<1>4. ASSUME NEW i \in DOMAIN binding, Access!RevokeBinding(i) PROVE Bindings'
  BY <1>4, EndBinding DEF Access!RevokeBinding
<1>5. ASSUME NEW u \in Users, Access!Unbind(u) PROVE Bindings'
  <2>1. PICK i \in Access!Rows(u) : binding' = [binding EXCEPT ![i].active = FALSE]
    BY <1>5 DEF Access!Unbind, Access!Bound
  <2>. QED
    BY <1>5, <2>1, EndBinding DEF Access!Unbind, Access!Rows
<1>6. ASSUME NEW u \in Users, NEW c \in Codes, Access!Bind(u, c) PROVE Bindings'
  BY <1>6, BindStep
<1>. QED
  BY <1>1, <1>2, <1>3, <1>4, <1>5, <1>6 DEF Access!Next, Access!Tick, Access!AnswerFails,
     Access!Ask, Access!Perform, Access!SetRange, Access!Checkin, Access!Press, Access!bindings,
     accessVars

LEMMA BindingsInit == Access!Init => Bindings
<1>. SUFFICES ASSUME Access!Init PROVE Bindings
  OBVIOUS
<1>1. Access!NoCode \in CodeRow
  BY DEF Access!NoCode, CodeRow
<1>. QED
  BY <1>1 DEF Access!Init, Bindings, BindingsTyped, Access!CodesBindOnce

Award == [total : Nat, last : Int]

PointsTyped ==
  /\ now \in Nat /\ range \in (1 .. MaxPoints) \X (1 .. MaxPoints)
  /\ point \in [Users -> Award] /\ paid \in [Users -> SUBSET Nat]

\* The points of user u are for the dates in paid[u], the last of them the one
\* its row shows.
Dated(u) ==
  /\ IsFiniteSet(paid[u]) /\ point[u].last <= Access!Today
  /\ \A d \in paid[u] : d <= point[u].last
  /\ Cardinality(paid[u]) <= point[u].total
  /\ point[u].total <= MaxPoints * Cardinality(paid[u])

Points == PointsTyped /\ \A u \in Users : Dated(u)

LEMMA CheckinStep ==
  ASSUME Points, NEW u \in Users, Access!Checkin(u)
  PROVE  Points'
<1>0. UNCHANGED <<now, range>> /\ PointsTyped /\ Dated(u)
  BY DEF Access!Checkin, Points
<1>1. CASE UNCHANGED <<point, paid>>
  BY <1>0, <1>1 DEF Points, PointsTyped, Dated, Access!Today
<1>2. CASE /\ point[u].last # Access!Today /\ paid' = [paid EXCEPT ![u] = @ \cup {Access!Today}]
           /\ \E n \in Access!Least .. Access!Most :
                point' = [point EXCEPT ![u] = [total |-> @.total + n, last |-> Access!Today]]
  <2>1. PICK n \in Access!Least .. Access!Most :
          point' = [point EXCEPT ![u] = [total |-> @.total + n, last |-> Access!Today]]
    BY <1>2
  <2>2. n \in 1 .. MaxPoints
    BY <1>0, <2>1, BotSettings DEF Access!Least, Access!Most, PointsTyped
  <2>3. /\ Access!Today \in Nat /\ Access!Today' = Access!Today
    BY <1>0, DaysGrow, BotSettings DEF Access!Today, PointsTyped
  <2>4. PICK was \in Award : was = point[u]
    BY <1>0 DEF PointsTyped
  <2>5. was.total \in Nat /\ was.last \in Int
    BY <2>4 DEF Award
  <2>. DEFINE new == [total |-> was.total + n, last |-> Access!Today]
  <2>6. new \in Award /\ new.total = was.total + n /\ new.last = Access!Today
    BY <2>2, <2>3, <2>5 DEF Award
  <2>7. /\ point' \in [Users -> Award] /\ point'[u] = new
        /\ \A v \in Users \ {u} : point'[v] = point[v]
        /\ paid' \in [Users -> SUBSET Nat] /\ paid'[u] = paid[u] \cup {Access!Today}
        /\ \A v \in Users \ {u} : paid'[v] = paid[v]
    BY <1>0, <1>2, <2>1, <2>3, <2>4, <2>6 DEF PointsTyped
  <2>. HIDE DEF new
  <2>8. Access!Today \notin paid[u] /\ \A d \in paid[u] : d <= Access!Today
    BY <1>0, <1>2, <2>3, <2>4, <2>5 DEF Dated, PointsTyped
  <2>9. /\ IsFiniteSet(paid'[u]) /\ Cardinality(paid'[u]) = Cardinality(paid[u]) + 1
        /\ Cardinality(paid[u]) \in Nat
    BY <1>0, <2>7, <2>8, FS_AddElement, FS_CardinalityType DEF Dated
  <2>10. /\ Cardinality(paid[u]) + 1 <= was.total + n
         /\ was.total + n <= MaxPoints * (Cardinality(paid[u]) + 1)
    BY <1>0, <2>2, <2>4, <2>5, <2>9, MoreAwards, BotSettings DEF Dated
  <2>11. Dated(u)'
    BY <2>3, <2>6, <2>7, <2>8, <2>9, <2>10 DEF Dated
  <2>12. ASSUME NEW v \in Users \ {u} PROVE Dated(v)'
    BY <2>3, <2>7 DEF Points, Dated
  <2>13. PointsTyped'
    BY <1>0, <2>7 DEF PointsTyped
  <2>. QED
    BY <2>11, <2>12, <2>13 DEF Points
<1>. QED
  BY <1>1, <1>2 DEF Access!Checkin

LEMMA PointsStep == Points /\ [Access!Next]_accessVars => Points'
<1>. SUFFICES ASSUME Points, [Access!Next]_accessVars PROVE Points'
  OBVIOUS
<1>1. CASE UNCHANGED <<now, range, point, paid>>
  BY <1>1 DEF Points, PointsTyped, Dated, Access!Today
<1>2. CASE Access!Tick
  <2>1. now' = now + 1 /\ UNCHANGED <<range, point, paid>>
    BY <1>2 DEF Access!Tick, Access!points
  <2>2. PointsTyped'
    BY <2>1 DEF Points, PointsTyped
  <2>3. Access!Today \in Nat /\ Access!Today' \in Nat /\ Access!Today <= Access!Today'
    BY <2>1, DaysGrow, BotSettings DEF Access!Today, Points, PointsTyped
  <2>4. ASSUME NEW u \in Users PROVE Dated(u)'
    <3>1. point[u].last \in Int
      BY DEF Points, PointsTyped, Award
    <3>. QED
      BY <2>1, <2>3, <3>1 DEF Points, Dated
  <2>. QED
    BY <2>2, <2>4 DEF Points
<1>3. ASSUME NEW lo \in 1 .. MaxPoints, NEW hi \in 1 .. MaxPoints, Access!SetRange(lo, hi)
      PROVE  Points'
  <2>1. range' \in (1 .. MaxPoints) \X (1 .. MaxPoints) /\ UNCHANGED <<now, point, paid>>
    BY <1>3 DEF Access!SetRange, Points, PointsTyped
  <2>. QED
    BY <2>1 DEF Points, PointsTyped, Dated, Access!Today
<1>4. ASSUME NEW u \in Users, Access!Checkin(u) PROVE Points'
  BY <1>4, CheckinStep
<1>. QED
  BY <1>1, <1>2, <1>3, <1>4 DEF Access!Next, Access!AnswerFails, Access!Ask, Access!Perform,
     Access!CreateCode, Access!RevokeCode, Access!RevokeBinding, Access!Bind, Access!Unbind,
     Access!Press, Access!points, accessVars

LEMMA PointsInit == Access!Init => Points
<1>. SUFFICES ASSUME Access!Init PROVE Points
  OBVIOUS
<1>1. now = 0 /\ range = <<1, MaxPoints>> /\ paid = [u \in Users |-> {}]
      /\ point = [u \in Users |-> [total |-> 0, last |-> -1]]
  BY DEF Access!Init
<1>2. PointsTyped
  BY <1>1, BotSettings DEF PointsTyped, Award
<1>3. Access!Today \in Nat
  BY <1>1, DaysGrow, BotSettings DEF Access!Today
<1>. QED
  BY <1>1, <1>2, <1>3, FS_EmptySet, BotSettings DEF Points, Dated

LEMMA PaidByDate == Points => Access!PaidOncePerDay
BY SameCardinality DEF Points, Dated, Access!PaidOncePerDay

\* What is given out for one use is used once and lasts as long as promised: a
\* binding code makes one binding and a user has one (consume_binding_code); a
\* date pays once (daily_checkin); a challenge can be opened until it ends,
\* through every rotation of the keys, and only once (TransportKeyManager); a
\* session whose logout was answered never returns (SessionManager).
THEOREM GrantsAreHeld == Spec => []GrantsHold
<1>1. Init => Bindings /\ Points /\ Vault /\ Admin!LogoutIsFinal
  <2>1. Admin!Init => Admin!LogoutIsFinal
    BY DEF Admin!Init, Admin!LogoutIsFinal
  <2>. QED
    BY <2>1, BindingsInit, PointsInit, VaultInit DEF Init
<1>2. [Next]_<<focus, accessVars, commandVars, menuVars, adminVars, logVars, eventVars,
               libraryVars>>
      => [Access!Next]_accessVars /\ [Admin!Next]_adminVars
  BY DEF Next, AccessSteps, CommandSteps, MenuSteps, AdminSteps, LogSteps, EventSteps, LibrarySteps
<1>3. Admin!LogoutIsFinal /\ [Admin!Next]_adminVars => Admin!LogoutIsFinal'
  BY LogoutStep
<1>4. Bindings /\ Points /\ Vault /\ Admin!LogoutIsFinal => GrantsHold
  BY PaidByDate, ChallengesLast DEF Bindings, GrantsHold
<1>. QED
  BY <1>1, <1>2, <1>3, <1>4, BindingsStep, PointsStep, VaultStep, PTL DEF Spec

-----------------------------------------------------------------------------
(* The streams of task events. *)

Message == [id : Nat, shows : Nat]

\* What was not published yet, a run owes.
Owed ==
  /\ changes \in Nat /\ announced \in Nat /\ announced <= changes
  /\ owes \subseteq Runs /\ (owes = {} => announced = changes)

StreamsTyped ==
  /\ sequence \in Nat
  /\ notice \in [Streams -> Nat] /\ taken \in [Streams -> Nat]
  /\ at = [s \in Streams |-> at[s]] /\ sent \in [Streams -> Message]

\* Ids are in the order they were given out: sent, held, waiting to be taken.
Told(s) ==
  /\ notice[s] <= sequence /\ taken[s] <= sequence /\ sent[s].id <= sequence
  /\ sent[s].shows <= changes
  /\ at[s] # "off" =>
       /\ sent[s].shows >= announced \/ notice[s] # 0 \/ at[s] = "holds"
       /\ at[s] = "holds" => taken[s] > sent[s].id
       /\ notice[s] # 0 => notice[s] > sent[s].id /\ (at[s] = "holds" => notice[s] > taken[s])

Fresh == Owed /\ StreamsTyped /\ \A s \in Streams : Told(s)

LEMMA PublishFresh ==
  ASSUME Fresh, Events!Publish, changes' \in {changes, changes + 1}, owes' \subseteq Runs
  PROVE  Fresh'
<1>0. /\ Owed /\ StreamsTyped
      /\ \A s \in Streams : Told(s) /\ sent[s].id \in Nat /\ sent[s].shows \in Nat
  BY DEF Fresh, StreamsTyped, Message
<1>1. /\ changes' \in Nat /\ changes <= changes' /\ announced' = changes'
      /\ sequence' = sequence + 1 /\ UNCHANGED <<at, taken, sent>>
      /\ notice' = [s \in Streams |-> IF at[s] # "off" THEN sequence + 1 ELSE 0]
  BY <1>0 DEF Events!Publish, Events!Subscribed, StreamsTyped, Owed
<1>2. StreamsTyped'
  BY <1>0, <1>1 DEF StreamsTyped
<1>3. Owed'
  BY <1>1 DEF Owed
<1>4. ASSUME NEW s \in Streams PROVE Told(s)'
  BY <1>0, <1>1 DEF StreamsTyped, Told, Owed
<1>. QED BY <1>2, <1>3, <1>4 DEF Fresh

LEMMA FreshStep == Fresh /\ [Events!Next]_eventVars => Fresh'
<1>. SUFFICES ASSUME Fresh, [Events!Next]_eventVars PROVE Fresh'
  OBVIOUS
<1>0. /\ Owed /\ StreamsTyped
      /\ \A s \in Streams : Told(s) /\ sent[s].id \in Nat /\ sent[s].shows \in Nat
  BY DEF Fresh, StreamsTyped, Message
<1>1. CASE UNCHANGED eventVars
  BY <1>1 DEF Fresh, Owed, StreamsTyped, Told, eventVars
<1>2. CASE Events!Change \/ \E r \in Runs : Events!Report(r)
  <2>1. /\ Events!Publish /\ changes' \in {changes, changes + 1} /\ owes' \subseteq Runs
    BY <1>0, <1>2 DEF Events!Change, Events!Report, Owed
  <2>. QED BY <2>1, PublishFresh
<1>8. ASSUME NEW r \in Runs, Events!ChangeSilently(r) PROVE Fresh'
  <2>1. /\ changes' = changes + 1 /\ owes' = owes \cup {r}
        /\ UNCHANGED <<announced, sequence, notice, at, taken, sent>>
    BY <1>8 DEF Events!ChangeSilently
  <2>2. Owed' /\ StreamsTyped'
    BY <1>0, <2>1 DEF Owed, StreamsTyped
  <2>3. ASSUME NEW s \in Streams PROVE Told(s)'
    BY <1>0, <2>1 DEF StreamsTyped, Told, Owed
  <2>. QED BY <2>2, <2>3 DEF Fresh
<1>3. ASSUME NEW s \in Streams, Events!Open(s) PROVE Fresh'
  <2>. DEFINE new == [id |-> sequence + 1, shows |-> changes]
  <2>1. new \in Message /\ new.id = sequence + 1 /\ new.shows = changes
    BY <1>0 DEF Owed, StreamsTyped, Message
  <2>2. /\ sequence' = sequence + 1 /\ UNCHANGED <<changes, announced, owes, taken>>
        /\ notice' = [notice EXCEPT ![s] = 0] /\ at' = [at EXCEPT ![s] = "sends"]
        /\ sent' = [sent EXCEPT ![s] = new]
    BY <1>3 DEF Events!Open
  <2>. HIDE DEF new
  <2>3. StreamsTyped'
    <3>1. sent' \in [Streams -> Message]
      BY <1>0, <2>1, <2>2 DEF StreamsTyped
    <3>2. at' = [r \in Streams |-> at'[r]]
      BY <1>0, <2>2 DEF StreamsTyped
    <3>3. sequence' \in Nat /\ notice' \in [Streams -> Nat]
          /\ taken' \in [Streams -> Nat]
      BY <1>0, <2>2 DEF StreamsTyped
    <3>. QED
      BY <3>1, <3>2, <3>3 DEF StreamsTyped
  <2>4. ASSUME NEW r \in Streams PROVE Told(r)'
    BY <1>0, <2>1, <2>2 DEF Owed, StreamsTyped, Told
  <2>5. Owed'
    BY <1>0, <2>2 DEF Owed
  <2>. QED
    BY <2>3, <2>4, <2>5 DEF Fresh
<1>4. ASSUME NEW s \in Streams, Events!Sent(s) PROVE Fresh'
  BY <1>0, <1>4 DEF Events!Sent, Fresh, Owed, StreamsTyped, Told
<1>5. ASSUME NEW s \in Streams, Events!Take(s) PROVE Fresh'
  BY <1>0, <1>5 DEF Events!Take, Fresh, Owed, StreamsTyped, Told
<1>6. ASSUME NEW s \in Streams, Events!Snapshot(s) PROVE Fresh'
  <2>. DEFINE new == [id |-> taken[s], shows |-> changes]
  <2>1. new \in Message /\ new.id = taken[s] /\ new.shows = changes
    BY <1>0 DEF Owed, StreamsTyped, Message
  <2>2. /\ UNCHANGED <<changes, announced, owes, sequence, notice, taken>> /\ at[s] = "holds"
        /\ at' = [at EXCEPT ![s] = "sends"] /\ sent' = [sent EXCEPT ![s] = new]
    BY <1>6 DEF Events!Snapshot
  <2>. HIDE DEF new
  <2>3. StreamsTyped'
    BY <1>0, <2>1, <2>2 DEF StreamsTyped
  <2>4. ASSUME NEW r \in Streams PROVE Told(r)'
    BY <1>0, <2>1, <2>2 DEF Owed, StreamsTyped, Told
  <2>5. Owed'
    BY <1>0, <2>2 DEF Owed
  <2>. QED
    BY <2>3, <2>4, <2>5 DEF Fresh
<1>7. ASSUME NEW s \in Streams, Events!Close(s) PROVE Fresh'
  BY <1>0, <1>7 DEF Events!Close, Fresh, Owed, StreamsTyped, Told
<1>. QED
  BY <1>1, <1>2, <1>3, <1>4, <1>5, <1>6, <1>7, <1>8 DEF Events!Next, Events!Stream

LEMMA FreshInit == Events!Init => Fresh
<1>. SUFFICES ASSUME Events!Init PROVE Fresh
  OBVIOUS
<1>1. [id |-> 0, shows |-> 0] \in Message
  BY DEF Message
<1>. QED
  BY <1>1 DEF Events!Init, Fresh, Owed, StreamsTyped, Told

LEMMA FreshMeans == Fresh => Events!FreshOrNotified
<1>. SUFFICES ASSUME Fresh PROVE Events!FreshOrNotified
  OBVIOUS
<1>1. Owed /\ \A s \in Streams : Told(s) /\ sent[s].shows \in Nat
  BY DEF Fresh, StreamsTyped, Message
<1>. QED BY <1>1 DEF Owed, Told, Events!FreshOrNotified, Events!Subscribed

\* A console that shows less of its task than was published has an event to take
\* or holds one, although an id that was not taken gives way to the next: coalescing
\* never hides the last change. Of what was not published yet a run still owes the
\* publication (_publish_task_updated, the event stream).
THEOREM ConsolesAreTold == Spec => []Events!FreshOrNotified
<1>1. Init => Fresh
  BY FreshInit DEF Init
<1>2. [Next]_<<focus, accessVars, commandVars, menuVars, adminVars, logVars, eventVars,
               libraryVars>> => [Events!Next]_eventVars
  BY DEF Next, AccessSteps, CommandSteps, MenuSteps, AdminSteps, LogSteps, EventSteps, LibrarySteps
<1>. QED
  BY <1>1, <1>2, FreshMeans, FreshStep, PTL DEF Spec

-----------------------------------------------------------------------------
(* The stream of the log: a queue that overflows keeps a gap and what came  *)
(* last, so that its content follows from how many lines were published and *)
(* what its stream was sent last.                                           *)

\* f is the queue q after each of n entries behind the first ones.
After(f, q, first, n) ==
  f = [i \in 0 .. n |-> IF i = 0 THEN q ELSE Log!Offered(f[i - 1], first + i)]

\* A set of numbers that is not empty has a least one: what stands in for
\* induction below.
LEMMA LeastNat ==
  ASSUME NEW T, T \subseteq Nat, T # {}
  PROVE  \E n \in T : \A m \in T : n <= m
<1>1. PICK n \in T : \A m \in T : ~ <<m, n>> \in OpToRel(<, Nat)
  BY WFMin, NatLessThanWellFounded
<1>2. \A m \in T : ~ (m < n)
  <2>. TAKE m \in T
  <2>1. <<m, n>> \in Nat \X Nat /\ <<m, n>>[1] = m /\ <<m, n>>[2] = n
    OBVIOUS
  <2>. QED BY <2>1, <1>1 DEF OpToRel
<1>. QED BY <1>2, SMT

\* The recursive function of Delivered exists ...
LEMMA AfterExists ==
  ASSUME NEW q, NEW first \in Nat, NEW n \in Nat
  PROVE  \E f : After(f, q, first, n)
<1>. DEFINE Missing == {m \in Nat : ~ \E f : After(f, q, first, m)}
<1>1. SUFFICES ASSUME Missing # {} PROVE FALSE
  OBVIOUS
<1>2. PICK m \in Missing : \A k \in Missing : m <= k
  BY <1>1, LeastNat
<1>3. CASE m = 0
  <2>. DEFINE f == [i \in 0 .. 0 |-> q]
  <2>1. After(f, q, first, 0)
    BY DEF After
  <2>. QED BY <1>2, <1>3, <2>1
<1>4. CASE m # 0
  <2>1. m \in Nat /\ m - 1 \in Nat /\ m - 1 \notin Missing
    BY <1>2, <1>4, SMT
  <2>2. PICK g : After(g, q, first, m - 1)
    BY <2>1
  <2>. DEFINE f == [i \in 0 .. m |-> IF i = m THEN Log!Offered(g[m - 1], first + m) ELSE g[i]]
  <2>3. \A i \in 0 .. m : f[i] = IF i = 0 THEN q ELSE Log!Offered(f[i - 1], first + i)
    <3>. TAKE i \in 0 .. m
    <3>1. CASE i = m
      <4>1. f[m - 1] = g[m - 1]
        BY <2>1
      <4>. QED BY <4>1, <3>1, <1>4
    <3>2. CASE i # m
      <4>1. i \in 0 .. m - 1 /\ (i # 0 => i - 1 \in 0 .. m /\ i - 1 # m)
        BY <3>2, <2>1
      <4>2. g[i] = IF i = 0 THEN q ELSE Log!Offered(g[i - 1], first + i)
        BY <4>1, <2>2 DEF After
      <4>. QED BY <4>1, <4>2, <3>2
    <3>. QED BY <3>1, <3>2
  <2>. HIDE DEF f
  <2>4. f = [i \in 0 .. m |-> f[i]]
    BY DEF f
  <2>5. After(f, q, first, m)
    BY <2>3, <2>4 DEF After
  <2>. QED BY <1>2, <2>5
<1>. QED BY <1>3, <1>4

\* ... so that Delivered is its last value.
LEMMA DeliveredIs ==
  ASSUME NEW q, NEW first \in Nat, NEW n \in Nat
  PROVE  \E f : After(f, q, first, n) /\ Log!Delivered(q, first, n) = f[n]
<1>. DEFINE g == CHOOSE f : f = [i \in 0 .. n |->
                                   IF i = 0 THEN q ELSE Log!Offered(f[i - 1], first + i)]
<1>1. PICK f : After(f, q, first, n)
  BY AfterExists
<1>2. After(g, q, first, n)
  BY <1>1, Zenon DEF After
<1>3. Log!Delivered(q, first, n) = g[n]
  BY DEF Log!Delivered
<1>. QED BY <1>2, <1>3

Sent == [entry : Nat, gap : BOOLEAN]

\* A subscriber that was sent l last and has queue q when n lines are published:
\* the queue ends with the newest of them, a gap stands only in front, and
\* nothing is left out behind l unless one of the two says so.
Marked(q, l, n) ==
  /\ q \in Seq(Nat) /\ Len(q) <= Capacity /\ l \in Sent /\ l.entry <= n
  /\ \A i \in 1 .. Len(q) : /\ q[i] = 0 => i = 1
                            /\ q[i] # 0 => q[i] = n - Len(q) + i
  /\ Len(q) # 0 /\ q[1] # 0 => l.entry <= n - Len(q) /\ (l.gap \/ l.entry = n - Len(q))
  /\ Len(q) # 0 /\ q[1] = 0 => Len(q) # 1 /\ l.entry <= n + 1 - Len(q)
  /\ Len(q) = 0 => ~ l.gap /\ l.entry = n

\* _poll's put of one entry, into a full queue and into one with room.
LEMMA OfferedMarked ==
  ASSUME NEW q, NEW l, NEW n \in Nat, Marked(q, l, n)
  PROVE  Marked(Log!Offered(q, n + 1), l, n + 1)
<1>0. Capacity \in Nat \ {0, 1}
  BY InterfacesAssumption DEF Log!LogAssumption
<1>1. CASE Len(q) = Capacity
  <2>1. Log!Offered(q, n + 1) = <<0, n + 1>>
    BY <1>1 DEF Log!Offered
  <2>. DEFINE p == <<0, n + 1>>
  <2>2. p \in Seq(Nat) /\ Len(p) = 2 /\ p[1] = 0 /\ p[2] = n + 1
    OBVIOUS
  <2>. HIDE DEF p
  <2>3. Marked(p, l, n + 1)
    BY <1>0, <1>1, <2>2 DEF Marked, Sent
  <2>. QED BY <2>1, <2>3 DEF p
<1>2. CASE Len(q) # Capacity
  <2>1. Log!Offered(q, n + 1) = q \o <<n + 1>>
    BY <1>2 DEF Log!Offered
  <2>. DEFINE p == q \o <<n + 1>>
  <2>2. /\ p \in Seq(Nat) /\ Len(p) = Len(q) + 1 /\ p[Len(q) + 1] = n + 1
        /\ \A i \in 1 .. Len(q) : p[i] = q[i]
    BY DEF Marked
  <2>. HIDE DEF p
  <2>3. Len(q) \in Nat /\ Len(q) < Capacity /\ l.entry \in Nat
    BY <1>0, <1>2 DEF Marked, Sent
  <2>4. Marked(p, l, n + 1)
    <3>1. \A i \in 1 .. Len(p) : /\ p[i] = 0 => i = 1
                                 /\ p[i] # 0 => p[i] = n + 1 - Len(p) + i
      <4>. TAKE i \in 1 .. Len(p)
      <4>1. CASE i = Len(q) + 1
        BY <2>2, <2>3, <4>1
      <4>2. CASE i # Len(q) + 1
        <5>1. i \in 1 .. Len(q) /\ p[i] = q[i] /\ n - Len(q) + i = n + 1 - Len(p) + i
          BY <2>2, <2>3, <4>2
        <5>. QED BY <5>1 DEF Marked
      <4>. QED BY <4>1, <4>2
    <3>2. CASE Len(q) = 0
      BY <1>0, <2>2, <2>3, <3>1, <3>2 DEF Marked
    <3>3. CASE Len(q) # 0
      <4>1. p[1] = q[1]
        BY <2>2, <2>3, <3>3
      <4>2. /\ p[1] # 0 => l.entry <= n + 1 - Len(p) /\ (l.gap \/ l.entry = n + 1 - Len(p))
            /\ p[1] = 0 => l.entry <= n + 1 + 1 - Len(p)
        BY <2>2, <2>3, <3>3, <4>1 DEF Marked
      <4>3. /\ p \in Seq(Nat) /\ Len(p) <= Capacity /\ l \in Sent /\ l.entry <= n + 1
            /\ Len(p) # 0 /\ Len(p) # 1
        BY <1>0, <2>2, <2>3, <3>3 DEF Marked
      <4>. QED BY <3>1, <4>2, <4>3 DEF Marked
    <3>. QED BY <3>2, <3>3
  <2>. QED BY <2>1, <2>4 DEF p
<1>. QED BY <1>1, <1>2

\* All entries of a read: were the queue wrong after some of them, it would be
\* wrong after the first of those, whose predecessor was right.
LEMMA DeliveredMarked ==
  ASSUME NEW q, NEW l, NEW first \in Nat, NEW n \in Nat, Marked(q, l, first)
  PROVE  Marked(Log!Delivered(q, first, n), l, first + n)
<1>1. PICK f : After(f, q, first, n) /\ Log!Delivered(q, first, n) = f[n]
  BY DeliveredIs
<1>2. \A i \in 0 .. n : f[i] = IF i = 0 THEN q ELSE Log!Offered(f[i - 1], first + i)
  BY <1>1 DEF After
<1>. DEFINE Unmarked == {i \in 0 .. n : ~ Marked(f[i], l, first + i)}
<1>3. SUFFICES ASSUME Unmarked # {} PROVE FALSE
  BY <1>1
<1>4. PICK m \in Unmarked : \A k \in Unmarked : m <= k
  <2>1. Unmarked \subseteq Nat
    OBVIOUS
  <2>. HIDE DEF Unmarked
  <2>. QED BY <1>3, <2>1, LeastNat
<1>5. m # 0
  BY <1>2, <1>4
<1>6. m - 1 \in 0 .. n /\ first + (m - 1) \in Nat /\ first + m = first + (m - 1) + 1
  BY <1>4, <1>5
<1>7. Marked(f[m - 1], l, first + (m - 1))
  BY <1>4, <1>6
<1>8. Marked(Log!Offered(f[m - 1], first + (m - 1) + 1), l, first + (m - 1) + 1)
  BY <1>6, <1>7, OfferedMarked
<1>. QED BY <1>2, <1>4, <1>5, <1>6, <1>8

LogFile == {f \in [id : Nat, from : Nat, to : 0 .. MaxLines] : f.from <= f.to}

Reading == [todo : Nat, active : SUBSET Nat, lines : Seq(Int)]

\* The files a read is yet to open are there: rotation never leaves fewer.
LogTyped ==
  /\ files \in Seq(LogFile) /\ Len(files) \in 1 .. Backups + 1
  /\ \A i \in DOMAIN cursors : cursors[i] \in Nat
  /\ poll \in [at : {"off", "sleep", "read"}, stopping : BOOLEAN]
  /\ read \in Reading /\ read.todo <= Len(files)
  /\ poll.at # "read" => read = Log!NoRead
  /\ published \in Seq(Int)
  /\ queue = [s \in Streams |-> queue[s]] /\ last = [s \in Streams |-> last[s]]
  /\ state \in [Streams -> {"out", "in", "leaving"}]

\* Whoever is subscribed has the task, and whoever awaits its end is alone.
Attached(s) ==
  /\ state[s] # "out" => poll.at # "off"
  /\ state[s] = "leaving" => \A t \in Streams \ {s} : state[t] = "out"
  /\ state[s] # "in" => queue[s] = <<>>
  /\ state[s] = "in" => Marked(queue[s], last[s], Len(published))

Streaming == LogTyped /\ \A s \in Streams : Attached(s)

\* The bounds are numbers.
LEMMA LogBounds == {Capacity, Backups, MaxLines, MaxFiles} \subseteq Nat
BY InterfacesAssumption DEF Log!LogAssumption

\* A service that starts has no subscriber.
LEMMA StreamingInit == Log!Init => Streaming
<1>. SUFFICES ASSUME Log!Init PROVE Streaming
  OBVIOUS
<1>1. files \in Seq(LogFile) /\ Len(files) = 1
  <2>1. files = <<[id |-> 1, from |-> 0, to |-> 0]>>
    BY DEF Log!Init
  <2>2. [id |-> 1, from |-> 0, to |-> 0] \in LogFile
    BY LogBounds DEF LogFile
  <2>. QED BY <2>1, <2>2
<1>2. LogTyped
  <2>1. Log!NoRead \in Reading /\ Log!NoRead.todo = 0
    BY DEF Log!NoRead, Reading
  <2>. QED BY <1>1, <2>1, LogBounds DEF Log!Init, LogTyped
<1>. QED BY <1>2 DEF Log!Init, Streaming, Attached

\* What SubSeq keeps of a sequence.
LEMMA Prefix ==
  ASSUME NEW S, NEW q \in Seq(S), NEW n \in 0 .. Len(q)
  PROVE  SubSeq(q, 1, n) \in Seq(S) /\ Len(SubSeq(q, 1, n)) = n
OBVIOUS

\* Writing and rotating keep at least as many files as there were, up to the limit.
LEMMA FilesStep ==
  ASSUME LogTyped, Log!Write \/ Log!Rotate
  PROVE  files' \in Seq(LogFile) /\ Len(files') \in Len(files) .. Backups + 1
<1>1. files[1] \in LogFile /\ Len(files) \in Nat \ {0} /\ Backups \in Nat /\ MaxLines \in Nat
  BY LogBounds DEF LogTyped
<1>2. CASE Log!Write
  <2>. DEFINE f == [files[1] EXCEPT !.to = @ + 1]
  <2>1. files' = [files EXCEPT ![1] = f] /\ f \in LogFile
    BY <1>1, <1>2 DEF Log!Write, LogFile
  <2>. HIDE DEF f
  <2>. QED BY <1>1, <2>1, ExceptSeq DEF LogTyped
<1>3. CASE Log!Rotate
  <2>. DEFINE new == [id |-> files[1].id + 1, from |-> files[1].to, to |-> files[1].to]
              kept == IF Len(files) > Backups THEN Log!Front(files) ELSE files
  <2>1. files' = <<new>> \o kept /\ Backups > 0
    BY <1>3 DEF Log!Rotate, Log!Rotated
  <2>2. new \in LogFile
    BY <1>1 DEF LogFile
  <2>. HIDE DEF new
  <2>3. kept \in Seq(LogFile) /\ Len(kept) \in Len(files) - 1 .. Backups
    <3>1. CASE Len(files) > Backups
      <4>1. kept = SubSeq(files, 1, Len(files) - 1)
        BY <3>1 DEF Log!Front
      <4>2. files \in Seq(LogFile) /\ Len(files) - 1 \in 0 .. Len(files)
        BY <1>1 DEF LogTyped
      <4>. HIDE DEF kept
      <4>3. kept \in Seq(LogFile) /\ Len(kept) = Len(files) - 1
        BY <4>1, <4>2, Prefix
      <4>. QED BY <1>1, <3>1, <4>3 DEF LogTyped
    <3>2. CASE ~ (Len(files) > Backups)
      BY <1>1, <3>2 DEF LogTyped
    <3>. QED BY <3>1, <3>2
  <2>. HIDE DEF kept
  <2>. QED BY <1>1, <2>1, <2>2, <2>3, ConcatProperties
<1>. QED BY <1>2, <1>3

\* The parts of LogTyped that arithmetic needs.
LEMMA ReadingParts ==
  ASSUME LogTyped
  PROVE  /\ Len(files) \in Nat /\ read.todo \in 0 .. Len(files)
         /\ read.active \in SUBSET Nat /\ read.lines \in Seq(Int) /\ published \in Seq(Int)
         /\ Len(read.lines) \in Nat /\ Len(published) \in Nat
<1>1. PICK r \in Reading : r = read
  BY DEF LogTyped
<1>2. r.todo \in Nat /\ r.active \in SUBSET Nat /\ r.lines \in Seq(Int)
  BY DEF Reading
<1>. QED BY <1>1, <1>2 DEF LogTyped

\* The loggers' threads do not touch the queues.
LEMMA WriteStep == Streaming /\ (Log!Write \/ Log!Rotate) => Streaming'
<1>. SUFFICES ASSUME Streaming, Log!Write \/ Log!Rotate PROVE Streaming'
  OBVIOUS
<1>1. LogTyped /\ UNCHANGED <<cursors, poll, read, published, queue, state, last>>
  BY DEF Streaming, Log!Write, Log!Rotate, Log!LoggingOnly
<1>2. LogTyped'
  <2>1. Len(files) \in Nat /\ Backups \in Nat /\ read.todo \in 0 .. Len(files)
    BY <1>1, LogBounds, ReadingParts
  <2>2. Len(files') \in 1 .. Backups + 1 /\ read.todo <= Len(files')
    BY <1>1, <2>1, FilesStep DEF LogTyped
  <2>. QED BY <1>1, <2>2, FilesStep DEF LogTyped
<1>. QED BY <1>1, <1>2 DEF Streaming, Attached

\* The lines a file gained, however many.
LEMMA LinesFound ==
  ASSUME NEW done \in Int, NEW n \in Int
  PROVE  [i \in 1 .. n |-> done + i] \in Seq(Int)
<1>. DEFINE f == [i \in 1 .. n |-> done + i]
<1>1. CASE n \in Nat
  BY <1>1
<1>2. CASE n \notin Nat
  <2>1. 1 .. n = 1 .. 0
    BY <1>2
  <2>. QED BY <2>1
<1>. QED BY <1>1, <1>2

\* A read in its thread finds every path it was to open, whatever rotated.
LEMMA ReadStep == Streaming /\ (Log!ReadBegins \/ Log!ReadFile) => Streaming'
<1>. SUFFICES ASSUME Streaming, Log!ReadBegins \/ Log!ReadFile PROVE Streaming'
  OBVIOUS
<1>1. LogTyped /\ UNCHANGED <<files, published, queue, state, last>>
  BY DEF Streaming, Log!ReadBegins, Log!ReadFile
<1>2. CASE Log!ReadBegins
  <2>0. read' = [todo |-> Len(files), active |-> {}, lines |-> <<>>]
    BY <1>2 DEF Log!ReadBegins, Log!NoRead
  <2>1. read' \in Reading /\ read'.todo = Len(files)
    BY <1>1, <2>0, ReadingParts DEF Reading
  <2>2. poll' \in [at : {"read"}, stopping : BOOLEAN] /\ UNCHANGED cursors
    BY <1>1, <1>2 DEF LogTyped, Log!ReadBegins
  <2>3. LogTyped'
    BY <1>1, <2>1, <2>2, ReadingParts DEF LogTyped
  <2>. QED BY <1>1, <2>2, <2>3 DEF Streaming, Attached
<1>3. CASE Log!ReadFile
  <2>. DEFINE f == files[read.todo]
              done == IF f.id \in DOMAIN cursors THEN cursors[f.id] ELSE f.from
  <2>0. read.todo > 0 /\ poll.at = "read" /\ UNCHANGED poll
    BY <1>3 DEF Log!ReadFile
  <2>1. f \in LogFile /\ read.todo \in 1 .. Len(files)
    BY <1>1, <2>0, ReadingParts DEF LogTyped
  <2>. HIDE DEF f
  <2>2. f.to \in Nat /\ f.id \in Nat /\ done \in Nat
    <3>1. f.to \in Nat /\ f.id \in Nat /\ f.from \in Nat
      BY <2>1, LogBounds DEF LogFile
    <3>. QED BY <1>1, <3>1 DEF LogTyped
  <2>. USE DEF f
  <2>3. \/ read' = [read EXCEPT !.todo = @ - 1] /\ UNCHANGED cursors
        \/ /\ read' = [todo   |-> read.todo - 1, active |-> read.active \cup {f.id},
                       lines  |-> read.lines \o [i \in 1 .. f.to - done |-> done + i]]
           /\ cursors' = [i \in DOMAIN cursors \cup {f.id} |->
                            IF i = f.id THEN f.to ELSE cursors[i]]
    BY <1>3 DEF Log!ReadFile
  <2>4. [i \in 1 .. f.to - done |-> done + i] \in Seq(Int)
    BY <2>2, LinesFound
  <2>. HIDE DEF f, done
  <2>5. read' \in Reading /\ read'.todo <= Len(files)
    <3>. DEFINE found == [i \in 1 .. f.to - done |-> done + i]
    <3>1. /\ read.active \cup {f.id} \in SUBSET Nat /\ read.todo - 1 \in 0 .. Len(files)
          /\ read.lines \o found \in Seq(Int)
      BY <1>1, <2>0, <2>2, <2>4, ReadingParts
    <3>. HIDE DEF found
    <3>2. \/ read' = [todo |-> read.todo - 1, active |-> read.active, lines |-> read.lines]
          \/ read' = [todo |-> read.todo - 1, active |-> read.active \cup {f.id},
                      lines |-> read.lines \o found]
      BY <1>1, <2>3 DEF LogTyped, Reading, found
    <3>3. read.todo - 1 \in Nat /\ read.todo - 1 <= Len(files)
      BY <1>1, <3>1, ReadingParts
    <3>4. [todo |-> read.todo - 1, active |-> read.active, lines |-> read.lines] \in Reading
      BY <1>1, <3>3, ReadingParts DEF Reading
    <3>5. [todo |-> read.todo - 1, active |-> read.active \cup {f.id},
           lines |-> read.lines \o found] \in Reading
      BY <3>1, <3>3 DEF Reading
    <3>6. read'.todo = read.todo - 1
      BY <3>2
    <3>. QED BY <3>2, <3>3, <3>4, <3>5, <3>6
  <2>6. \A i \in DOMAIN cursors' : cursors'[i] \in Nat
    BY <1>1, <2>2, <2>3 DEF LogTyped
  <2>7. LogTyped'
    BY <1>1, <2>0, <2>5, <2>6 DEF LogTyped
  <2>. QED BY <1>1, <2>0, <2>7 DEF Streaming, Attached
<1>. QED BY <1>2, <1>3

\* The entries of a read go to all queues in one step.
LEMMA PublishStep == Streaming /\ Log!ReadEnds => Streaming'
<1>. SUFFICES ASSUME Streaming, Log!ReadEnds PROVE Streaming'
  OBVIOUS
<1>1. LogTyped /\ UNCHANGED <<files, state, last>>
  BY DEF Streaming, Log!ReadEnds
<1>2. /\ published' \in Seq(Int) /\ Len(published') = Len(published) + Len(read.lines)
      /\ Len(published) \in Nat /\ Len(read.lines) \in Nat
  <2>1. published' = published \o read.lines
    BY DEF Log!ReadEnds
  <2>. QED BY <1>1, <2>1, ReadingParts, ConcatProperties
<1>3. queue' = [s \in Streams |->
                  IF state[s] = "in"
                  THEN Log!Delivered(queue[s], Len(published), Len(read.lines)) ELSE queue[s]]
  BY DEF Log!ReadEnds
<1>4. LogTyped'
  <2>1. Log!NoRead \in Reading /\ Log!NoRead.todo = 0
    BY DEF Log!NoRead, Reading
  <2>2. poll' \in [at : {"sleep"}, stopping : BOOLEAN] /\ read' = Log!NoRead
        /\ \A i \in DOMAIN cursors' : cursors'[i] \in Nat
    BY <1>1 DEF LogTyped, Log!ReadEnds
  <2>3. queue' = [s \in Streams |-> queue'[s]]
    BY <1>3
  <2>. QED BY <1>1, <1>2, <2>1, <2>2, <2>3 DEF LogTyped
<1>5. ASSUME NEW s \in Streams PROVE Attached(s)'
  <2>1. Attached(s) /\ poll'.at # "off"
    BY <1>1 DEF Streaming, Log!ReadEnds, LogTyped
  <2>2. CASE state[s] = "in"
    <3>1. queue'[s] = Log!Delivered(queue[s], Len(published), Len(read.lines))
      BY <1>3, <2>2
    <3>2. Marked(queue[s], last[s], Len(published))
      BY <2>1, <2>2 DEF Attached
    <3>3. Marked(queue'[s], last[s], Len(published'))
      BY <1>2, <3>1, <3>2, DeliveredMarked
    <3>. QED BY <1>1, <2>1, <2>2, <3>3 DEF Attached
  <2>3. CASE state[s] # "in"
    BY <1>1, <1>3, <2>1, <2>3 DEF Attached
  <2>. QED BY <2>2, <2>3
<1>. QED BY <1>4, <1>5 DEF Streaming

\* A stream takes the first entry of its queue, a line or a gap.
LEMMA TakenMarked ==
  ASSUME NEW q, NEW l, NEW n \in Nat, Marked(q, l, n), q # <<>>,
         NEW m, m = IF Head(q) = 0 THEN [l EXCEPT !.gap = TRUE]
                    ELSE [entry |-> Head(q), gap |-> FALSE]
  PROVE  Marked(Tail(q), m, n)
<1>. DEFINE r == Tail(q)
            k == Len(q)
<1>1. /\ q \in Seq(Nat) /\ k \in Nat \ {0} /\ k <= Capacity /\ Head(q) = q[1] /\ l \in Sent
      /\ Capacity \in Nat
  BY LogBounds DEF Marked
<1>2. /\ r \in Seq(Nat) /\ Len(r) = k - 1
      /\ \A i \in 1 .. k - 1 : r[i] = q[i + 1]
  BY <1>1
<1>3. /\ \A i \in 2 .. k : q[i] = n - k + i /\ q[i] # 0
      /\ q[1] # 0 => q[1] = n - k + 1 /\ l.entry <= n - k
      /\ q[1] = 0 => k # 1 /\ l.entry <= n + 1 - k
      /\ l.entry <= n
  <2>1. /\ \A j \in 1 .. k : (q[j] = 0 => j = 1) /\ (q[j] # 0 => q[j] = n - k + j)
        /\ k # 0 /\ q[1] # 0 => l.entry <= n - k
        /\ k # 0 /\ q[1] = 0 => k # 1 /\ l.entry <= n + 1 - k
        /\ l.entry <= n
    BY DEF Marked
  <2>. HIDE DEF k
  <2>2. 1 \in 1 .. k /\ k # 0
    BY <1>1
  <2>3. \A i \in 2 .. k : i \in 1 .. k /\ i # 1
    BY <1>1
  <2>. QED BY <2>1, <2>2, <2>3
<1>. HIDE DEF r, k
<1>4. \A i \in 1 .. k - 1 : r[i] = n - (k - 1) + i /\ r[i] # 0
  <2>. TAKE i \in 1 .. k - 1
  <2>1. i + 1 \in 2 .. k /\ n - k + (i + 1) = n - (k - 1) + i
    BY <1>1
  <2>. QED BY <1>2, <1>3, <2>1
<1>5. k # 1 => 1 \in 1 .. k - 1
  BY <1>1
<1>6. l.entry \in Nat
  BY <1>1 DEF Sent
<1>7. ASSUME q[1] = 0 PROVE Marked(r, m, n)
  <2>1. m = [l EXCEPT !.gap = TRUE]
    BY <1>1, <1>7
  <2>2. m \in Sent /\ m.entry = l.entry /\ m.gap
    BY <1>1, <2>1 DEF Sent
  <2>3. k # 1 /\ l.entry <= n + 1 - k /\ l.entry <= n
    BY <1>3, <1>7
  <2>4. m.entry <= n - Len(r) /\ m.entry <= n /\ Len(r) # 0 /\ Len(r) <= Capacity
    BY <1>1, <1>2, <1>6, <2>2, <2>3
  <2>5. r[1] # 0
    BY <1>4, <1>5, <2>3
  <2>. QED BY <1>2, <1>4, <2>2, <2>4, <2>5 DEF Marked
<1>8. ASSUME q[1] # 0 PROVE Marked(r, m, n)
  <2>1. m = [entry |-> q[1], gap |-> FALSE] /\ q[1] \in Nat
    BY <1>1, <1>8
  <2>2. m \in Sent /\ m.entry = n - k + 1 /\ ~ m.gap
    BY <1>3, <1>8, <2>1 DEF Sent
  <2>3. m.entry = n - Len(r) /\ m.entry <= n /\ Len(r) <= Capacity
    BY <1>1, <1>2, <2>2
  <2>4. Len(r) # 0 => k # 1
    BY <1>1, <1>2
  <2>5. Len(r) # 0 => r[1] # 0
    BY <1>4, <1>5, <2>4
  <2>. QED BY <1>2, <1>4, <2>2, <2>3, <2>5 DEF Marked
<1>. QED BY <1>7, <1>8 DEF r

\* Streams come, take entries and go.
LEMMA SubscribersStep ==
  ASSUME Streaming, NEW s \in Streams,
         Log!Subscribe(s) \/ Log!Consume(s) \/ Log!Unsubscribe(s) \/ Log!Stopped(s)
  PROVE  Streaming'
<1>1. LogTyped /\ UNCHANGED <<files, read, published>> /\ Len(published) \in Nat
  BY ReadingParts DEF Streaming, Log!Subscribe, Log!Consume, Log!Unsubscribe, Log!Stopped
<1>2. \A t \in Streams : Attached(t)
  BY DEF Streaming
<1>3. /\ poll' \in [at : {"off", "sleep", "read"}, stopping : BOOLEAN]
      /\ poll'.at # "read" => poll.at # "read"
      /\ \A i \in DOMAIN cursors' : cursors'[i] \in Nat
  <2>1. CASE Log!Subscribe(s)
    <3>. DEFINE ids == {f.id : f \in Log!Range(files)}
                size(i) == (CHOOSE f \in Log!Range(files) : f.id = i).to
    <3>1. \A i \in ids : size(i) \in Nat
      <4>. TAKE i \in ids
      <4>1. \A f \in Log!Range(files) : f \in LogFile
        BY <1>1 DEF LogTyped, Log!Range
      <4>2. (CHOOSE f \in Log!Range(files) : f.id = i) \in Log!Range(files)
        OBVIOUS
      <4>. QED BY <4>1, <4>2, LogBounds DEF LogFile
    <3>2. \/ UNCHANGED <<cursors, poll>>
          \/ /\ poll' = [at |-> "sleep", stopping |-> FALSE]
             /\ poll.at = "off"
             /\ cursors' = [i \in DOMAIN cursors \cup ids |->
                              IF i \in ids THEN size(i) ELSE cursors[i]]
      BY <2>1 DEF Log!Subscribe
    <3>. HIDE DEF ids, size
    <3>3. \A i \in DOMAIN cursors' : cursors'[i] \in Nat
      BY <1>1, <3>1, <3>2 DEF LogTyped
    <3>. DEFINE begun == [at |-> "sleep", stopping |-> FALSE]
                polls == [at : {"off", "sleep", "read"}, stopping : BOOLEAN]
    <3>4. begun \in polls /\ begun.at # "read" /\ poll \in polls
      BY <1>1 DEF LogTyped
    <3>5. poll' = poll \/ poll' = begun
      BY <3>2
    <3>. HIDE DEF begun, polls
    <3>6. poll' \in polls /\ (poll'.at # "read" => poll.at # "read")
      BY <3>2, <3>4, <3>5
    <3>. QED BY <3>3, <3>6 DEF polls
  <2>2. CASE Log!Consume(s)
    BY <1>1, <2>2 DEF LogTyped, Log!Consume
  <2>3. CASE Log!Unsubscribe(s)
    BY <1>1, <2>3 DEF LogTyped, Log!Unsubscribe
  <2>4. CASE Log!Stopped(s)
    BY <1>1, <2>4 DEF LogTyped, Log!Stopped
  <2>. QED BY <2>1, <2>2, <2>3, <2>4
<1>4. /\ queue' = [t \in Streams |-> queue'[t]] /\ last' = [t \in Streams |-> last'[t]]
      /\ state' \in [Streams -> {"out", "in", "leaving"}]
  BY <1>1 DEF LogTyped, Log!Subscribe, Log!Consume, Log!Unsubscribe, Log!Stopped
<1>5. LogTyped'
  BY <1>1, <1>3, <1>4 DEF LogTyped
<1>6. CASE Log!Subscribe(s)
  <2>1. /\ state' = [state EXCEPT ![s] = "in"] /\ poll'.at # "off"
        /\ queue' = [queue EXCEPT ![s] = <<>>]
        /\ last' = [last EXCEPT ![s] = [entry |-> Len(published), gap |-> FALSE]]
        /\ \A t \in Streams : state[t] # "leaving"
    BY <1>6 DEF Log!Subscribe
  <2>2. Marked(<<>>, [entry |-> Len(published), gap |-> FALSE], Len(published))
    BY <1>1, LogBounds DEF Marked, Sent
  <2>3. ASSUME NEW t \in Streams PROVE Attached(t)'
    BY <1>1, <1>2, <2>1, <2>2 DEF LogTyped, Attached
  <2>. QED BY <1>5, <2>3 DEF Streaming
<1>7. CASE Log!Consume(s)
  <2>1. /\ state[s] = "in" /\ queue[s] # <<>> /\ UNCHANGED <<poll, state>>
        /\ queue' = [queue EXCEPT ![s] = Tail(@)]
        /\ last' = [last EXCEPT ![s] = IF Head(queue[s]) = 0 THEN [@ EXCEPT !.gap = TRUE]
                                       ELSE [entry |-> Head(queue[s]), gap |-> FALSE]]
    BY <1>7 DEF Log!Consume
  <2>2. Marked(queue'[s], last'[s], Len(published))
    <3>1. Marked(queue[s], last[s], Len(published))
      BY <1>2, <2>1 DEF Attached
    <3>2. queue'[s] = Tail(queue[s])
          /\ last'[s] = IF Head(queue[s]) = 0 THEN [last[s] EXCEPT !.gap = TRUE]
                        ELSE [entry |-> Head(queue[s]), gap |-> FALSE]
      BY <1>1, <2>1 DEF LogTyped
    <3>. QED BY <1>1, <2>1, <3>1, <3>2, TakenMarked
  <2>3. ASSUME NEW t \in Streams PROVE Attached(t)'
    BY <1>1, <1>2, <2>1, <2>2 DEF LogTyped, Attached
  <2>. QED BY <1>5, <2>3 DEF Streaming
<1>8. CASE Log!Unsubscribe(s)
  <2>1. /\ queue' = [queue EXCEPT ![s] = <<>>] /\ state[s] = "in" /\ UNCHANGED last
        /\ poll'.at = poll.at /\ \A t \in Streams : state[t] # "leaving"
        /\ \/ state' = [state EXCEPT ![s] = "out"]
           \/ /\ state' = [state EXCEPT ![s] = "leaving"]
              /\ \A t \in Streams \ {s} : state[t] # "in"
    BY <1>1, <1>8 DEF LogTyped, Log!Unsubscribe
  <2>2. ASSUME NEW t \in Streams PROVE Attached(t)'
    BY <1>1, <1>2, <2>1 DEF LogTyped, Attached
  <2>. QED BY <1>5, <2>2 DEF Streaming
<1>9. CASE Log!Stopped(s)
  <2>1. /\ state[s] = "leaving" /\ UNCHANGED <<queue, last>>
        /\ state' = [state EXCEPT ![s] = "out"]
    BY <1>9 DEF Log!Stopped
  <2>2. ASSUME NEW t \in Streams PROVE Attached(t)'
    BY <1>1, <1>2, <2>1 DEF LogTyped, Attached
  <2>. QED BY <1>5, <2>2 DEF Streaming
<1>. QED BY <1>6, <1>7, <1>8, <1>9

\* No step of the log stream breaks Streaming.
LEMMA StreamingStep == Streaming /\ [Log!Next]_logVars => Streaming'
<1>. SUFFICES ASSUME Streaming, [Log!Next]_logVars PROVE Streaming'
  OBVIOUS
<1>1. CASE UNCHANGED logVars
  BY <1>1 DEF Streaming, LogTyped, Attached, logVars
<1>2. CASE Log!Next
  BY <1>2, WriteStep, ReadStep, PublishStep, SubscribersStep DEF Log!Next
<1>. QED BY <1>1, <1>2

\* What stands before a line of such a queue.
LEMMA GapBefore ==
  ASSUME NEW q, NEW l, NEW n \in Nat, Marked(q, l, n), NEW i \in DOMAIN q, q[i] # 0
  PROVE  /\ i = 1 => IF l.gap THEN q[i] > l.entry ELSE q[i] = l.entry + 1
         /\ i # 1 /\ q[i - 1] = 0 => i = 2 /\ q[i] > l.entry
         /\ i # 1 /\ q[i - 1] # 0 => q[i] = q[i - 1] + 1
<1>. DEFINE k == Len(q)
<1>1. /\ k \in Nat /\ i \in 1 .. k /\ l.entry \in Nat
      /\ \A j \in 1 .. k : (q[j] = 0 => j = 1) /\ (q[j] # 0 => q[j] = n - k + j)
      /\ k # 0 /\ q[1] # 0 => l.entry <= n - k /\ (l.gap \/ l.entry = n - k)
      /\ k # 0 /\ q[1] = 0 => l.entry <= n + 1 - k
  BY DEF Marked, Sent
<1>. HIDE DEF k
<1>2. CASE i = 1
  BY <1>1, <1>2
<1>3. CASE i # 1
  <2>1. i - 1 \in 1 .. k
    BY <1>1, <1>3
  <2>2. CASE q[i - 1] = 0
    <3>1. i - 1 = 1
      BY <1>1, <2>1, <2>2
    <3>. QED BY <1>1, <2>2, <3>1
  <2>3. CASE q[i - 1] # 0
    BY <1>1, <1>3, <2>1, <2>3
  <2>. QED BY <1>3, <2>2, <2>3
<1>. QED BY <1>2, <1>3

\* Streaming says where the gaps are.
LEMMA GapsMarked == Streaming => Log!GapMarked
<1>. SUFFICES ASSUME Streaming, NEW s \in Streams, state[s] = "in",
                     NEW i \in DOMAIN queue[s], queue[s][i] # 0
              PROVE  LET q    == queue[s]
                         prev == IF i = 1 THEN last[s].entry
                                 ELSE IF q[i - 1] = 0 THEN IF i = 2 THEN last[s].entry ELSE q[i - 2]
                                 ELSE q[i - 1]
                     IN  IF (IF i = 1 THEN last[s].gap ELSE q[i - 1] = 0)
                         THEN q[i] > prev ELSE q[i] = prev + 1
  BY DEF Log!GapMarked
<1>1. Marked(queue[s], last[s], Len(published)) /\ Len(published) \in Nat
  BY ReadingParts DEF Streaming, Attached
<1>2. LET q == queue[s] IN
      /\ i = 1 => IF last[s].gap THEN q[i] > last[s].entry ELSE q[i] = last[s].entry + 1
      /\ i # 1 /\ q[i - 1] = 0 => i = 2 /\ q[i] > last[s].entry
      /\ i # 1 /\ q[i - 1] # 0 => q[i] = q[i - 1] + 1
  BY <1>1, GapBefore
<1>. QED BY <1>2

\* A console whose queue overflowed is told so: between two entries it is sent,
\* either no line was published or a gap stands in its place, and the event of
\* a task's last published state is never missed (_poll, subscribe and the log stream;
\* _publish_task_updated and the event stream).
THEOREM NothingIsLostSilently == Spec => []NoSilentLoss
<1>1. Init => Streaming /\ Fresh
  BY StreamingInit, FreshInit DEF Init
<1>2. [Next]_<<focus, accessVars, commandVars, menuVars, adminVars, logVars, eventVars,
               libraryVars>> => [Log!Next]_logVars /\ [Events!Next]_eventVars
  BY DEF Next, AccessSteps, CommandSteps, MenuSteps, AdminSteps, LogSteps, EventSteps, LibrarySteps
<1>3. Streaming /\ Fresh => NoSilentLoss
  BY FreshMeans, GapsMarked DEF NoSilentLoss
<1>. QED
  BY <1>1, <1>2, <1>3, StreamingStep, FreshStep, PTL DEF Spec

-----------------------------------------------------------------------------
(* The types of the components' state. *)

\* A write names the revision its editor read and counts it up, within the bound.
LEMMA LibraryTypes ==
  /\ Library!Init => Library!LibraryTypeOK
  /\ Library!LibraryTypeOK /\ [Library!Next]_libraryVars => Library!LibraryTypeOK'
<1>. DEFINE Group == [there : BOOLEAN, empty : BOOLEAN, revision : 1 .. MaxRevision, lost : BOOLEAN]
            Editing == [op : Library!Ops, at : Library!At, revision : 1 .. MaxRevision]
<1>0. MaxRevision \in Nat \ {0}
  BY InterfacesAssumption DEF Library!LibraryAssumption
<1>1. ASSUME Library!Init PROVE Library!LibraryTypeOK
  <2>1. /\ group = [there |-> TRUE, empty |-> FALSE, revision |-> 1, lost |-> FALSE]
        /\ editor = [e \in Editors |-> [op |-> "fill", at |-> "read", revision |-> 1]]
        /\ {draft, version} \subseteq BOOLEAN
    BY <1>1 DEF Library!Init
  <2>2. 1 \in 1 .. MaxRevision
    BY <1>0
  <2>. QED BY <2>1, <2>2 DEF Library!LibraryTypeOK, Library!Ops, Library!At
<1>2. ASSUME Library!LibraryTypeOK, [Library!Next]_libraryVars PROVE Library!LibraryTypeOK'
  <2>0. /\ group \in Group /\ editor \in [Editors -> Editing] /\ {draft, version} \subseteq BOOLEAN
    BY <1>2 DEF Library!LibraryTypeOK
  <2>1. ASSUME NEW e \in Editors, NEW a \in Library!At, Library!Goto(e, a)
        PROVE  editor' \in [Editors -> Editing]
    <3>1. PICK was \in Editing : was = editor[e]
      BY <2>0
    <3>2. [was EXCEPT !.at = a] \in Editing
      OBVIOUS
    <3>3. editor' = [editor EXCEPT ![e] = [was EXCEPT !.at = a]]
      BY <2>1, <3>1 DEF Library!Goto
    <3>. QED BY <2>0, <3>2, <3>3
  <2>2. ASSUME NEW e \in Editors, Library!Read(e) PROVE Library!LibraryTypeOK'
    <3>1. PICK op \in Library!Ops :
            editor' = [editor EXCEPT ![e] = [op |-> op, at |-> "asked",
                                             revision |-> group.revision]]
      BY <2>2 DEF Library!Read
    <3>2. [op |-> op, at |-> "asked", revision |-> group.revision] \in Editing
      BY <2>0 DEF Library!At
    <3>3. UNCHANGED <<group, draft, version>>
      BY <2>2 DEF Library!Read, Library!tasks
    <3>. HIDE DEF Editing
    <3>4. editor' \in [Editors -> Editing]
      BY <2>0, <3>1, <3>2
    <3>. QED BY <2>0, <3>3, <3>4 DEF Library!LibraryTypeOK, Editing
  <2>3. ASSUME NEW e \in Editors,
               Library!Change(e) \/ Library!CheckDrafts(e) \/ Library!CheckVersions(e)
        PROVE  Library!LibraryTypeOK'
    <3>1. PICK a \in Library!At : Library!Goto(e, a)
      BY <2>3 DEF Library!Change, Library!CheckDrafts, Library!CheckVersions, Library!At
    <3>2. UNCHANGED <<group, draft, version>>
      BY <2>3 DEF Library!Change, Library!CheckDrafts, Library!CheckVersions, Library!tasks
    <3>. QED BY <2>0, <2>1, <3>1, <3>2 DEF Library!LibraryTypeOK
  <2>4. ASSUME NEW e \in Editors, Library!Write(e) PROVE Library!LibraryTypeOK'
    <3>1. "read" \in Library!At /\ Library!Goto(e, "read")
      BY <2>4 DEF Library!Write, Library!At
    <3>2. /\ UNCHANGED <<draft, version>> /\ editor[e].revision < MaxRevision
          /\ group' = group \/ group' = Library!Written(e)
      BY <2>4 DEF Library!Write, Library!tasks
    <3>3. PICK was \in Editing : was = editor[e]
      BY <2>0
    <3>4. was.revision \in 1 .. MaxRevision /\ was.revision + 1 \in 1 .. MaxRevision
      BY <1>0, <3>2, <3>3
    <3>5. Library!Written(e) \in Group
      <4>1. PICK number \in 1 .. MaxRevision :
              number = was.revision + (IF was.op = "delete" THEN 0 ELSE 1)
        BY <1>0, <3>4
      <4>2. PICK over \in BOOLEAN : over = (group.lost \/ group.revision # was.revision)
        BY <2>0
      <4>3. Library!Written(e) = [there |-> was.op # "delete", empty |-> was.op # "fill",
                                  revision |-> number, lost |-> over]
        BY <3>3, <4>1, <4>2 DEF Library!Written
      <4>. QED BY <4>3
    <3>. HIDE DEF Group
    <3>6. group' \in Group
      BY <2>0, <3>2, <3>5
    <3>. QED BY <2>0, <2>1, <3>1, <3>2, <3>6 DEF Library!LibraryTypeOK, Group
  <2>5. ASSUME NEW refers \in BOOLEAN, Library!SaveDraft(refers) PROVE Library!LibraryTypeOK'
    BY <2>0, <2>5 DEF Library!SaveDraft, Library!LibraryTypeOK
  <2>6. CASE Library!Publish
    BY <2>0, <2>6 DEF Library!Publish, Library!LibraryTypeOK
  <2>7. CASE UNCHANGED libraryVars
    BY <2>0, <2>7 DEF libraryVars, Library!LibraryTypeOK
  <2>. QED BY <1>2, <2>2, <2>3, <2>4, <2>5, <2>6, <2>7 DEF Library!Next
<1>. QED BY <1>1, <1>2

\* What the files hold and the queues do not exceed follows from Streaming.
LEMMA LogTypes == Streaming => Log!LogTypeOK
<1>. SUFFICES ASSUME Streaming PROVE Log!LogTypeOK
  OBVIOUS
<1>0. LogTyped /\ \A s \in Streams : Attached(s)
  BY DEF Streaming
<1>1. \A f \in Log!Range(files) : f.from <= f.to /\ f.to <= MaxLines
  <2>1. \A f \in Log!Range(files) : f \in LogFile
    BY <1>0 DEF LogTyped, Log!Range
  <2>2. \A f \in LogFile : f.from <= f.to /\ f.to <= MaxLines
    BY LogBounds DEF LogFile
  <2>. QED BY <2>1, <2>2
<1>2. ASSUME NEW s \in Streams PROVE Len(queue[s]) <= Capacity
  <2>1. CASE state[s] = "in"
    BY <1>0, <2>1 DEF Attached, Marked
  <2>2. CASE state[s] # "in"
    BY <1>0, <2>2, LogBounds DEF Attached
  <2>. QED BY <2>1, <2>2
<1>3. (\E s \in Streams : state[s] # "out") => poll.at # "off"
  BY <1>0 DEF Attached
<1>. QED BY <1>0, <1>1, <1>2, <1>3 DEF LogTyped, Log!LogTypeOK

\* What Fresh leaves open: the bound, and where a stream may be.
EventsBounded ==
  /\ changes <= MaxChanges
  /\ \A s \in Streams : at[s] \in {"off", "waits", "holds", "sends"}

\* Changes are bounded, and a stream is where a stream can be.
LEMMA EventsTypes ==
  /\ Events!Init => EventsBounded
  /\ Fresh /\ EventsBounded /\ [Events!Next]_eventVars => EventsBounded'
  /\ Fresh /\ EventsBounded => Events!EventsTypeOK
<1>0. MaxChanges \in Nat
  BY InterfacesAssumption DEF Events!EventsAssumption
<1>1. Events!Init => EventsBounded
  BY <1>0 DEF Events!Init, EventsBounded
<1>2. ASSUME Fresh, EventsBounded, [Events!Next]_eventVars PROVE EventsBounded'
  <2>0. changes \in Nat /\ at = [s \in Streams |-> at[s]]
    BY <1>2 DEF Fresh, Owed, StreamsTyped
  <2>1. CASE UNCHANGED eventVars
    BY <1>2, <2>1 DEF EventsBounded, eventVars
  <2>2. CASE Events!Change \/ \E r \in Runs : Events!ChangeSilently(r) \/ Events!Report(r)
    <3>1. changes' <= MaxChanges /\ UNCHANGED at
      BY <1>0, <2>0, <2>2 DEF Events!Change, Events!ChangeSilently, Events!Report, Events!Publish
    <3>. QED BY <1>2, <3>1 DEF EventsBounded
  <2>3. ASSUME NEW s \in Streams, Events!Open(s) \/ Events!Snapshot(s) PROVE EventsBounded'
    <3>1. at' = [at EXCEPT ![s] = "sends"] /\ UNCHANGED changes
      BY <2>3 DEF Events!Open, Events!Snapshot
    <3>. QED BY <1>2, <2>0, <3>1 DEF EventsBounded
  <2>4. ASSUME NEW s \in Streams, Events!Sent(s) \/ Events!Take(s) \/ Events!Close(s)
        PROVE  EventsBounded'
    <3>1. /\ UNCHANGED changes
          /\ \E a \in {"off", "waits", "holds"} : at' = [at EXCEPT ![s] = a]
      BY <2>4 DEF Events!Sent, Events!Take, Events!Close
    <3>. QED BY <1>2, <2>0, <3>1 DEF EventsBounded
  <2>. QED BY <1>2, <2>1, <2>2, <2>3, <2>4 DEF Events!Next, Events!Stream
<1>3. ASSUME Fresh, EventsBounded PROVE Events!EventsTypeOK
  <2>0. Owed /\ StreamsTyped /\ \A s \in Streams : Told(s)
    BY <1>3 DEF Fresh
  <2>1. changes \in 0 .. MaxChanges /\ announced \in 0 .. changes /\ owes \subseteq Runs
    BY <1>0, <1>3, <2>0 DEF Owed, EventsBounded
  <2>2. /\ notice \in [Streams -> 0 .. sequence] /\ taken \in [Streams -> 0 .. sequence]
        /\ at \in [Streams -> {"off", "waits", "holds", "sends"}]
    BY <1>3, <2>0 DEF StreamsTyped, Told, EventsBounded
  <2>3. ASSUME NEW s \in Streams PROVE sent[s] \in [id : 0 .. sequence, shows : 0 .. changes]
    <3>1. PICK m \in Message : m = sent[s]
      BY <2>0 DEF StreamsTyped
    <3>2. m.id \in 0 .. sequence /\ m.shows \in 0 .. changes
      BY <1>3, <2>0, <3>1 DEF Message, StreamsTyped, Owed, Told
    <3>. QED BY <3>1, <3>2 DEF Message
  <2>. QED BY <2>0, <2>1, <2>2, <2>3 DEF StreamsTyped, Events!EventsTypeOK
<1>. QED BY <1>1, <1>2, <1>3

\* What Bindings and Points leave open: the ends of codes and confirmations
\* within their times, the gates, and the button that waits.
BotBounded ==
  /\ now <= MaxNow /\ acted \in 0 .. 1
  /\ \A c \in Codes : code[c].expires \in 0 .. Access!Never
  /\ gate \in [{"tasks", "checkin"} -> SUBSET Access!Roles]
  /\ press = Access!Idle \/ (press.user \in Users /\ press.what \in {"ask", "do"})
  /\ confirm \in [Users -> -1 .. MaxNow + ConfirmTTL]

\* A code and a confirmation end within their times, a button waits for its user.
LEMMA BotTypes ==
  /\ Access!Init => BotBounded
  /\ Bindings /\ BotBounded /\ [Access!Next]_accessVars => BotBounded'
  /\ Bindings /\ Points /\ BotBounded => Access!BotTypeOK
<1>0. {MaxNow, CodeTTL, ConfirmTTL} \subseteq Nat /\ Access!Never = MaxNow + CodeTTL + 1
  BY InterfacesAssumption DEF Access!BotAccessAssumption, Access!Never
<1>1. ASSUME Access!Init PROVE BotBounded
  <2>1. \A c \in Codes : code[c].expires = 0
    BY <1>1 DEF Access!Init, Access!NoCode
  <2>2. confirm = [u \in Users |-> -1] /\ now = 0 /\ acted = 0 /\ press = Access!Idle
    BY <1>1 DEF Access!Init
  <2>3. gate \in [{"tasks", "checkin"} -> SUBSET Access!Roles]
    BY <1>1 DEF Access!Init, Access!Roles
  <2>. QED BY <1>0, <2>1, <2>2, <2>3 DEF BotBounded
<1>2. ASSUME Bindings, BotBounded, [Access!Next]_accessVars PROVE BotBounded'
  <2>0. now \in 0 .. MaxNow /\ code \in [Codes -> CodeRow]
    BY <1>0, <1>2 DEF Bindings, BindingsTyped, BotBounded
  <2>1. CASE UNCHANGED accessVars
    BY <1>2, <2>1 DEF BotBounded, accessVars
  <2>2. CASE Access!Tick
    <3>1. /\ now < MaxNow /\ now' = now + 1
          /\ UNCHANGED <<acted, code, gate, press, confirm>>
      BY <2>2 DEF Access!Tick, Access!bindings, Access!buttons
    <3>. QED BY <1>0, <1>2, <2>0, <3>1 DEF BotBounded
  <2>3. ASSUME NEW c \in Codes, NEW role \in {"user", "admin"},
               NEW life \in {CodeTTL, Access!Never - now}, Access!CreateCode(c, role, now + life)
        PROVE  BotBounded'
    <3>1. /\ code' = [code EXCEPT ![c] = [state |-> "open", role |-> role, expires |-> now + life]]
          /\ UNCHANGED <<now, acted, gate, press, confirm>>
      BY <2>3 DEF Access!CreateCode, Access!buttons
    <3>2. now + life \in 0 .. Access!Never
      BY <1>0, <2>0
    <3>. QED BY <1>2, <2>0, <3>1, <3>2 DEF BotBounded
  <2>4. ASSUME NEW c \in Codes, NEW s, code' = [code EXCEPT ![c].state = s],
               UNCHANGED <<now, acted, gate, press, confirm>>
        PROVE  BotBounded'
    <3>1. \A d \in Codes : code'[d].expires = code[d].expires
      <4>1. PICK was \in CodeRow : was = code[c]
        BY <2>0
      <4>2. [was EXCEPT !.state = s].expires = was.expires
        BY DEF CodeRow
      <4>. QED BY <2>0, <2>4, <4>1, <4>2
    <3>. QED BY <1>2, <2>4, <3>1 DEF BotBounded
  <2>5. ASSUME NEW c \in Codes, Access!RevokeCode(c) PROVE BotBounded'
    BY <2>4, <2>5 DEF Access!RevokeCode, Access!buttons
  <2>6. CASE UNCHANGED <<now, code, acted, gate, press, confirm>>
    BY <1>2, <2>6 DEF BotBounded
  <2>7. ASSUME NEW u \in Users, NEW c \in Codes, Access!Bind(u, c) PROVE BotBounded'
    BY <2>4, <2>6, <2>7 DEF Access!Bind, Access!bindings, Access!buttons
  <2>8. ASSUME NEW u \in Users, NEW what \in {"ask", "do"}, Access!Press(u, what)
        PROVE  BotBounded'
    BY <1>2, <2>8 DEF Access!Press, Access!bindings, BotBounded
  <2>9. CASE Access!AnswerFails
    BY <1>2, <2>9 DEF Access!AnswerFails, Access!bindings, BotBounded
  <2>10. CASE Access!Ask
    <3>1. /\ press.what = "ask" /\ press' = Access!Idle
          /\ confirm' = [confirm EXCEPT ![press.user] = now + ConfirmTTL]
          /\ UNCHANGED <<now, code, acted, gate>>
      BY <2>10 DEF Access!Ask, Access!bindings
    <3>2. now + ConfirmTTL \in -1 .. MaxNow + ConfirmTTL
      BY <1>0, <2>0
    <3>. QED BY <1>2, <3>1, <3>2 DEF BotBounded
  <2>11. CASE Access!Perform
    <3>1. press' = Access!Idle /\ UNCHANGED <<now, code, gate, confirm>> /\ acted' \in 0 .. 1
      BY <1>2, <2>11 DEF Access!Perform, Access!bindings, BotBounded
    <3>. QED BY <1>2, <3>1 DEF BotBounded
  <2>. QED
    BY <1>2, <2>1, <2>2, <2>3, <2>5, <2>6, <2>7, <2>8, <2>9, <2>10, <2>11
      DEF Access!Next, Access!RevokeBinding, Access!SetRange, Access!Unbind, Access!Checkin,
          Access!bindings, Access!buttons
<1>3. ASSUME Bindings, Points, BotBounded PROVE Access!BotTypeOK
  <2>0. BindingsTyped /\ PointsTyped
    BY <1>3 DEF Bindings, Points
  <2>1. ASSUME NEW c \in Codes
        PROVE  code[c] \in [state : {"absent", "open", "used", "revoked"},
                            role : {"user", "admin"}, expires : 0 .. Access!Never]
    <3>1. PICK r \in CodeRow : r = code[c]
      BY <2>0 DEF BindingsTyped
    <3>2. r.expires \in 0 .. Access!Never
      BY <1>3, <3>1 DEF BotBounded
    <3>. QED BY <3>1, <3>2 DEF CodeRow
  <2>2. code \in [Codes -> [state : {"absent", "open", "used", "revoked"},
                            role : {"user", "admin"}, expires : 0 .. Access!Never]]
    BY <2>0, <2>1 DEF BindingsTyped
  <2>3. now \in 0 .. MaxNow
    BY <1>0, <1>3, <2>0 DEF BindingsTyped, BotBounded
  <2>. QED
    BY <1>3, <2>0, <2>2, <2>3
      DEF BindingsTyped, BindingRow, PointsTyped, Award, BotBounded, Access!BotTypeOK
<1>. QED BY <1>1, <1>2, <1>3

\* What Vault leaves open: the bounds of clock and keys, which keys, nonces and
\* sessions there are, and the limiter.
AdminBounded ==
  /\ clock <= MaxClock /\ key.id <= MaxKeys /\ key.born <= clock
  /\ DOMAIN old \subseteq 0 .. key.id - 1 /\ DOMAIN nonces \subseteq Challenges
  /\ failures \in Seq(Int) /\ Len(failures) <= MaxFailures
  /\ DOMAIN sessions \cup DOMAIN store \cup gone \subseteq Tokens
  /\ lastPrune \in -1 .. clock

\* The failures that are left are a part of those there were.
LEMMA FailuresLeft ==
  ASSUME failures \in Seq(Int), clock \in Nat
  PROVE  Admin!RecentFailures \in Seq(Int)
<1>. DEFINE over(i) == failures[i] <= clock - FailureWindow
            left(n) == (\A i \in 1 .. n : over(i)) /\ (n = Len(failures) \/ ~ over(n + 1))
            stops == {n \in Nat : n = Len(failures) \/ (n < Len(failures) /\ ~ over(n + 1))}
<1>1. Len(failures) \in stops /\ stops \subseteq Nat
  OBVIOUS
<1>2. PICK n \in stops : \A m \in stops : n <= m
  <2>. HIDE DEF stops
  <2>. QED BY <1>1, LeastNat
<1>3. n \in 0 .. Len(failures)
  BY <1>2
<1>4. left(n)
  <2>1. ASSUME NEW i \in 1 .. n PROVE over(i)
    <3>1. i - 1 \in Nat /\ i - 1 < n /\ i - 1 < Len(failures) /\ (i - 1) + 1 = i
      BY <1>3
    <3>2. i - 1 \notin stops
      BY <1>2, <3>1
    <3>. QED BY <3>1, <3>2
  <2>2. n = Len(failures) \/ ~ over(n + 1)
    BY <1>2
  <2>. QED BY <2>1, <2>2
<1>. DEFINE many == CHOOSE k \in 0 .. Len(failures) : left(k)
<1>5. many \in 0 .. Len(failures)
  <2>. HIDE DEF left
  <2>. QED BY <1>3, <1>4
<1>6. Admin!RecentFailures = SubSeq(failures, many + 1, Len(failures))
  BY DEF Admin!RecentFailures
<1>. HIDE DEF many
<1>7. \A i \in many + 1 .. Len(failures) : failures[i] \in Int
  BY <1>5
<1>. QED BY <1>5, <1>6, <1>7

\* The keys after a rotation or a prune, and the nonces they leave.
LEMMA KeysBounded ==
  ASSUME Vault, AdminBounded, NEW k, NEW olds, k.id <= MaxKeys,
         \/ k = key /\ olds = Admin!Live(old)
         \/ k = Admin!NextKey /\ olds = Admin!Live(Admin!Retired)
  PROVE  /\ k.born <= clock /\ DOMAIN olds \subseteq 0 .. k.id - 1
         /\ DOMAIN Admin!Pruned(k, olds) \subseteq Challenges
<1>0. /\ key.id \in Nat /\ key.born \in Nat /\ clock \in Nat /\ DOMAIN old \subseteq 0 .. key.id - 1
      /\ key.born <= clock
  BY DEF Vault, KeysTyped, AdminBounded
<1>1. DOMAIN Admin!Pruned(k, olds) \subseteq Challenges
  BY PrunedNonces DEF AdminBounded
<1>2. CASE k = key /\ olds = Admin!Live(old)
  <2>1. DOMAIN olds \subseteq DOMAIN old
    BY <1>2 DEF Admin!Live, Admin!Restrict
  <2>. QED BY <1>0, <1>1, <1>2, <2>1
<1>3. CASE k = Admin!NextKey /\ olds = Admin!Live(Admin!Retired)
  <2>1. DOMAIN olds \subseteq DOMAIN old \cup {key.id}
    BY <1>3 DEF Admin!Live, Admin!Restrict, Admin!Retired, Admin!Put
  <2>2. k.id = key.id + 1 /\ k.born = clock
    BY <1>3 DEF Admin!NextKey
  <2>. QED BY <1>0, <1>1, <2>1, <2>2
<1>. QED BY <1>2, <1>3

\* A token or a nonce that is dropped leaves only others.
LEMMA TokensKept == \A f, x : DOMAIN Admin!Without(f, x) \subseteq DOMAIN f
BY DEF Admin!Restrict, Admin!Without

\* What an operation of the sessions does to memory, store and cleanup.
LEMMA SessionTypes ==
  ASSUME AdminBounded, clock \in Nat, NEW t \in Tokens, NEW ok \in BOOLEAN,
         \/ Admin!Create(t, ok)
         \/ \E csrf \in BOOLEAN : Admin!Authenticate(t, csrf, ok)
         \/ Admin!Logout(t, ok)
  PROVE  /\ (DOMAIN sessions \cup DOMAIN store \cup gone \subseteq Tokens)'
         /\ lastPrune' \in -1 .. clock
<1>0. DOMAIN sessions \cup DOMAIN store \cup gone \subseteq Tokens /\ lastPrune \in -1 .. clock
  BY DEF AdminBounded
<1>a. \A x : /\ DOMAIN Admin!Put(Admin!Live(sessions), t, x) \subseteq DOMAIN sessions \cup {t}
            /\ DOMAIN Admin!Put(Admin!PrunedStore(ok), t, x) \subseteq DOMAIN store \cup {t}
            /\ DOMAIN Admin!Live(sessions) \subseteq DOMAIN sessions
            /\ DOMAIN Admin!PrunedStore(ok) \subseteq DOMAIN store
  BY DEF Admin!Put, Admin!Live, Admin!Restrict, Admin!PrunedStore
<1>1. CASE Admin!Create(t, ok)
  <2>1. /\ DOMAIN sessions' \subseteq DOMAIN sessions \cup {t}
        /\ DOMAIN store' \subseteq DOMAIN store \cup {t} /\ gone' = gone
    BY <1>a, <1>1 DEF Admin!Create
  <2>2. lastPrune' \in -1 .. clock
    BY <1>0, <1>1 DEF Admin!Create, Admin!Cleanup
  <2>. QED BY <1>0, <2>1, <2>2
<1>2. ASSUME NEW csrf \in BOOLEAN, Admin!Authenticate(t, csrf, ok)
      PROVE  /\ (DOMAIN sessions \cup DOMAIN store \cup gone \subseteq Tokens)'
             /\ lastPrune' \in -1 .. clock
  <2>1. /\ DOMAIN sessions' \subseteq DOMAIN sessions \cup {t}
        /\ DOMAIN store' \subseteq DOMAIN store \cup {t} /\ gone' = gone
    BY <1>a, <1>2 DEF Admin!Authenticate
  <2>2. lastPrune' \in -1 .. clock
    BY <1>0, <1>2 DEF Admin!Authenticate, Admin!Cleanup
  <2>. QED BY <1>0, <2>1, <2>2
<1>3. CASE Admin!Logout(t, ok)
  <2>1. /\ DOMAIN sessions' \subseteq DOMAIN sessions /\ DOMAIN store' \subseteq DOMAIN store
        /\ gone' \subseteq gone \cup {t} /\ lastPrune' = lastPrune
    BY <1>3, TokensKept DEF Admin!Logout, Admin!Revoke
  <2>. QED BY <1>0, <2>1
<1>. QED BY <1>1, <1>2, <1>3

\* Keys, nonces, failures and sessions stay within their bounds (TransportKeyManager,
\* RateLimiter, SessionManager): the failures because those that are too old go first.
LEMMA AdminStep ==
  ASSUME Vault, AdminBounded, [Admin!Next]_adminVars
  PROVE  AdminBounded'
<1>0. /\ clock \in Nat /\ key.id \in Nat /\ key.born \in Nat
      /\ MaxClock \in Nat /\ MaxKeys \in Nat /\ MaxFailures \in Nat \ {0}
  BY InterfacesAssumption DEF Admin!AccessAssumption, Vault, KeysTyped
<1>1. CASE UNCHANGED adminVars
  BY <1>1 DEF AdminBounded, adminVars
<1>2. CASE Admin!Tick
  <2>1. clock' = clock + 1 /\ clock < MaxClock
        /\ UNCHANGED <<key, old, nonces, failures, sessions, store, gone, lastPrune>>
    BY <1>2 DEF Admin!Tick, Admin!keyVars, Admin!sessionVars
  <2>. QED BY <1>0, <2>1 DEF AdminBounded
<1>3. CASE Admin!Restart
  <2>1. /\ key' = Admin!NextKey /\ key.id < MaxKeys /\ UNCHANGED <<clock, store, gone>>
        /\ old' = <<>> /\ nonces' = <<>> /\ failures' = <<>> /\ sessions' = <<>>
        /\ lastPrune' = -1
    BY <1>3 DEF Admin!Restart
  <2>2. key'.id = key.id + 1 /\ key'.born = clock
    BY <2>1 DEF Admin!NextKey
  <2>3. DOMAIN old' = {} /\ DOMAIN nonces' = {} /\ DOMAIN sessions' = {}
        /\ failures' \in Seq(Int) /\ Len(failures') = 0
    BY <2>1
  <2>4. lastPrune' \in -1 .. clock'
    BY <1>0, <2>1
  <2>. QED BY <1>0, <2>1, <2>2, <2>3, <2>4 DEF AdminBounded
<1>4. ASSUME NEW forced \in BOOLEAN, Admin!RotateKeys(forced) PROVE AdminBounded'
  <2>1. PICK k, olds :
          /\ \/ k = key /\ olds = Admin!Live(old)
             \/ k = Admin!NextKey /\ olds = Admin!Live(Admin!Retired)
          /\ k.id <= MaxKeys /\ key' = k /\ old' = olds /\ nonces' = Admin!Pruned(k, olds)
    BY <1>4 DEF Admin!RotateKeys, Admin!Rotate
  <2>2. UNCHANGED <<clock, failures, sessions, store, gone, lastPrune>>
    BY <1>4 DEF Admin!RotateKeys, Admin!sessionVars
  <2>. QED BY <2>1, <2>2, KeysBounded DEF AdminBounded
<1>5. ASSUME NEW n \in Challenges, NEW purpose \in Admin!Purposes,
             Admin!IssueChallenge(n, purpose)
      PROVE  AdminBounded'
  <2>1. PICK k, olds :
          /\ \/ k = key /\ olds = Admin!Live(old)
             \/ k = Admin!NextKey /\ olds = Admin!Live(Admin!Retired)
          /\ k.id <= MaxKeys /\ key' = k /\ old' = olds
          /\ nonces' = Admin!Put(Admin!Pruned(k, olds), n,
                                 [key |-> k.id, purpose |-> purpose, end |-> clock + NonceTTL])
    BY <1>5 DEF Admin!IssueChallenge
  <2>2. UNCHANGED <<clock, failures, sessions, store, gone, lastPrune>>
    BY <1>5 DEF Admin!IssueChallenge, Admin!sessionVars
  <2>3. /\ k.born <= clock /\ DOMAIN olds \subseteq 0 .. k.id - 1
        /\ DOMAIN Admin!Pruned(k, olds) \subseteq Challenges
    BY <2>1, KeysBounded
  <2>4. DOMAIN nonces' \subseteq Challenges
    BY <2>1, <2>3 DEF Admin!Put
  <2>. QED BY <2>1, <2>2, <2>3, <2>4 DEF AdminBounded
<1>6. ASSUME NEW n, Admin!Settled, Admin!Opens(n)
      PROVE  /\ key' = key /\ DOMAIN old' \subseteq 0 .. key.id - 1
             /\ DOMAIN nonces' \subseteq Challenges
  <2>1. key' = key /\ old' = Admin!Live(old)
        /\ nonces' = Admin!Without(Admin!Pruned(key, Admin!Live(old)), n)
    BY <1>6 DEF Admin!Settled, Admin!Opens
  <2>2. key.id <= MaxKeys
    BY DEF AdminBounded
  <2>3. /\ DOMAIN Admin!Live(old) \subseteq 0 .. key.id - 1
        /\ DOMAIN Admin!Pruned(key, Admin!Live(old)) \subseteq Challenges
    BY <2>2, KeysBounded
  <2>. QED BY <2>1, <2>3, TokensKept
<1>7. ASSUME NEW n \in Challenges, Admin!OpenSecret(n) PROVE AdminBounded'
  <2>1. UNCHANGED <<clock, failures, sessions, store, gone, lastPrune>>
    BY <1>7 DEF Admin!OpenSecret, Admin!sessionVars
  <2>. QED BY <1>6, <1>7, <2>1 DEF AdminBounded, Admin!OpenSecret
<1>8. ASSUME NEW n \in Challenges, NEW stamp \in 0 .. clock, NEW good \in BOOLEAN,
             NEW ok \in BOOLEAN, NEW t \in Tokens, Admin!Verify(n, stamp, good, t, ok)
      PROVE  AdminBounded'
  <2>1. /\ clock' = clock /\ Admin!Settled /\ Admin!Opens(n) /\ ~ Admin!Limited
    BY <1>8 DEF Admin!Verify
  <2>2. failures' \in Seq(Int) /\ Len(failures') <= MaxFailures
    <3>. DEFINE rest == Admin!RecentFailures
    <3>1. rest \in Seq(Int)
      BY <1>0, FailuresLeft DEF AdminBounded
    <3>2. Len(rest) \in Nat /\ Len(rest) < MaxFailures
      BY <1>0, <2>1, <3>1 DEF Admin!Limited
    <3>3. failures' = <<>> \/ failures' = Append(rest, clock)
      BY <1>8 DEF Admin!Verify
    <3>. HIDE DEF rest
    <3>4. /\ Append(rest, clock) \in Seq(Int) /\ Len(Append(rest, clock)) = Len(rest) + 1
          /\ <<>> \in Seq(Int) /\ Len(<<>>) = 0
      BY <1>0, <3>1
    <3>5. Len(rest) + 1 <= MaxFailures /\ 0 <= MaxFailures
      BY <1>0, <3>2
    <3>. QED BY <3>3, <3>4, <3>5
  <2>3. /\ (DOMAIN sessions \cup DOMAIN store \cup gone \subseteq Tokens)'
        /\ lastPrune' \in -1 .. clock
    <3>1. CASE Admin!Create(t, ok)
      BY <1>0, <3>1, SessionTypes
    <3>2. CASE UNCHANGED Admin!sessionVars
      BY <3>2 DEF AdminBounded, Admin!sessionVars
    <3>. QED BY <1>8, <3>1, <3>2 DEF Admin!Verify
  <2>. QED BY <1>6, <2>1, <2>2, <2>3 DEF AdminBounded
<1>9. ASSUME NEW t \in Tokens, NEW ok \in BOOLEAN,
             Admin!Logout(t, ok) \/ \E csrf \in BOOLEAN : Admin!Authenticate(t, csrf, ok)
      PROVE  AdminBounded'
  <2>1. UNCHANGED <<clock, key, old, nonces, failures>>
    BY <1>9 DEF Admin!Logout, Admin!Authenticate, Admin!keyVars
  <2>2. /\ (DOMAIN sessions \cup DOMAIN store \cup gone \subseteq Tokens)'
        /\ lastPrune' \in -1 .. clock
    BY <1>0, <1>9, SessionTypes
  <2>. QED BY <2>1, <2>2 DEF AdminBounded
<1>. QED
  BY <1>1, <1>2, <1>3, <1>4, <1>5, <1>7, <1>8, <1>9 DEF Admin!Next

\* Vault and its bounds are the login's type.
LEMMA AdminTypes ==
  /\ Admin!Init => AdminBounded
  /\ Vault /\ AdminBounded => Admin!AccessTypeOK
<1>0. MaxClock \in Nat /\ MaxKeys \in Nat /\ MaxFailures \in Nat \ {0}
  BY InterfacesAssumption DEF Admin!AccessAssumption
<1>1. ASSUME Admin!Init PROVE AdminBounded
  <2>1. /\ clock = 0 /\ key = [id |-> 0, born |-> 0] /\ old = <<>> /\ nonces = <<>>
        /\ failures = <<>> /\ sessions = <<>> /\ store = <<>> /\ lastPrune = -1 /\ gone = {}
    BY <1>1 DEF Admin!Init
  <2>2. /\ DOMAIN old = {} /\ DOMAIN nonces = {} /\ DOMAIN sessions = {} /\ DOMAIN store = {}
        /\ failures \in Seq(Int) /\ Len(failures) = 0
    BY <2>1
  <2>. QED BY <1>0, <2>1, <2>2 DEF AdminBounded
<1>2. ASSUME Vault, AdminBounded PROVE Admin!AccessTypeOK
  <2>1. KeysTyped /\ \A n \in Challenges : Challenge(n)
    BY <1>2 DEF Vault
  <2>2. clock \in 0 .. MaxClock /\ key \in [id : 0 .. MaxKeys, born : 0 .. MaxClock]
    BY <1>0, <1>2, <2>1 DEF KeysTyped, AdminBounded
  <2>3. Admin!Range(old) \subseteq Nat
    BY <2>1 DEF KeysTyped, Admin!Range
  <2>4. DOMAIN nonces \subseteq DOMAIN issued /\ \A n \in DOMAIN nonces : nonces[n] = issued[n]
    BY <1>2, <2>1 DEF Challenge, AdminBounded
  <2>5. lastPrune \in -1 .. MaxClock
    BY <1>0, <1>2, <2>1 DEF KeysTyped, AdminBounded
  <2>. QED BY <1>2, <2>1, <2>2, <2>3, <2>4, <2>5 DEF KeysTyped, AdminBounded, Admin!AccessTypeOK
<1>. QED BY <1>1, <1>2

-----------------------------------------------------------------------------
(* The types of the commands' rows, menus and refreshes. *)

\* Rows of the commands S that were written at most n times.
RowsUpTo(rows, S, n) ==
  rows \in [S -> CommandRow] /\ \A c \in S : rows[c].revision <= n + 1

\* A refresh of the commands S.
RefreshIn(S) ==
  [stage : {"idle", "default", "private", "done"}, menu : SUBSET S, alone : BOOLEAN]

\* The refreshes R, Telegram's menus and a pull, of the commands S.
Remote(refreshes, shown, pull, R, S) ==
  /\ refreshes \in [R -> RefreshIn(S)]
  /\ shown \in [Scopes -> SUBSET S] /\ pull.menu \in SUBSET S

\* A row that is written, renamed or deleted has the revision of the next write.
LEMMA RowWritten ==
  ASSUME NEW S, NEW n \in Nat, NEW rows, RowsUpTo(rows, S, n), NEW c \in S, NEW d \in S,
         NEW new \in CommandRow, new.revision <= n + 2
  PROVE  /\ RowsUpTo([rows EXCEPT ![c] = Commands!NoRow, ![d] = new], S, n + 1)
         /\ RowsUpTo([rows EXCEPT ![d] = new], S, n + 1)
         /\ RowsUpTo([rows EXCEPT ![c] = Commands!NoRow], S, n)
<1>1. Commands!NoRow \in CommandRow /\ Commands!NoRow.revision = 0
  BY NoRowTyped DEF Commands!NoRow
<1>2. \A x \in S : rows[x] \in CommandRow /\ rows[x].revision \in Nat
  BY DEF RowsUpTo, CommandRow
<1>. QED BY <1>1, <1>2 DEF RowsUpTo

\* A refresh that sets its scope or ends, and a pull, keep the type.
LEMMA RemoteStep ==
  ASSUME NEW refreshes, NEW shown, NEW pull, NEW R, NEW S,
         Remote(refreshes, shown, pull, R, S), NEW r \in R
  PROVE  /\ [refreshes EXCEPT ![r] = Menus!Quiet] \in [R -> RefreshIn(S)]
         /\ [refreshes EXCEPT ![r].stage = IF @ = "default" THEN "private" ELSE "done"]
              \in [R -> RefreshIn(S)]
         /\ refreshes[r].stage \in Scopes =>
              [shown EXCEPT ![refreshes[r].stage] = refreshes[r].menu] \in [Scopes -> SUBSET S]
         /\ [Menus!Quiet EXCEPT !.stage = "pulled", !.menu = shown.default].menu \in SUBSET S
<1>1. PICK was \in RefreshIn(S) : was = refreshes[r]
  BY DEF Remote
<1>2. PICK next \in {"private", "done"} :
        next = IF was.stage = "default" THEN "private" ELSE "done"
  OBVIOUS
<1>3. [was EXCEPT !.stage = next] \in RefreshIn(S) /\ was.menu \in SUBSET S
  BY DEF RefreshIn
<1>4. Menus!Quiet \in RefreshIn(S)
  BY DEF Menus!Quiet, RefreshIn
<1>5. [refreshes EXCEPT ![r] = Menus!Quiet] \in [R -> RefreshIn(S)]
  BY <1>4 DEF Remote
<1>6. [refreshes EXCEPT ![r] = [was EXCEPT !.stage = next]] \in [R -> RefreshIn(S)]
  BY <1>3 DEF Remote
<1>7. ASSUME refreshes[r].stage \in Scopes
      PROVE  [shown EXCEPT ![refreshes[r].stage] = refreshes[r].menu] \in [Scopes -> SUBSET S]
  <2>1. shown \in [Scopes -> SUBSET S] /\ refreshes[r].menu \in SUBSET S
    BY <1>1, <1>3 DEF Remote
  <2>. QED BY <1>7, <2>1
<1>8. shown["default"] \in SUBSET S
  BY DEF Remote, Scopes
<1>9. [Menus!Quiet EXCEPT !.stage = "pulled", !.menu = shown.default].menu = shown["default"]
  BY DEF Menus!Quiet
<1>. QED BY <1>1, <1>2, <1>5, <1>6, <1>7, <1>8, <1>9

\* A refresh that starts, and what that does to another one.
LEMMA RefreshStates ==
  ASSUME NEW S, NEW shown \in SUBSET S, NEW single \in BOOLEAN, NEW was \in RefreshIn(S)
  PROVE  /\ [stage |-> "default", menu |-> shown, alone |-> single] \in RefreshIn(S)
         /\ [was EXCEPT !.alone = FALSE] \in RefreshIn(S)
         /\ Menus!Quiet \in RefreshIn(S)
BY DEF RefreshIn, Menus!Quiet

\* The rows that administrators edit, and what Telegram shows of them.
CommandsBounded ==
  /\ writes <= MaxWrites /\ RowsUpTo(row, Defaults \cup Customs, writes)
  /\ Remote(refresh, menu, pulled, Idlers, Defaults \cup Customs)

\* No row counts further than the writes there were.
LEMMA CommandsRows ==
  ASSUME Rows, Pages, CommandsBounded, [Commands!Next]_commandVars
  PROVE  writes' <= MaxWrites /\ RowsUpTo(row, Defaults \cup Customs, writes)'
<1>0. /\ RowsTyped /\ writes \in Nat /\ MaxWrites \in Nat /\ writes <= MaxWrites
      /\ RowsUpTo(row, Defaults \cup Customs, writes)
      /\ \A c \in Defaults \cup Customs : row[c] \in CommandRow /\ row[c].revision \in Nat
  BY InterfacesAssumption
    DEF Rows, RowsTyped, CommandRow, CommandsBounded, RowsUpTo, Commands!BotCommandsAssumption
<1>1. writes' <= MaxWrites
  <2>1. CASE UNCHANGED writes
    BY <1>0, <2>1
  <2>2. CASE writes < MaxWrites /\ writes' = writes + 1
    BY <1>0, <2>2
  <2>. QED
    BY <2>1, <2>2 DEF Commands!Next, Commands!Load, Commands!Patch, Commands!Create,
       Commands!Delete, Commands!Reorder, Commands!Pull, Commands!Pulled, Commands!Refresh,
       Commands!SetScope, Commands!ScopeFails, Commands!Save, commandVars
<1>2. \A c \in Defaults \cup Customs :
        Commands!Current(c) \in CommandRow /\ Commands!Current(c).revision <= writes + 1
  <2>1. Commands!Default.revision = 0
    BY DEF Commands!Default, Commands!NoRow
  <2>. QED BY <1>0, <2>1, CurrentTyped DEF Commands!Current, RowsUpTo
<1>3. RowStep
  BY CommandStep
<1>4. ASSUME NEW c \in Defaults \cup Customs, NEW d \in Defaults \cup Customs, Edits(c, d)
      PROVE  RowsUpTo(row, Defaults \cup Customs, writes)'
  <2>1. PICK new \in CommandRow :
          /\ row' = [row EXCEPT ![c] = Commands!NoRow, ![d] = new] /\ writes' = writes + 1
          /\ new.revision = Commands!Current(c).revision + 1
    BY <1>4 DEF Edits
  <2>2. new.revision <= writes + 2
    BY <1>0, <1>2, <2>1 DEF CommandRow
  <2>3. RowsUpTo(row', Defaults \cup Customs, writes + 1)
    BY <1>0, <2>1, <2>2, RowWritten
  <2>. QED BY <2>1, <2>3 DEF RowsUpTo
<1>5. ASSUME NEW c \in Customs, Creates(c) PROVE RowsUpTo(row, Defaults \cup Customs, writes)'
  <2>1. PICK new \in CommandRow :
          /\ row' = [row EXCEPT ![c] = new] /\ writes' = writes + 1
          /\ new.revision = 1 + row[c].revision
    BY <1>5 DEF Creates
  <2>2. new.revision <= writes + 2
    BY <1>0, <2>1 DEF RowsUpTo
  <2>3. RowsUpTo(row', Defaults \cup Customs, writes + 1)
    BY <1>0, <2>1, <2>2, RowWritten
  <2>. QED BY <2>1, <2>3 DEF RowsUpTo
<1>6. ASSUME NEW c \in Customs, row' = [row EXCEPT ![c] = Commands!NoRow], UNCHANGED writes
      PROVE  RowsUpTo(row, Defaults \cup Customs, writes)'
  <2>1. row[c] \in CommandRow /\ row[c].revision <= writes + 2
    BY <1>0 DEF RowsUpTo
  <2>2. RowsUpTo(row', Defaults \cup Customs, writes)
    BY <1>0, <1>6, <2>1, RowWritten
  <2>. QED BY <1>6, <2>2 DEF RowsUpTo
<1>7. CASE WritesDefaults
  <2>1. ASSUME NEW c \in Defaults \cup Customs
        PROVE  row'[c] \in CommandRow /\ row'[c].revision <= writes + 2
    <3>1. row'[c] = row[c] \/ row'[c].revision = Commands!Current(c).revision + 1
      BY <1>7 DEF WritesDefaults
    <3>2. Commands!Current(c).revision \in Nat /\ Commands!Current(c).revision <= writes + 1
      BY <1>2 DEF CommandRow
    <3>3. row[c].revision <= writes + 2
      BY <1>0 DEF RowsUpTo
    <3>4. row'[c].revision <= writes + 2
      BY <1>0, <3>1, <3>2, <3>3
    <3>5. row' \in [Defaults \cup Customs -> CommandRow]
      BY <1>7 DEF WritesDefaults
    <3>. QED BY <3>4, <3>5
  <2>2. row' \in [Defaults \cup Customs -> CommandRow] /\ writes' = writes + 1
    BY <1>7 DEF WritesDefaults
  <2>3. writes' + 1 = writes + 2
    BY <1>0, <2>2
  <2>4. \A c \in Defaults \cup Customs : row'[c].revision <= writes' + 1
    BY <2>1, <2>3
  <2>. QED BY <1>1, <2>2, <2>4 DEF RowsUpTo
<1>8. CASE UNCHANGED <<row, writes>>
  BY <1>0, <1>1, <1>8 DEF RowsUpTo
<1>. QED BY <1>1, <1>3, <1>4, <1>5, <1>6, <1>7, <1>8 DEF RowStep

\* A refresh and a pull show Telegram's menus, of commands there are.
LEMMA CommandsRemote ==
  ASSUME CommandsBounded, [Commands!Next]_commandVars
  PROVE  Remote(refresh, menu, pulled, Idlers, Defaults \cup Customs)'
<1>. DEFINE S == Defaults \cup Customs
<1>0. /\ Remote(refresh, menu, pulled, Idlers, S) /\ Commands!Quiet = Menus!Quiet
      /\ Menus!Quiet.menu \in SUBSET S
  BY DEF CommandsBounded, Commands!Quiet, Menus!Quiet
<1>1. CASE UNCHANGED <<refresh, menu, pulled>>
  BY <1>0, <1>1 DEF Remote
<1>2. CASE Commands!Pulled
  BY <1>0, <1>2 DEF Commands!Pulled, Remote
<1>3. ASSUME NEW r \in Idlers, Commands!Refresh(r) PROVE Remote(refresh, menu, pulled, Idlers, S)'
  <2>1. PICK available \in BOOLEAN :
          refresh' = [q \in Idlers |->
              IF q = r THEN [stage |-> "default", menu |-> Commands!Visible(available),
                             alone |-> \A p \in Idlers : ~ Commands!Busy(p)]
              ELSE IF Commands!Busy(q) THEN [refresh[q] EXCEPT !.alone = FALSE]
              ELSE Commands!Quiet]
    BY <1>3 DEF Commands!Refresh
  <2>2. Commands!Visible(available) \in SUBSET S /\ UNCHANGED <<menu, pulled>>
    BY <1>3 DEF Commands!Visible, Commands!Names, Commands!Refresh
  <2>3. PICK single \in BOOLEAN : single = \A p \in Idlers : ~ Commands!Busy(p)
    OBVIOUS
  <2>4. /\ refresh' = [q \in Idlers |-> refresh'[q]]
        /\ \A q \in Idlers :
             \/ refresh'[q] = [stage |-> "default", menu |-> Commands!Visible(available),
                               alone |-> single]
             \/ refresh'[q] = [refresh[q] EXCEPT !.alone = FALSE]
             \/ refresh'[q] = Menus!Quiet
    BY <1>0, <2>1, <2>3
  <2>5. refresh \in [Idlers -> RefreshIn(S)]
    BY <1>0 DEF Remote
  <2>. HIDE DEF S
  <2>6. refresh' \in [Idlers -> RefreshIn(S)]
    <3>1. PICK shown \in SUBSET S : shown = Commands!Visible(available)
      BY <2>2
    <3>2. ASSUME NEW q \in Idlers PROVE refresh'[q] \in RefreshIn(S)
      <4>1. PICK was \in RefreshIn(S) : was = refresh[q]
        BY <2>5
      <4>2. \/ refresh'[q] = [stage |-> "default", menu |-> shown, alone |-> single]
            \/ refresh'[q] = [was EXCEPT !.alone = FALSE] \/ refresh'[q] = Menus!Quiet
        BY <2>4, <3>1, <4>1
      <4>. QED BY <4>2, RefreshStates
    <3>. QED BY <2>4, <3>2
  <2>. QED BY <1>0, <2>2, <2>6 DEF Remote
<1>4. ASSUME NEW r \in Idlers, Commands!SetScope(r) \/ Commands!ScopeFails(r)
      PROVE  Remote(refresh, menu, pulled, Idlers, S)'
  <2>1. /\ UNCHANGED pulled /\ refresh[r].stage \in Scopes
        /\ \/ /\ menu' = [menu EXCEPT ![refresh[r].stage] = refresh[r].menu]
              /\ refresh' = [refresh EXCEPT ![r].stage = IF @ = "default" THEN "private"
                                                        ELSE "done"]
           \/ UNCHANGED menu /\ refresh' = [refresh EXCEPT ![r] = Menus!Quiet]
    BY <1>0, <1>4 DEF Commands!SetScope, Commands!ScopeFails, Commands!Busy, Scopes
  <2>. HIDE DEF S
  <2>2. /\ [refresh EXCEPT ![r] = Menus!Quiet] \in [Idlers -> RefreshIn(S)]
        /\ [refresh EXCEPT ![r].stage = IF @ = "default" THEN "private" ELSE "done"]
             \in [Idlers -> RefreshIn(S)]
        /\ [menu EXCEPT ![refresh[r].stage] = refresh[r].menu] \in [Scopes -> SUBSET S]
    BY <1>0, <2>1, RemoteStep
  <2>. QED BY <1>0, <2>1, <2>2 DEF Remote
<1>5. CASE Commands!Pull
  <2>1. pulled' = [Menus!Quiet EXCEPT !.stage = "pulled", !.menu = menu.default]
        /\ UNCHANGED <<refresh, menu>>
    BY <1>0, <1>5 DEF Commands!Pull
  <2>2. pulled'.menu = menu["default"]
    BY <2>1 DEF Menus!Quiet
  <2>. QED BY <1>0, <2>1, <2>2 DEF Remote, Scopes
<1>. QED
  BY <1>1, <1>2, <1>3, <1>4, <1>5 DEF Commands!Next, Commands!Load, Commands!Patch,
     Commands!Create, Commands!Delete, Commands!Reorder, Commands!remote, commandVars

\* A function on the two scopes is a record of them.
LEMMA ShownTyped ==
  ASSUME NEW S, NEW shown \in [Scopes -> SUBSET S]
  PROVE  shown \in [default : SUBSET S, private : SUBSET S]
<1>1. PICK a, b : a = shown["default"] /\ b = shown["private"]
  OBVIOUS
<1>2. shown = [s \in {"default", "private"} |-> shown[s]]
  BY DEF Scopes
<1>3. shown = [default |-> a, private |-> b]
  BY ONLY <1>1, <1>2
<1>4. a \in SUBSET S /\ b \in SUBSET S
  BY <1>1 DEF Scopes
<1>. QED BY <1>3, <1>4

\* Rows, Pages and the bounds are the type of the commands that are edited.
LEMMA CommandsTypes ==
  /\ Commands!Init => CommandsBounded
  /\ Rows /\ Pages /\ CommandsBounded => Commands!CommandsTypeOK
<1>0. MaxWrites \in Nat
  BY InterfacesAssumption DEF Commands!BotCommandsAssumption
<1>1. ASSUME Commands!Init PROVE CommandsBounded
  <2>1. RowsTyped /\ writes = 0
    BY <1>1, CommandsInit DEF Rows, Commands!Init
  <2>2. \A c \in Defaults \cup Customs : row[c].revision <= 1
    <3>1. CASE row = [c \in Defaults \cup Customs |-> Commands!NoRow]
      BY <3>1 DEF Commands!NoRow
    <3>2. ASSUME NEW d \in Customs, NEW r,
                 r = [Commands!Default EXCEPT !.revision = 1, !.kind = "javascript",
                                              !.config = "corrupt"],
                 row = [c \in Defaults \cup Customs |-> IF c = d THEN r ELSE Commands!NoRow]
          PROVE  \A c \in Defaults \cup Customs : row[c].revision <= 1
      BY <3>2 DEF Commands!Default, Commands!NoRow
    <3>. QED BY <1>1, <3>1, <3>2 DEF Commands!Init, Commands!Names
  <2>3. menu = [default |-> {}, private |-> {}] /\ refresh = [r \in Idlers |-> Commands!Quiet]
        /\ pulled = Commands!Quiet
    BY <1>1 DEF Commands!Init
  <2>4. menu \in [Scopes -> SUBSET (Defaults \cup Customs)]
    BY <2>3 DEF Scopes
  <2>5. Commands!Quiet \in RefreshIn(Defaults \cup Customs)
        /\ Commands!Quiet.menu \in SUBSET (Defaults \cup Customs)
    BY DEF Commands!Quiet, RefreshIn
  <2>. QED BY <1>0, <2>1, <2>2, <2>3, <2>4, <2>5 DEF CommandsBounded, RowsTyped, RowsUpTo, Remote
<1>2. ASSUME Rows, Pages, CommandsBounded PROVE Commands!CommandsTypeOK
  <2>1. /\ writes \in 0 .. MaxWrites /\ RowsUpTo(row, Commands!Names, writes)
        /\ Remote(refresh, menu, pulled, Idlers, Commands!Names)
    BY <1>0, <1>2 DEF Rows, RowsTyped, CommandsBounded, Commands!Names
  <2>2. ASSUME NEW c \in Commands!Names
        PROVE  /\ row[c].kind \in Commands!Kinds /\ row[c].config \in Commands!Configs
               /\ row[c].confirmed \in {"no", "a", "b"}
               /\ row[c].revision \in 0 .. MaxWrites + 1
               /\ row[c].enabled \in BOOLEAN /\ row[c].visible \in BOOLEAN
    <3>1. row[c] \in CommandRow /\ row[c].revision <= writes + 1
      BY <2>1 DEF RowsUpTo
    <3>. QED BY <1>0, <2>1, <3>1 DEF CommandRow
  <2>3. \A e \in Administrators : loaded[e] = <<>> \/ loaded[e][1] \in Commands!Names
    BY <1>2 DEF Pages, Commands!Names
  <2>4. menu \in [default : SUBSET Commands!Names, private : SUBSET Commands!Names]
    BY <2>1, ShownTyped DEF Remote
  <2>. QED BY <2>1, <2>2, <2>3, <2>4 DEF Remote, RefreshIn, Commands!CommandsTypeOK
<1>. QED BY <1>1, <1>2

-----------------------------------------------------------------------------
(* The types of the rows whose menus are refreshed, and of all the state. *)

\* The rows whose menus are refreshed while they are edited.
MenusBounded ==
  /\ menuWrites \in Nat /\ menuWrites <= MaxWrites /\ RowsUpTo(menuRow, Names, menuWrites)
  /\ onScreen = [e \in Administrators |-> onScreen[e]]
  /\ \A e \in Administrators : onScreen[e] = <<>> \/ onScreen[e][1] \in Names
  /\ Remote(refreshing, menus, pulling, Refreshers, Names)

\* A default without a row is a row of no write.
LEMMA MenuCurrent ==
  ASSUME MenusBounded, NEW c \in Names
  PROVE  /\ Menus!Current(c) \in CommandRow /\ menuRow[c] \in CommandRow
         /\ Menus!Current(c).revision <= menuWrites + 1
<1>1. Menus!Default \in CommandRow /\ Menus!Default.revision = 0
  BY DEF Menus!Default, Menus!NoRow, CommandRow, Commands!Kinds, Commands!Configs
<1>2. menuRow[c] \in CommandRow /\ menuRow[c].revision <= menuWrites + 1 /\ menuWrites \in Nat
  BY DEF MenusBounded, RowsUpTo
<1>. QED BY <1>1, <1>2 DEF Menus!Current

\* What _transform makes of a row is a row of the next revision.
LEMMA MenuTransformed ==
  ASSUME MenusBounded, NEW c \in Names, NEW change \in Menus!Changes,
         NEW create \in BOOLEAN, NEW new \in Menus!Transform(c, change, create)
  PROVE  new \in CommandRow /\ new.revision <= menuWrites + 2
<1>. PICK cur : cur = Menus!Current(c)
  OBVIOUS
<1>. PICK kind : kind = Menus!Pick(change.kind, cur.kind)
  OBVIOUS
<1>. PICK config :
       config = Menus!Pick(change.config, IF cur.config = "corrupt" THEN "empty" ELSE cur.config)
  OBVIOUS
<1>. PICK approved : approved = Menus!Confirmation(c, change, kind, config)
  OBVIOUS
<1>1. /\ cur \in CommandRow /\ menuRow[c] \in CommandRow /\ menuWrites \in Nat
      /\ cur.revision <= menuWrites + 1
  BY MenuCurrent DEF MenusBounded
<1>2. kind \in Commands!Kinds /\ config \in Commands!Configs /\ change.confirm \in BOOLEAN
  BY <1>1 DEF Menus!Pick, Menus!Keep, Menus!Changes, CommandRow, Commands!Kinds, Commands!Configs
<1>3. PICK enabled \in BOOLEAN, preserve \in BOOLEAN :
        /\ new = [cur EXCEPT !.revision = @ + 1, !.enabled = enabled, !.visible = create \/ @,
                             !.kind = kind, !.config = IF preserve THEN @ ELSE config,
                             !.confirmed = approved, !.write = menuWrites + 1,
                             !.born = IF create THEN menuWrites + 1 ELSE @]
        /\ change.confirm => kind = "python" /\ Menus!CodeHash(config) # "none"
  <2>1. PICK changed \in BOOLEAN :
          changed = (kind = "python" /\ (cur.kind # kind \/
                       Menus!CodeHash(cur.config) # Menus!CodeHash(config)))
    OBVIOUS
  <2>2. PICK enabled \in BOOLEAN :
          enabled = IF change.enabled = "keep" THEN ~ changed /\ cur.enabled
                    ELSE change.enabled = "yes"
    BY <1>1 DEF CommandRow
  <2>3. PICK preserve \in BOOLEAN :
          preserve = (~ create /\ c \in Unlisted /\ ~ enabled /\ change.kind = "keep"
                        /\ change.config = "keep")
    OBVIOUS
  <2>. WITNESS enabled \in BOOLEAN, preserve \in BOOLEAN
  <2>. QED
    BY <2>1, <2>2, <2>3 DEF Menus!Transform, Menus!Keep
<1>4. approved \in {"no", "a", "b"}
  BY <1>1, <1>2, <1>3 DEF Menus!Confirmation, Menus!CodeHash, CommandRow
<1>5. PICK visible \in BOOLEAN : visible = (create \/ cur.visible)
  BY <1>1 DEF CommandRow
<1>6. PICK stored \in Commands!Configs : stored = IF preserve THEN cur.config ELSE config
  BY <1>1, <1>2 DEF CommandRow
<1>7. PICK write \in Nat, born \in Nat :
        write = menuWrites + 1 /\ born = IF create THEN menuWrites + 1 ELSE cur.born
  BY <1>1 DEF CommandRow
<1>8. new = [cur EXCEPT !.revision = @ + 1, !.enabled = enabled, !.visible = visible,
                        !.kind = kind, !.config = stored, !.confirmed = approved,
                        !.write = write, !.born = born]
  BY <1>1, <1>3, <1>5, <1>6, <1>7 DEF CommandRow
<1>9. new \in CommandRow /\ new.revision = cur.revision + 1
  <2>1. cur \in CommandRow /\ kind \in Commands!Kinds /\ approved \in {"no", "a", "b"}
    BY <1>1, <1>2, <1>4
  <2>0. PICK number \in Nat : number = cur.revision + 1
    BY <1>1 DEF CommandRow
  <2>. DEFINE written == [cur EXCEPT !.revision = number, !.enabled = enabled,
                                     !.visible = visible, !.kind = kind, !.config = stored,
                                     !.confirmed = approved, !.write = write, !.born = born]
  <2>2. written \in CommandRow /\ written.revision = number
    BY ONLY <2>1 DEF CommandRow
  <2>. QED BY <1>8, <2>0, <2>2
<1>. QED BY <1>1, <1>9 DEF CommandRow

\* Every write of the rows leaves rows of the next number of writes.
MenuRowsWritten == RowsUpTo(menuRow', Names, menuWrites + 1) /\ menuWrites' = menuWrites + 1

\* An edit, a new command, and the writes of the default commands.
LEMMA MenuPatch ==
  ASSUME MenusBounded, NEW e, NEW target \in Names, onScreen[e][1] \in Names,
         Menus!Patch(e, target)
  PROVE  MenuRowsWritten
<1>1. PICK c \in Names : c = onScreen[e][1]
  OBVIOUS
<1>2. PICK change \in Menus!Changes, create \in BOOLEAN :
        ~ create /\
        \E new \in Menus!Transform(c, change, create) :
          /\ menuRow' = [menuRow EXCEPT ![c] = Menus!NoRow, ![target] = new]
          /\ menuWrites' = menuWrites + 1
  BY <1>1 DEF Menus!Patch, Menus!Save
<1>3. PICK new \in Menus!Transform(c, change, create) :
        /\ menuRow' = [menuRow EXCEPT ![c] = Menus!NoRow, ![target] = new]
        /\ menuWrites' = menuWrites + 1
  BY <1>2
<1>4. new \in CommandRow /\ new.revision <= menuWrites + 2
  BY <1>3, MenuTransformed
<1>5. Menus!NoRow = Commands!NoRow /\ menuWrites \in Nat /\ RowsUpTo(menuRow, Names, menuWrites)
  BY DEF Menus!NoRow, Commands!NoRow, MenusBounded
<1>. QED BY <1>3, <1>4, <1>5, RowWritten DEF MenuRowsWritten

LEMMA MenuCreate ==
  ASSUME MenusBounded, NEW c \in Unlisted, Menus!Create(c)
  PROVE  MenuRowsWritten
<1>1. PICK change \in Menus!Changes, create \in BOOLEAN :
        create /\
        \E new \in Menus!Transform(c, change, create) :
          menuRow' = [menuRow EXCEPT ![c] = new] /\ menuWrites' = menuWrites + 1
  BY DEF Menus!Create, Menus!Save
<1>2. PICK new \in Menus!Transform(c, change, create) :
        menuRow' = [menuRow EXCEPT ![c] = new] /\ menuWrites' = menuWrites + 1
  BY <1>1
<1>3. new \in CommandRow /\ new.revision <= menuWrites + 2 /\ c \in Names
  BY <1>2, MenuTransformed DEF Names
<1>4. menuWrites \in Nat /\ RowsUpTo(menuRow, Names, menuWrites)
  BY DEF MenusBounded
<1>. QED BY <1>2, <1>3, <1>4, RowWritten DEF MenuRowsWritten

LEMMA MenuDefaults ==
  ASSUME MenusBounded, Menus!Reorder \/ Menus!Pulled
  PROVE  MenuRowsWritten
<1>0. PICK w \in Nat : w = menuWrites + 1
  BY DEF MenusBounded
<1>1. \A c \in Names : menuRow[c] \in CommandRow /\ menuRow[c].revision <= menuWrites + 1
  BY DEF MenusBounded, RowsUpTo
<1>2. menuWrites \in Nat /\ w + 1 = menuWrites + 2 /\ Menus!Names = Names
  BY <1>0 DEF MenusBounded, Menus!Names, Names
<1>3. SUFFICES ASSUME NEW c \in Names
               PROVE  /\ menuRow'[c] \in CommandRow /\ menuRow'[c].revision <= w + 1
                      /\ menuRow' = [d \in Names |-> menuRow'[d]]
                      /\ menuWrites' = menuWrites + 1
  <2>1. menuRow' = [d \in Names |-> menuRow'[d]] /\ menuWrites' = menuWrites + 1
    BY <1>2 DEF Menus!Reorder, Menus!Pulled, Menus!Save
  <2>. QED BY <1>0, <1>3, <2>1 DEF MenuRowsWritten, RowsUpTo
<1>4. menuRow[c] \in CommandRow /\ menuRow[c].revision <= w + 1
  <2>1. menuRow[c] \in CommandRow /\ menuRow[c].revision \in Nat
    BY <1>1 DEF CommandRow
  <2>. QED BY <1>1, <1>2, <2>1
<1>5. CASE Menus!Reorder
  <2>1. Menus!Default \in CommandRow
    BY DEF Menus!Default, Menus!NoRow, CommandRow, Commands!Kinds, Commands!Configs
  <2>. DEFINE first == [Menus!Default EXCEPT !.revision = 1, !.write = w]
  <2>2. first \in CommandRow /\ first.revision = 1
    BY ONLY <2>1 DEF CommandRow
  <2>3. /\ menuRow' = [d \in Names |->
                         IF d \in Listed /\ ~ Menus!Stored(d) THEN first ELSE menuRow[d]]
        /\ menuWrites' = menuWrites + 1
    BY <1>0, <1>2, <1>5 DEF Menus!Reorder, Menus!Save
  <2>. HIDE DEF first
  <2>4. menuRow'[c] = first \/ menuRow'[c] = menuRow[c]
    BY <2>3
  <2>5. 1 <= w + 1
    OBVIOUS
  <2>. QED BY <1>4, <2>2, <2>3, <2>4, <2>5
<1>6. CASE Menus!Pulled
  <2>1. PICK shown \in BOOLEAN : shown <=> (c \in pulling.menu)
    <3>1. CASE c \in pulling.menu
      BY <3>1
    <3>2. CASE c \notin pulling.menu
      BY <3>2
    <3>. QED BY <3>1, <3>2
  <2>2. PICK cur \in CommandRow : cur = Menus!Current(c) /\ cur.revision <= menuWrites + 1
    BY MenuCurrent
  <2>3. PICK number \in Nat : number = cur.revision + 1
    BY DEF CommandRow
  <2>4. number <= w + 1
    BY <1>2, <2>2, <2>3 DEF CommandRow
  <2>. DEFINE next == [cur EXCEPT !.revision = number, !.write = w, !.visible = shown]
  <2>5. next \in CommandRow /\ next.revision = number
    BY DEF CommandRow
  <2>6. /\ menuRow' = [d \in Names |->
               IF d \in Unlisted THEN menuRow[d]
               ELSE [Menus!Current(d) EXCEPT !.revision = @ + 1, !.write = menuWrites + 1,
                                             !.visible = d \in pulling.menu]]
        /\ menuWrites' = menuWrites + 1
    BY <1>2, <1>6 DEF Menus!Pulled, Menus!Save
  <2>7. menuRow'[c] = next \/ menuRow'[c] = menuRow[c]
    <3>1. CASE c \in Unlisted
      BY <2>6, <3>1
    <3>2. CASE c \notin Unlisted
      <4>1. menuRow'[c] = [cur EXCEPT !.revision = @ + 1, !.write = menuWrites + 1,
                                      !.visible = c \in pulling.menu]
        BY <2>2, <2>6, <3>2
      <4>2. (c \in pulling.menu) = shown
        <5>1. CASE c \in pulling.menu
          BY <2>1, <5>1
        <5>2. CASE c \notin pulling.menu
          BY <2>1, <5>2
        <5>. QED BY <5>1, <5>2
      <4>. QED BY <1>0, <2>3, <4>1, <4>2
    <3>. QED BY <3>1, <3>2
  <2>. HIDE DEF next
  <2>. QED BY <1>4, <2>4, <2>5, <2>6, <2>7
<1>. QED BY <1>5, <1>6

\* One step: what it leaves on the screens, and whether it wrote rows.
LEMMA MenuScreens ==
  ASSUME MenusBounded, [Menus!Next]_menuVars
  PROVE  /\ onScreen' = [e \in Administrators |-> onScreen'[e]]
         /\ \A e \in Administrators : onScreen'[e] = <<>> \/ onScreen'[e][1] \in Names
         /\ \/ UNCHANGED <<menuRow, menuWrites>>
            \/ MenuRowsWritten /\ menuWrites < MaxWrites
            \/ \E c \in Names :
                 menuRow' = [menuRow EXCEPT ![c] = Menus!NoRow] /\ UNCHANGED menuWrites
<1>0. /\ onScreen = [e \in Administrators |-> onScreen[e]]
      /\ \A e \in Administrators : onScreen[e] = <<>> \/ onScreen[e][1] \in Names
      /\ Menus!Names = Names
  BY DEF MenusBounded, Menus!Names, Names
<1>1. CASE UNCHANGED <<onScreen, menuRow, menuWrites>>
  BY <1>0, <1>1
<1>2. ASSUME NEW e \in Administrators, NEW c \in Names, Menus!Load(e, c)
      PROVE  /\ onScreen' = [x \in Administrators |-> onScreen'[x]]
             /\ \A x \in Administrators : onScreen'[x] = <<>> \/ onScreen'[x][1] \in Names
             /\ UNCHANGED <<menuRow, menuWrites>>
  <2>1. PICK page : page = <<c, Menus!Current(c)>>
    OBVIOUS
  <2>2. page[1] \in Names
    BY <2>1
  <2>3. onScreen' = [onScreen EXCEPT ![e] = page] /\ UNCHANGED <<menuRow, menuWrites>>
    BY <1>2, <2>1 DEF Menus!Load
  <2>. QED BY <1>0, <2>2, <2>3
<1>3. ASSUME NEW e \in Administrators, NEW c \in Names, Menus!Patch(e, c)
      PROVE  /\ onScreen' = [x \in Administrators |-> onScreen'[x]]
             /\ \A x \in Administrators : onScreen'[x] = <<>> \/ onScreen'[x][1] \in Names
             /\ MenuRowsWritten /\ menuWrites < MaxWrites
  <2>1. /\ onScreen' = [onScreen EXCEPT ![e] = <<>>] /\ menuWrites < MaxWrites
        /\ onScreen[e][1] \in Names
    BY <1>0, <1>3 DEF Menus!Patch, Menus!Save
  <2>. QED BY <1>0, <1>3, <2>1, MenuPatch
<1>4. ASSUME NEW c \in Unlisted, Menus!Create(c)
      PROVE  MenuRowsWritten /\ menuWrites < MaxWrites /\ UNCHANGED onScreen
  <2>1. menuWrites < MaxWrites /\ UNCHANGED onScreen
    BY <1>4 DEF Menus!Create, Menus!Save
  <2>. QED BY <1>4, <2>1, MenuCreate
<1>5. ASSUME NEW c \in Unlisted, Menus!Delete(c)
      PROVE  /\ menuRow' = [menuRow EXCEPT ![c] = Menus!NoRow] /\ c \in Names
             /\ UNCHANGED <<menuWrites, onScreen>>
  BY <1>5 DEF Menus!Delete, Names
<1>6. CASE Menus!Reorder \/ Menus!Pulled
  <2>1. menuWrites < MaxWrites /\ UNCHANGED onScreen
    BY <1>6 DEF Menus!Reorder, Menus!Pulled, Menus!Save
  <2>. QED BY <1>0, <1>6, <2>1, MenuDefaults
<1>7. CASE Menus!Pull \/ \E r \in Refreshers :
             Menus!Refresh(r) \/ Menus!SetScope(r) \/ Menus!ScopeFails(r)
  BY <1>1, <1>7 DEF Menus!Pull, Menus!Refresh, Menus!SetScope, Menus!ScopeFails
<1>8. CASE UNCHANGED menuVars
  BY <1>1, <1>8 DEF menuVars
<1>. QED
  BY <1>0, <1>1, <1>2, <1>3, <1>4, <1>5, <1>6, <1>7, <1>8 DEF Menus!Next

\* As CommandsRemote, for the refreshes of these rows.
LEMMA MenusRemote ==
  ASSUME MenusBounded, [Menus!Next]_menuVars
  PROVE  Remote(refreshing, menus, pulling, Refreshers, Names)'
<1>0. /\ Remote(refreshing, menus, pulling, Refreshers, Names) /\ Menus!Quiet.menu \in SUBSET Names
  BY DEF MenusBounded, Menus!Quiet
<1>1. CASE UNCHANGED <<refreshing, menus, pulling>>
  BY <1>0, <1>1 DEF Remote
<1>2. CASE Menus!Pulled
  BY <1>0, <1>2 DEF Menus!Pulled, Remote
<1>3. ASSUME NEW r \in Refreshers, Menus!Refresh(r)
      PROVE  Remote(refreshing, menus, pulling, Refreshers, Names)'
  <2>1. PICK available \in BOOLEAN :
          refreshing' = [q \in Refreshers |->
              IF q = r THEN [stage |-> "default", menu |-> Menus!Visible(available),
                             alone |-> \A p \in Refreshers : ~ Menus!Busy(p)]
              ELSE IF Menus!Busy(q) THEN [refreshing[q] EXCEPT !.alone = FALSE]
              ELSE Menus!Quiet]
    BY <1>3 DEF Menus!Refresh
  <2>2. Menus!Visible(available) \in SUBSET Names /\ UNCHANGED <<menus, pulling>>
    BY <1>3 DEF Menus!Visible, Menus!Names, Names, Menus!Refresh
  <2>3. PICK single \in BOOLEAN : single = \A p \in Refreshers : ~ Menus!Busy(p)
    OBVIOUS
  <2>4. /\ refreshing' = [q \in Refreshers |-> refreshing'[q]]
        /\ \A q \in Refreshers :
             \/ refreshing'[q] = [stage |-> "default", menu |-> Menus!Visible(available),
                               alone |-> single]
             \/ refreshing'[q] = [refreshing[q] EXCEPT !.alone = FALSE]
             \/ refreshing'[q] = Menus!Quiet
    BY <1>0, <2>1, <2>3
  <2>5. refreshing \in [Refreshers -> RefreshIn(Names)]
    BY <1>0 DEF Remote
  <2>6. refreshing' \in [Refreshers -> RefreshIn(Names)]
    <3>1. PICK shown \in SUBSET Names : shown = Menus!Visible(available)
      BY <2>2
    <3>2. ASSUME NEW q \in Refreshers PROVE refreshing'[q] \in RefreshIn(Names)
      <4>1. PICK was \in RefreshIn(Names) : was = refreshing[q]
        BY <2>5
      <4>2. \/ refreshing'[q] = [stage |-> "default", menu |-> shown, alone |-> single]
            \/ refreshing'[q] = [was EXCEPT !.alone = FALSE] \/ refreshing'[q] = Menus!Quiet
        BY <2>4, <3>1, <4>1
      <4>. QED BY <4>2, RefreshStates
    <3>. QED BY <2>4, <3>2
  <2>. QED BY <1>0, <2>2, <2>6 DEF Remote
<1>4. ASSUME NEW r \in Refreshers, Menus!SetScope(r) \/ Menus!ScopeFails(r)
      PROVE  Remote(refreshing, menus, pulling, Refreshers, Names)'
  <2>1. /\ UNCHANGED pulling /\ refreshing[r].stage \in Scopes
        /\ \/ /\ menus' = [menus EXCEPT ![refreshing[r].stage] = refreshing[r].menu]
              /\ refreshing' = [refreshing EXCEPT ![r].stage = IF @ = "default" THEN "private"
                                                              ELSE "done"]
           \/ UNCHANGED menus /\ refreshing' = [refreshing EXCEPT ![r] = Menus!Quiet]
    BY <1>0, <1>4 DEF Menus!SetScope, Menus!ScopeFails, Menus!Busy, Scopes
  <2>2. /\ [refreshing EXCEPT ![r] = Menus!Quiet] \in [Refreshers -> RefreshIn(Names)]
        /\ [refreshing EXCEPT ![r].stage = IF @ = "default" THEN "private" ELSE "done"]
             \in [Refreshers -> RefreshIn(Names)]
        /\ [menus EXCEPT ![refreshing[r].stage] = refreshing[r].menu] \in [Scopes -> SUBSET Names]
    BY <1>0, <2>1, RemoteStep
  <2>. QED BY <1>0, <2>1, <2>2 DEF Remote
<1>5. CASE Menus!Pull
  <2>1. pulling' = [Menus!Quiet EXCEPT !.stage = "pulled", !.menu = menus.default]
        /\ UNCHANGED <<refreshing, menus>>
    BY <1>0, <1>5 DEF Menus!Pull
  <2>2. pulling'.menu = menus["default"]
    BY <2>1 DEF Menus!Quiet
  <2>. QED BY <1>0, <2>1, <2>2 DEF Remote, Scopes
<1>. QED
  BY <1>1, <1>2, <1>3, <1>4, <1>5 DEF Menus!Next, Menus!Load, Menus!Patch,
     Menus!Create, Menus!Delete, Menus!Reorder, Menus!remote, menuVars

\* The bounds are an invariant of their own here, and the type.
LEMMA MenusTypes ==
  /\ Menus!Init => MenusBounded
  /\ MenusBounded /\ [Menus!Next]_menuVars => MenusBounded'
  /\ MenusBounded => Menus!CommandsTypeOK
<1>0. MaxWrites \in Nat /\ Menus!Names = Names
  BY InterfacesAssumption DEF Menus!BotCommandsAssumption, Menus!Names, Names
<1>1. ASSUME Menus!Init PROVE MenusBounded
  <2>1. menuRow \in [Names -> CommandRow] /\ \A c \in Names : menuRow[c].revision <= 1
    <3>0. Menus!Default \in CommandRow /\ Menus!NoRow \in CommandRow /\ Menus!NoRow.revision = 0
      BY DEF Menus!Default, Menus!NoRow, CommandRow, Commands!Kinds, Commands!Configs
    <3>1. CASE menuRow = [c \in Names |-> Menus!NoRow]
      BY <3>0, <3>1
    <3>2. ASSUME NEW d \in Unlisted, NEW r,
                 r = [Menus!Default EXCEPT !.revision = 1, !.kind = "javascript",
                                           !.config = "corrupt"],
                 menuRow = [c \in Names |-> IF c = d THEN r ELSE Menus!NoRow]
          PROVE  menuRow \in [Names -> CommandRow] /\ \A c \in Names : menuRow[c].revision <= 1
      <4>1. r \in CommandRow /\ r.revision = 1
        BY <3>0, <3>2 DEF CommandRow, Commands!Kinds, Commands!Configs
      <4>. QED BY <3>0, <3>2, <4>1
    <3>. QED BY <1>0, <1>1, <3>1, <3>2 DEF Menus!Init
  <2>2. /\ menus = [default |-> {}, private |-> {}] /\ pulling = Menus!Quiet
        /\ refreshing = [r \in Refreshers |-> Menus!Quiet] /\ menuWrites = 0
        /\ onScreen = [e \in Administrators |-> <<>>]
    BY <1>1 DEF Menus!Init
  <2>3. menus \in [Scopes -> SUBSET Names]
    BY <2>2 DEF Scopes
  <2>4. Menus!Quiet \in RefreshIn(Names) /\ Menus!Quiet.menu \in SUBSET Names
    BY DEF Menus!Quiet, RefreshIn
  <2>. QED BY <1>0, <2>1, <2>2, <2>3, <2>4 DEF MenusBounded, RowsUpTo, Remote
<1>2. ASSUME MenusBounded, [Menus!Next]_menuVars PROVE MenusBounded'
  <2>1. /\ menuWrites \in Nat /\ menuWrites <= MaxWrites
        /\ RowsUpTo(menuRow, Names, menuWrites)
    BY <1>2 DEF MenusBounded
  <2>2. menuWrites' \in Nat /\ menuWrites' <= MaxWrites /\ RowsUpTo(menuRow, Names, menuWrites)'
    <3>1. CASE UNCHANGED <<menuRow, menuWrites>>
      BY <2>1, <3>1 DEF RowsUpTo
    <3>2. CASE MenuRowsWritten /\ menuWrites < MaxWrites
      BY <1>0, <2>1, <3>2 DEF MenuRowsWritten, RowsUpTo
    <3>3. ASSUME NEW c \in Names, menuRow' = [menuRow EXCEPT ![c] = Menus!NoRow],
                 UNCHANGED menuWrites
          PROVE  RowsUpTo(menuRow, Names, menuWrites)'
      <4>1. Menus!NoRow = Commands!NoRow /\ Commands!NoRow \in CommandRow
            /\ Commands!NoRow.revision = 0
        BY NoRowTyped DEF Menus!NoRow, Commands!NoRow
      <4>. QED BY <2>1, <3>3, <4>1 DEF RowsUpTo
    <3>. QED BY <1>2, <2>1, <3>1, <3>2, <3>3, MenuScreens
  <2>3. Remote(refreshing, menus, pulling, Refreshers, Names)'
    BY <1>2, MenusRemote
  <2>. QED BY <1>2, <2>2, <2>3, MenuScreens DEF MenusBounded
<1>3. ASSUME MenusBounded PROVE Menus!CommandsTypeOK
  <2>1. menuWrites \in 0 .. MaxWrites /\ Remote(refreshing, menus, pulling, Refreshers, Names)
    BY <1>0, <1>3 DEF MenusBounded
  <2>2. ASSUME NEW c \in Names
        PROVE  /\ menuRow[c].kind \in Menus!Kinds /\ menuRow[c].config \in Menus!Configs
               /\ menuRow[c].confirmed \in {"no", "a", "b"}
               /\ menuRow[c].revision \in 0 .. MaxWrites + 1
               /\ menuRow[c].enabled \in BOOLEAN /\ menuRow[c].visible \in BOOLEAN
    <3>1. menuRow[c] \in CommandRow /\ menuRow[c].revision <= menuWrites + 1
      BY <1>3 DEF MenusBounded, RowsUpTo
    <3>. QED
      BY <1>0, <2>1, <3>1
        DEF CommandRow, Menus!Kinds, Commands!Kinds, Menus!Configs, Commands!Configs
  <2>3. menus \in [default : SUBSET Names, private : SUBSET Names]
    BY <2>1, ShownTyped DEF Remote
  <2>. QED
    BY <1>0, <1>3, <2>1, <2>2, <2>3 DEF MenusBounded, Remote, RefreshIn, Menus!CommandsTypeOK
<1>. QED BY <1>1, <1>2, <1>3

\* Every component keeps its type: what the other invariants leave open are the
\* bounds of counters and queues, and which keys, tokens, codes, commands and
\* pages there can be.  The limiter of failed logins never holds more than its
\* number of them (RateLimiter), and no queue of the log outgrows its capacity.
THEOREM InterfacesTypeCorrect == Spec => []InterfacesTypeOK
<1>. DEFINE All == /\ Bindings /\ Points /\ BotBounded /\ Rows /\ Pages /\ CommandsBounded
                   /\ MenusBounded /\ Vault /\ AdminBounded /\ Streaming
                   /\ Fresh /\ EventsBounded /\ Library!LibraryTypeOK
<1>1. Init => All
  <2>1. Library!LibraryInit => Library!Init
    BY DEF Library!LibraryInit
  <2>. QED
    BY <2>1, BindingsInit, PointsInit, BotTypes, CommandsInit, CommandsTypes, MenusTypes,
       VaultInit, AdminTypes, StreamingInit, FreshInit, EventsTypes, LibraryTypes DEF Init
<1>2. All /\ [Next]_<<focus, accessVars, commandVars, menuVars, adminVars, logVars, eventVars,
                      libraryVars>> => All'
  <2>. SUFFICES ASSUME All, [Next]_<<focus, accessVars, commandVars, menuVars, adminVars,
                                     logVars, eventVars, libraryVars>>
                PROVE  All'
    OBVIOUS
  <2>0. /\ [Access!Next]_accessVars /\ [Commands!Next]_commandVars /\ [Menus!Next]_menuVars
        /\ [Admin!Next]_adminVars /\ [Log!Next]_logVars /\ [Events!Next]_eventVars
        /\ [Library!Next]_libraryVars
    BY DEF Next, AccessSteps, CommandSteps, MenuSteps, AdminSteps, LogSteps, EventSteps,
       LibrarySteps
  <2>1. Bindings' /\ Points' /\ BotBounded'
    BY <2>0, BindingsStep, PointsStep, BotTypes
  <2>2. Rows' /\ Pages' /\ MenusBounded'
    BY <2>0, CommandStep, RowsStep, PagesStep, MenusTypes
  <2>3. CommandsBounded'
    BY <2>0, CommandsRows, CommandsRemote DEF CommandsBounded
  <2>4. Vault' /\ AdminBounded'
    BY <2>0, VaultStep, AdminStep
  <2>5. Streaming' /\ Fresh' /\ EventsBounded' /\ Library!LibraryTypeOK'
    BY <2>0, StreamingStep, FreshStep, EventsTypes, LibraryTypes
  <2>. QED
    BY <2>1, <2>2, <2>3, <2>4, <2>5
<1>3. All => InterfacesTypeOK
  BY BotTypes, CommandsTypes, MenusTypes, AdminTypes, LogTypes, EventsTypes DEF InterfacesTypeOK
<1>. HIDE DEF All
<1>. QED
  BY <1>1, <1>2, <1>3, PTL DEF Spec
=============================================================================
