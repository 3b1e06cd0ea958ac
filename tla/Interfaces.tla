----------------------------- MODULE Interfaces -----------------------------
(***************************************************************************)
(* What users and administrators reach the program through, side by side:  *)
(* the access of the bot's users, the rows and menus of its commands, the  *)
(* administrator's login, the two event streams of the console and the     *)
(* message library.  They share no state, so a behaviour moves the one     *)
(* that "focus" names.                                                     *)
(***************************************************************************)
EXTENDS Naturals, Sequences, FiniteSets

VARIABLE focus

\* Users and codes of the bot.
CONSTANTS Users, Codes, CodeTTL, ConfirmTTL, Day, MaxPoints, MaxNow
VARIABLES now, code, binding, gate, range, point, press, confirm, acted, paid
Access == INSTANCE BotAccess WITH MaxTime <- MaxNow
accessVars == <<now, code, binding, gate, range, point, press, confirm, acted, paid>>

\* Commands that administrators edit.
CONSTANTS Defaults, Customs, Administrators, Idlers, MaxWrites
VARIABLES row, loaded, refresh, menu, pulled, writes
Commands == INSTANCE BotCommands WITH System <- Defaults, Custom <- Customs,
                                      Editors <- Administrators, Refreshers <- Idlers
commandVars == <<row, loaded, refresh, menu, pulled, writes>>

\* Commands whose menus are refreshed while they are edited.
CONSTANTS Listed, Unlisted, Refreshers
VARIABLES menuRow, onScreen, refreshing, menus, pulling, menuWrites
Menus == INSTANCE BotCommands WITH System <- Listed, Custom <- Unlisted,
  Editors <- Administrators, row <- menuRow, loaded <- onScreen, refresh <- refreshing,
  menu <- menus, pulled <- pulling, writes <- menuWrites
menuVars == <<menuRow, onScreen, refreshing, menus, pulling, menuWrites>>

\* The administrator's login.
CONSTANTS Challenges, Tokens, Rotation, Grace, NonceTTL, Skew, Lifetime, PruneEvery,
          MaxFailures, FailureWindow, MaxClock, MaxKeys
VARIABLES clock, key, old, nonces, issued, used, failures, sessions, store, lastPrune, gone
Admin == INSTANCE AdminAccess WITH MaxTime <- MaxClock
adminVars == <<clock, key, old, nonces, issued, used, failures, sessions, store, lastPrune, gone>>

\* The streams of the console.
CONSTANTS Streams, Capacity, Backups, MaxLines, MaxFiles, Runs, MaxChanges
VARIABLES files, cursors, poll, read, published, queue, state, last
Log == INSTANCE LogStream WITH Subs <- Streams
logVars == <<files, cursors, poll, read, published, queue, state, last>>

VARIABLES changes, announced, owes, sequence, notice, at, taken, sent
Events == INSTANCE TaskEvents WITH queue <- notice
eventVars == <<changes, announced, owes, sequence, notice, at, taken, sent>>

\* The message library.
CONSTANTS Editors, MaxRevision
VARIABLES group, editor, draft, version
Library == INSTANCE MessageLibrary
libraryVars == <<group, editor, draft, version>>

ASSUME InterfacesAssumption ==
  /\ Access!BotAccessAssumption
  /\ Commands!BotCommandsAssumption /\ Menus!BotCommandsAssumption
  /\ Admin!AccessAssumption
  /\ Log!LogAssumption
  /\ Events!EventsAssumption
  /\ Library!LibraryAssumption

-----------------------------------------------------------------------------
Init ==
  /\ focus \in {"access", "commands", "menus", "admin", "log", "events", "library"}
  /\ Access!Init /\ (focus # "access" => gate["tasks"] = {"user", "admin"})
  /\ Commands!Init /\ (focus # "commands" => \A c \in DOMAIN row : ~Commands!Stored(c))
  /\ Menus!Init
  /\ Admin!Init /\ Log!Init /\ Events!Init
  /\ Library!LibraryInit /\ (focus # "library" => draft /\ version)

AccessSteps ==
  /\ focus = "access" /\ Access!Next
  /\ UNCHANGED <<focus, commandVars, menuVars, adminVars, logVars, eventVars, libraryVars>>
CommandSteps ==
  /\ focus = "commands" /\ Commands!Next
  /\ UNCHANGED <<focus, accessVars, menuVars, adminVars, logVars, eventVars, libraryVars>>
MenuSteps ==
  /\ focus = "menus" /\ Menus!Next
  /\ UNCHANGED <<focus, accessVars, commandVars, adminVars, logVars, eventVars, libraryVars>>
AdminSteps ==
  /\ focus = "admin" /\ Admin!Next
  /\ UNCHANGED <<focus, accessVars, commandVars, menuVars, logVars, eventVars, libraryVars>>
LogSteps ==
  /\ focus = "log" /\ Log!Next
  /\ UNCHANGED <<focus, accessVars, commandVars, menuVars, adminVars, eventVars, libraryVars>>
EventSteps ==
  /\ focus = "events" /\ Events!Next
  /\ UNCHANGED <<focus, accessVars, commandVars, menuVars, adminVars, logVars, libraryVars>>
LibrarySteps ==
  /\ focus = "library" /\ Library!Next
  /\ UNCHANGED <<focus, accessVars, commandVars, menuVars, adminVars, logVars, eventVars>>

Next == AccessSteps \/ CommandSteps \/ MenuSteps \/ AdminSteps \/ LogSteps \/ EventSteps
        \/ LibrarySteps
Spec == Init /\ [][Next]_<<focus, accessVars, commandVars, menuVars, adminVars, logVars,
                           eventVars, libraryVars>>

-----------------------------------------------------------------------------
\* Every component keeps its type.
InterfacesTypeOK ==
  /\ focus = "access" => Access!BotTypeOK
  /\ focus = "commands" => Commands!CommandsTypeOK
  /\ focus = "menus" => Menus!CommandsTypeOK
  /\ focus = "admin" => Admin!AccessTypeOK
  /\ focus = "log" => Log!LogTypeOK
  /\ focus = "events" => Events!EventsTypeOK
  /\ focus = "library" => Library!LibraryTypeOK

\* What was given out for one use is used once and lasts as long as promised: binding codes
\* and daily points (BotAccess), login challenges and logouts (AdminAccess).
GrantsHold ==
  /\ focus = "access" => Access!CodesBindOnce /\ Access!PaidOncePerDay
  /\ focus = "admin" => Admin!ChallengeLasts /\ Admin!OneUsePerChallenge /\ Admin!LogoutIsFinal

\* A custom command runs only a source its administrator confirmed, and a refresh that ran
\* alone leaves both of Telegram's scopes with its menu (BotCommands).
CommandsHold ==
  /\ focus = "commands" => Commands!ConfirmedSource
  /\ focus = "menus" => Menus!MenuReplaced

\* A task is touched from a button only by an administrator of that moment (BotAccess).
ActsAsAdmin == Access!ActsAsAdmin

\* Nobody's edit of a command or a message group is overwritten unseen (BotCommands and
\* MessageLibrary).
EditsKeepOthers == Commands!EditsKeepOthers /\ []Library!EditsKeepOthers

\* A slow console loses lines only behind a gap marker, and never misses the last
\* published state of a task (LogStream and TaskEvents).
NoSilentLoss ==
  /\ focus = "log" => Log!GapMarked
  /\ focus = "events" => Events!FreshOrNotified
=============================================================================
