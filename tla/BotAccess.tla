------------------------------ MODULE BotAccess ------------------------------
(***************************************************************************)
(* Who may do what through the management bot: binding codes and bindings, *)
(* the role a command asks for, the confirmation buttons of the task       *)
(* administration, and daily points.  Updates are handled one at a time    *)
(* (TelegramUpdates), but a handler waits for Telegram between testing a   *)
(* role and acting, and the administrator's requests and the command line  *)
(* run meanwhile.  The audit log is only ever written, and left out.       *)
(***************************************************************************)
EXTENDS Integers, Sequences, FiniteSets, SequencesExt, FiniteSetsExt

CONSTANTS Users,           \* Telegram users, each in its private chat
          Codes,           \* binding codes
          CodeTTL,         \* life of a code that expires
          ConfirmTTL,      \* _CONFIRM_TTL_SECONDS
          Day,             \* ticks of a day
          MaxPoints,       \* bound: largest award configured
          MaxTime          \* bound: ticks of the clock

BotAccessAssumption ==
    /\ CodeTTL \in Nat /\ ConfirmTTL \in Nat /\ Day \in Nat \ {0}
    /\ MaxPoints \in Nat \ {0} /\ MaxTime \in Nat

VARIABLES now,
          code,            \* BotBindingCode rows
          binding,         \* BotBinding rows in the order they were made
          gate,            \* roles the commands "tasks" and "checkin" allow
          range,           \* checkin.points_min and checkin.points_max
          point,           \* BotUserPoint rows: total and last date
          press,           \* the button whose handler waits for Telegram
          confirm,         \* expiry written into a user's confirmation button
          acted,           \* tasks enabled, disabled or run from a button
          paid             \* dates a user was given points for

vars == <<now, code, binding, gate, range, point, press, confirm, acted, paid>>
bindings == <<code, binding>>
points   == <<range, point, paid>>
buttons  == <<press, confirm, acted>>

Roles  == {"anonymous", "user", "admin"}
Never  == MaxTime + CodeTTL + 1
NoCode == [state |-> "absent", role |-> "user", expires |-> 0]
Idle   == [user |-> CHOOSE u \in Users : TRUE, what |-> "idle", expires |-> 0]
Today  == now \div Day

Init ==
    /\ now = 0 /\ code = [c \in Codes |-> NoCode] /\ binding = <<>>
    /\ \E allowed \in {{"user", "admin"}, Roles} : gate = [c \in {"tasks", "checkin"} |-> allowed]
    /\ range = <<1, MaxPoints>> /\ point = [u \in Users |-> [total |-> 0, last |-> -1]]
    /\ press = Idle /\ confirm = [u \in Users |-> -1]
    /\ acted = 0 /\ paid = [u \in Users |-> {}]

(* --- Queries ------------------------------------------------------------ *)

Rows(u) == {i \in DOMAIN binding : binding[i].user = u /\ binding[i].active}
Bound(u) == Rows(u) # {}
\* binding_role, "anonymous" for a user without an active binding.
Role(u) == IF Bound(u) THEN binding[CHOOSE i \in Rows(u) : TRUE].role ELSE "anonymous"
Allowed(u, command) == Role(u) \in gate[command]

(* --- Codes and bindings -------------------------------------------------- *)

CreateCode(c, role, expires) ==
    /\ code[c].state = "absent"
    /\ code' = [code EXCEPT ![c] = [state |-> "open", role |-> role, expires |-> expires]]
    /\ UNCHANGED <<now, binding, gate, points, buttons>>

RevokeCode(c) ==
    /\ code[c].state = "open"
    /\ code' = [code EXCEPT ![c].state = "revoked"]
    /\ UNCHANGED <<now, binding, gate, points, buttons>>

RevokeBinding(i) ==
    /\ binding[i].active
    /\ binding' = [binding EXCEPT ![i].active = FALSE]
    /\ UNCHANGED <<now, code, gate, points, buttons>>

Usable(c) == code[c].state = "open" /\ now < code[c].expires

\* Mutant: a code that was used stays usable.
BindLeavingCode(u, c) ==
    /\ press = Idle /\ c \in Codes
    /\ IF ~ Bound(u) /\ Usable(c)
       THEN binding' = Append(binding, [user |-> u, code |-> c, role |-> code[c].role,
                                        active |-> TRUE])
       ELSE UNCHANGED binding
    /\ Len(binding) <= Cardinality(Codes)
    /\ UNCHANGED <<now, code, gate, points, buttons>>

\* /bind: everybody may send it; the code is tested and used in one write
\* transaction, which also makes sure that the user has no active binding.
Bind(u, c) ==
    /\ press = Idle
    /\ IF ~ Bound(u) /\ Usable(c)
       THEN /\ code' = [code EXCEPT ![c].state = "used"]
            /\ binding' = Append(binding, [user |-> u, code |-> c, role |-> code[c].role,
                                           active |-> TRUE])
       ELSE UNCHANGED bindings
    /\ UNCHANGED <<now, gate, points, buttons>>

Unbind(u) ==
    /\ press = Idle /\ Bound(u)
    /\ binding' = [binding EXCEPT ![CHOOSE i \in Rows(u) : TRUE].active = FALSE]
    /\ UNCHANGED <<now, code, gate, points, buttons>>

(* --- Points --------------------------------------------------------------- *)

\* update_checkin_config: two settings, saved one after the other; the service
\* may end between them.
SetRange(lo, hi) ==
    /\ lo <= hi /\ range # <<lo, hi>>
    /\ range' \in {<<lo, hi>>, <<lo, range[2]>>}
    /\ UNCHANGED <<now, bindings, gate, point, paid, buttons>>

Least == range[1]
Most  == IF range[2] < range[1] THEN range[1] ELSE range[2]

\* /checkin: the role, then the binding and the row of points in one transaction.
Checkin(u) ==
    /\ press = Idle
    /\ IF ~ Allowed(u, "checkin") \/ ~ Bound(u)
       THEN UNCHANGED <<point, paid>>
       ELSE IF point[u].last = Today
            THEN UNCHANGED <<point, paid>>
            ELSE /\ \E n \in Least..Most :
                      point' = [point EXCEPT ![u] = [total |-> @.total + n, last |-> Today]]
                 /\ paid' = [paid EXCEPT ![u] = @ \cup {Today}]
    /\ UNCHANGED <<now, bindings, gate, range, buttons>>

(* --- Buttons -------------------------------------------------------------- *)

\* _handle_callback: the role is tested, then the handler waits for Telegram
\* to take the answer; a failed answer ends it.
Press(u, what) ==
    /\ press = Idle
    /\ what = "do" => confirm[u] >= 0
    /\ IF Allowed(u, "tasks")
       THEN press' = [user |-> u, what |-> what, expires |-> confirm[u]]
       ELSE UNCHANGED press
    /\ UNCHANGED <<now, bindings, gate, points, confirm, acted>>

AnswerFails ==
    /\ press # Idle
    /\ press' = Idle
    /\ UNCHANGED <<now, bindings, gate, points, confirm, acted>>

\* "ask": the message turns into a confirmation that carries its expiry.
Ask ==
    /\ press.what = "ask"
    /\ press' = Idle
    /\ confirm' = [confirm EXCEPT ![press.user] = now + ConfirmTTL]
    /\ UNCHANGED <<now, bindings, gate, points, acted>>

\* Mutant: the role tested before the answer is taken for granted.
PerformTrusting ==
    /\ press.what = "do"
    /\ press' = Idle
    /\ IF now <= press.expires THEN acted' = (acted + 1) % 2 ELSE UNCHANGED acted
    /\ UNCHANGED <<now, bindings, gate, points, confirm>>

\* "do": _perform_action asks for the administrator role again and for the
\* time, and the task service may refuse.
Perform ==
    /\ press.what = "do"
    /\ press' = Idle
    /\ \/ /\ Role(press.user) = "admin" /\ now <= press.expires
          /\ acted' = (acted + 1) % 2
       \/ UNCHANGED acted
    /\ UNCHANGED <<now, bindings, gate, points, confirm>>

Tick ==
    /\ now < MaxTime
    /\ now' = now + 1
    /\ UNCHANGED <<bindings, gate, points, buttons>>

Next ==
    \/ Tick \/ AnswerFails \/ Ask \/ Perform
    \/ \E c \in Codes, role \in {"user", "admin"}, life \in {CodeTTL, Never - now} :
         CreateCode(c, role, now + life)
    \/ \E c \in Codes : RevokeCode(c)
    \/ \E i \in DOMAIN binding : RevokeBinding(i)
    \/ \E lo, hi \in 1..MaxPoints : SetRange(lo, hi)
    \/ \E u \in Users :
         \/ \E c \in Codes : Bind(u, c)
         \/ Unbind(u) \/ Checkin(u)
         \/ \E what \in {"ask", "do"} : Press(u, what)

Spec == Init /\ [][Next]_vars

(* --- Properties ----------------------------------------------------------- *)

\* The variables have their types.
BotTypeOK ==
    /\ now \in 0..MaxTime /\ acted \in 0..1
    /\ code \in [Codes -> [state : {"absent", "open", "used", "revoked"},
                           role : {"user", "admin"}, expires : 0..Never]]
    /\ binding \in Seq([user : Users, code : Codes, role : {"user", "admin"}, active : BOOLEAN])
    /\ gate \in [{"tasks", "checkin"} -> SUBSET Roles] /\ range \in (1..MaxPoints) \X (1..MaxPoints)
    /\ point \in [Users -> [total : Nat, last : Int]] /\ paid \in [Users -> SUBSET Nat]
    /\ press = Idle \/ (press.user \in Users /\ press.what \in {"ask", "do"})
    /\ confirm \in [Users -> -1..MaxTime + ConfirmTTL]

\* A code makes at most one binding, of the role it was made for, and never
\* one after it was revoked; and a user never has two active bindings.
CodesBindOnce ==
    /\ \A i, j \in DOMAIN binding :
         i # j => /\ binding[i].code # binding[j].code
                  /\ binding[i].active /\ binding[j].active => binding[i].user # binding[j].user
    /\ \A i \in DOMAIN binding : LET c == code[binding[i].code]
                                 IN c.state = "used" /\ c.role = binding[i].role

\* Points are given once for a date, between the least and the largest award,
\* however often a user unbinds and binds again, and also while the two
\* settings of the award disagree.
PaidOncePerDay ==
    \A u \in Users : /\ point[u].total >= Cardinality(paid[u])
                     /\ point[u].total <= MaxPoints * Cardinality(paid[u])

\* A task is enabled, disabled or run from a button only by a user whose
\* administrator binding is active at that moment and whose confirmation has
\* not expired, although the role was already tested before the wait for
\* Telegram.
ActsAsAdmin ==
    [][acted' # acted => /\ Role(press.user) = "admin"
                         /\ now <= confirm[press.user]]_vars
=============================================================================
