---------------------------- MODULE WorkflowRun ----------------------------
(* The workflow of a task: what schemas.TaskDefinition accepts when it is   *)
(* saved (validation.py) and what one run of it does (executor.py, the step *)
(* handlers and the retries), with the live progress the run shows          *)
(* (progress.py).                                                           *)
(*                                                                          *)
(* A workflow is a function from paths to steps.  A path is the position of *)
(* a step, as the progress lists them: <<3>> or <<3, 2, 1>>, the first step *)
(* of the second branch of the third step.  A step is a record; what the    *)
(* properties do not tell apart (texts, urls, selectors, limits of lengths) *)
(* is left out:                                                             *)
(*   send, wait, click, http  [kind, id, uses]      uses: template names    *)
(*   extract    [kind, id, name, type, source, from]   source: wait or http *)
(*   condition  [kind, id, legacy, strict, extracts, branches]              *)
(* An extract of a condition is [name, type] and reads the last waited      *)
(* message. A branch is [any, rules]: a rule is the set of the typed        *)
(* variables it reads, "any" its logic, and the last branch is the else.    *)
EXTENDS Naturals, Sequences, FiniteSets, SequencesExt

CONSTANTS Workflows,     \* the candidate workflows
          MaxDepth,      \* nesting limit of conditions (3)
          MaxAttempts    \* retry.max_attempts

VARIABLES workflow,  \* the steps of the task
          attempt,   \* attempts begun
          phase,     \* idle | next | running | ended | settled
          at,        \* the path of the step being executed
          ctx,       \* ExecutionContext of the attempt
          shown,     \* path -> status in the live progress
          ran,       \* paths started by the attempt
          why,       \* why the last attempt failed
          result,    \* none | success | failed | canceled
          cancel     \* is_cancelled()

vars == <<workflow, attempt, phase, at, ctx, shown, ran, why, result, cancel>>

---------------------------------------------------------------------------
(* The positions of the steps. *)
Parent(p) == SubSeq(p, 1, Len(p) - 2)
Enclosing(p) == {SubSeq(p, 1, n) : n \in {k \in 1..Len(p) : k % 2 = 1}}
Sibling(p, k) == [p EXCEPT ![Len(p)] = k]
NextOf(p) == Sibling(p, Last(p) + 1)
Child(p, i) == p \o <<i, 1>>

Kinds == {"send", "wait", "click", "http", "extract", "condition"}
IsStep(s) ==
  /\ s.kind \in Kinds
  /\ s.kind = "extract" => s.source \in {"wait", "http"}
  /\ s.kind = "condition" => Len(s.branches) \in Nat /\ DOMAIN s.branches = 1..Len(s.branches)

\* The positions of nested lists: before a step are its elder siblings, and around it conditions.
IsWorkflow(w) ==
  /\ DOMAIN w \subseteq Seq(Nat \ {0}) /\ <<1>> \in DOMAIN w
  /\ \A p \in DOMAIN w :
       /\ Len(p) % 2 = 1 /\ IsStep(w[p])
       /\ \A k \in 1..Last(p) : Sibling(p, k) \in DOMAIN w
       /\ \A c \in Enclosing(p) \ {p} :
            c \in DOMAIN w /\ w[c].kind = "condition" /\ p[Len(c) + 1] \in DOMAIN w[c].branches

---------------------------------------------------------------------------
(* Variables and their types. *)
NoId == ""
Nothing == [n \in {} |-> ""]
Put(f, n, v) == [m \in DOMAIN f \cup {n} |-> IF m = n THEN v ELSE f[m]]

Names(extracts) == {extracts[i].name : i \in DOMAIN extracts}
TypeOf(extracts, n) ==
  extracts[CHOOSE i \in DOMAIN extracts :
             extracts[i].name = n /\ \A j \in DOMAIN extracts : extracts[j].name = n => j <= i].type
\* Of the extracts' names only those in "got" are set, the others are forgotten.
Extend(f, extracts, got) ==
  [n \in (DOMAIN f \ Names(extracts)) \cup got |-> IF n \in got THEN TypeOf(extracts, n) ELSE f[n]]
Declared(f, extracts) == Extend(f, extracts, Names(extracts))

---------------------------------------------------------------------------
(* What is accepted: _validate_step_sequence and                            *)
(* _validate_extraction_sources thread through the steps the variables a    *)
(* path may have defined, whether every path has waited, and the data       *)
(* sources every path has executed. "known" is what they know before and    *)
(* behind each step.                                                        *)
Fresh == [possible |-> Nothing, waited |-> FALSE, nodes |-> {}, kinds |-> {}]
Knows(possible, ref) == ref.name \in DOMAIN possible /\ possible[ref.name] = ref.type

Effect(s, env) ==
  CASE s.kind = "extract" -> [env EXCEPT !.possible = Put(@, s.name, s.type)]
    [] s.kind \in {"wait", "http"} ->
         [env EXCEPT !.waited = @ \/ s.kind = "wait", !.kinds = @ \cup {s.kind},
                     !.nodes = @ \cup ({<<s.id, s.kind>>} \ {<<NoId, s.kind>>})]
    [] OTHER -> env

\* A condition of the first format: its branches are checked as if alone, after a wait.
Within(c, env) ==
  IF c.legacy THEN [env EXCEPT !.possible = Nothing, !.waited = TRUE]
              ELSE [env EXCEPT !.possible = Declared(@, c.extracts)]

Merged(outs) ==
  [n \in UNION {DOMAIN outs[i].possible : i \in DOMAIN outs} |->
     LET i == CHOOSE i \in DOMAIN outs : n \in DOMAIN outs[i].possible
     IN outs[i].possible[n]]
SameTypes(outs) ==
  \A i, j \in DOMAIN outs : \A n \in DOMAIN outs[i].possible \cap DOMAIN outs[j].possible :
    outs[i].possible[n] = outs[j].possible[n]

\* The data sources every path to a step has executed.
\* Mutant: what one branch executes counts for all.
MeetAny(outs) ==
  [nodes |-> UNION {outs[i].nodes : i \in DOMAIN outs},
   kinds |-> UNION {outs[i].kinds : i \in DOMAIN outs}]
Meet(outs) ==
  [nodes |-> {n \in outs[1].nodes : \A i \in DOMAIN outs : n \in outs[i].nodes},
   kinds |-> {k \in outs[1].kinds : \A i \in DOMAIN outs : k \in outs[i].kinds}]

Joined(c, env, outs) ==
  [possible |-> IF c.legacy THEN env.possible ELSE Merged(outs),
   waited |-> IF c.legacy THEN env.waited ELSE \A i \in DOMAIN outs : outs[i].waited,
   nodes |-> Meet(outs).nodes, kinds |-> Meet(outs).kinds]

LastIn(w, c, i) ==
  CHOOSE q \in DOMAIN w : /\ Len(q) = Len(c) + 2 /\ SubSeq(q, 1, Len(c) + 1) = Append(c, i)
                          /\ NextOf(q) \notin DOMAIN w
Outs(w, known, c) ==
  [i \in DOMAIN w[c].branches |->
     IF Child(c, i) \in DOMAIN w THEN known[<<LastIn(w, c, i), "behind">>]
     ELSE Within(w[c], known[<<c, "before">>])]

Entering(w, known, p) ==
  IF p = <<1>> THEN Fresh
  ELSE IF Last(p) = 1 THEN Within(w[Parent(p)], known[<<Parent(p), "before">>])
  ELSE known[<<Sibling(p, Last(p) - 1), "behind">>]
Leaving(w, known, p) ==
  IF w[p].kind = "condition" THEN Joined(w[p], known[<<p, "before">>], Outs(w, known, p))
  ELSE Effect(w[p], known[<<p, "before">>])

Marks(w) == (DOMAIN w) \X {"before", "behind"}
Knowledge(w) ==
  LET known[m \in Marks(w)] ==
        IF m[2] = "before" THEN Entering(w, known, m[1]) ELSE Leaving(w, known, m[1])
  IN [m \in Marks(w) |-> known[m]]
\* The equations Knowledge solves, by induction over the steps in their order.
Threaded(w, known) ==
  \A p \in DOMAIN w : /\ known[<<p, "before">>] = Entering(w, known, p)
                       /\ known[<<p, "behind">>] = Leaving(w, known, p)

Distinct(extracts) == \A i, j \in DOMAIN extracts : extracts[i].name = extracts[j].name => i = j
\* A condition of the second format, checked with what is known before it and its branches' ends.
AllowedV2(c, env, outs) ==
  /\ c.id # NoId
  /\ c.extracts # <<>> => env.waited
  /\ Distinct(c.extracts) /\ Names(c.extracts) \cap DOMAIN env.possible = {}
  /\ \A b \in Range(c.branches) : \A r \in Range(b.rules) : \A ref \in r :
       Knows(Declared(env.possible, c.extracts), ref)
  /\ SameTypes(outs)
Available(s, env) ==
  IF s.from = NoId THEN s.source \in env.kinds ELSE <<s.from, s.source>> \in env.nodes
Allowed(w, known, p) ==
  LET env == known[<<p, "before">>]
  IN CASE w[p].kind = "condition" ->
            /\ Len(p) < 2 * MaxDepth + 1
            /\ w[p].legacy \/ AllowedV2(w[p], env, Outs(w, known, p))
       [] w[p].kind = "extract" -> w[p].name \notin DOMAIN env.possible /\ Available(w[p], env)
       [] OTHER -> w[p].uses \subseteq DOMAIN env.possible

NewIds(w) == \A p, q \in DOMAIN w : w[p].id = w[q].id /\ w[p].id # NoId => p = q
Accepted(w) ==
  LET known == Knowledge(w)
  IN NewIds(w) /\ \A p \in DOMAIN w : Allowed(w, known, p)

WorkflowAssumption ==
  /\ MaxDepth \in Nat /\ MaxAttempts \in Nat \ {0}
  /\ \A w \in Workflows : IsWorkflow(w) /\ Threaded(w, Knowledge(w))

---------------------------------------------------------------------------
Paths == DOMAIN shown

\* The step after p: its sibling, or what follows the innermost condition that has a next step.
After(p) ==
  LET more == {e \in Enclosing(p) : NextOf(e) \in Paths}
  IN IF more = {} THEN <<>> ELSE NextOf(CHOOSE e \in more : \A f \in more : Len(f) <= Len(e))

Current == workflow[at]
FreshContext == [vars |-> Nothing, waits |-> {}, https |-> {}, waited |-> FALSE,
                 fetched |-> FALSE, message |-> FALSE]

Started ==
  /\ attempt = 0 /\ phase = "idle" /\ at = <<>> /\ ctx = FreshContext
  /\ shown = [p \in DOMAIN workflow |-> "pending"] /\ ran = {}
  /\ why = "none" /\ result = "none" /\ cancel = FALSE
Init == workflow \in {w \in Workflows : Accepted(w)} /\ Started

---------------------------------------------------------------------------
(* run_with_retries *)
\* Mutant: the statuses of the attempt before stay.
ShownAgain == shown
ShownAfresh == [p \in Paths |-> "pending"]

BeginAttempt ==
  /\ phase = "idle" /\ attempt < MaxAttempts /\ ~cancel
  /\ attempt' = attempt + 1
  /\ shown' = ShownAfresh /\ ran' = {} /\ ctx' = FreshContext
  /\ \/ at' = <<1>> /\ phase' = "next" /\ UNCHANGED <<why, result>>
     \/ \* the chat cannot be resolved
        /\ at' = <<>> /\ why' = "other"
        /\ IF attempt' = MaxAttempts THEN phase' = "ended" /\ result' = "failed"
                                     ELSE phase' = "idle" /\ UNCHANGED result
  /\ UNCHANGED <<workflow, cancel>>

\* A failing step fails every condition it is nested in, then the attempt.
Fail(reason) ==
  /\ shown' = [p \in Paths |-> IF p \in Enclosing(at) THEN "failed" ELSE shown[p]]
  /\ why' = reason /\ at' = <<>>
  /\ IF attempt = MaxAttempts THEN phase' = "ended" /\ result' = "failed"
                              ELSE phase' = "idle" /\ UNCHANGED result
  /\ UNCHANGED ctx

\* CancelledError: found by the check before a step (that step is not reported),
\* or raised in a step, in the pause between attempts, or before the first.
Cancelled ==
  /\ cancel /\ phase \in {"idle", "next", "running"}
  /\ LET hit == IF phase = "running" THEN Enclosing(at) ELSE Enclosing(at) \ {at}
     IN shown' = [p \in Paths |-> IF p \in hit THEN "failed" ELSE shown[p]]
  /\ phase' = "ended" /\ result' = "canceled" /\ at' = <<>>
  /\ UNCHANGED <<workflow, attempt, ctx, ran, why, cancel>>

StartStep ==
  /\ phase = "next" /\ ~cancel
  /\ shown' = [shown EXCEPT ![at] = "running"] /\ ran' = ran \cup {at}
  /\ phase' = "running"
  /\ UNCHANGED <<workflow, attempt, at, ctx, why, result, cancel>>

GoOn(next) ==
  /\ at' = next
  /\ IF next = <<>> THEN phase' = "ended" /\ result' = "success"
                    ELSE phase' = "next" /\ UNCHANGED result

Succeed(context) ==
  /\ ctx' = context /\ UNCHANGED why
  /\ shown' = [shown EXCEPT ![at] = "success"]
  /\ GoOn(After(at))

Handling(kind) ==
  /\ phase = "running" /\ Current.kind = kind
  /\ UNCHANGED <<workflow, attempt, ran, cancel>>
Rendered == Current.uses \subseteq DOMAIN ctx.vars

SendMessage ==
  /\ Handling("send")
  /\ IF ~Rendered THEN Fail("undefined")
     ELSE Succeed([ctx EXCEPT !.message = TRUE]) \/ Fail("other")

WaitMessage ==
  /\ Handling("wait")
  /\ IF ~Rendered THEN Fail("undefined")
     ELSE \/ Succeed([ctx EXCEPT !.message = TRUE, !.waited = TRUE, !.waits = @ \cup {Current.id}])
          \/ Fail("timeout")

ClickButton ==
  /\ Handling("click")
  /\ IF ~ctx.message THEN Fail("no message")
     ELSE IF ~Rendered THEN Fail("undefined")
     ELSE Succeed(ctx) \/ Fail("other")

HttpRequest ==
  /\ Handling("http")
  /\ IF ~Rendered THEN Fail("undefined")
     ELSE \/ Succeed([ctx EXCEPT !.fetched = TRUE, !.https = @ \cup {Current.id}])
          \/ Fail("other")

SourceReady(s) ==
  CASE s.source = "wait" /\ s.from = NoId -> ctx.waited
    [] s.source = "wait" /\ s.from # NoId -> s.from \in ctx.waits
    [] s.source = "http" /\ s.from = NoId -> ctx.fetched
    [] OTHER -> s.from \in ctx.https

\* A value that cannot be converted fails the step (a failed wait extraction forgets the name).
ExtractVariable ==
  /\ Handling("extract")
  /\ IF ~SourceReady(Current) THEN Fail("source")
     ELSE Succeed([ctx EXCEPT !.vars = Put(@, Current.name, Current.type)]) \/ Fail("other")

\* extract_variables: each extract sets its name or forgets it.
Extracted(c, got) == Extend(ctx.vars, c.extracts, got)

Usable(r, known) == \A ref \in r : Knows(known, ref)
\* select_branch, by what the values may be: a rule that cannot be evaluated (for its variables, a
\* literal that does not convert, a length, the regex budget) raises in a strict condition and is
\* false in another; "and" stops at a false rule, "or" at a true one.
MayRaise(c, b) == c.strict /\ b.rules # <<>>
MayMatch(c, b, known) ==
  CASE ~b.any -> \A r \in Range(b.rules) : Usable(r, known)
    [] b.any /\ c.strict -> Usable(Head(b.rules), known)
    [] OTHER -> \E r \in Range(b.rules) : Usable(r, known)
MayMiss(c, b, known) ==
  CASE ~c.strict -> TRUE
    [] c.strict /\ b.any -> \A r \in Range(b.rules) : Usable(r, known)
    [] OTHER -> Usable(Head(b.rules), known)
Tried(c, i, known) == \A j \in 1..(i - 1) : MayMiss(c, c.branches[j], known)
Selects(c, i, known) ==
  Tried(c, i, known) /\ (i = Len(c.branches) \/ MayMatch(c, c.branches[i], known))
Raises(c, known) ==
  \E i \in 1..(Len(c.branches) - 1) : Tried(c, i, known) /\ MayRaise(c, c.branches[i])

Under(p) == {q \in Paths : Len(q) > Len(p) /\ SubSeq(q, 1, Len(p)) = p}
\* _mark_steps_skipped: everything under the branches that were not selected.
Skipped(i) == UNION {Under(Append(at, j)) : j \in DOMAIN Current.branches \ {i}}

Condition ==
  /\ Handling("condition")
  /\ \E got \in SUBSET Names(Current.extracts) :
       LET known == Extracted(Current, got)
           complete == got = Names(Current.extracts)
       IN /\ got # {} => ctx.waited
          /\ \/ Current.strict /\ ~complete /\ Fail("extract")
             \/ Raises(Current, known) /\ Fail("rule")
             \/ \E i \in DOMAIN Current.branches :
                  /\ Current.strict => complete
                  /\ Selects(Current, i, known)
                  /\ ctx' = [ctx EXCEPT !.vars = known]
                  /\ shown' = [p \in Paths |-> IF p = at THEN "success"
                                               ELSE IF p \in Skipped(i) THEN "skipped" ELSE shown[p]]
                  /\ UNCHANGED why
                  /\ GoOn(IF Child(at, i) \in Paths THEN Child(at, i) ELSE After(at))

AskCancel ==
  /\ ~cancel /\ phase \in {"idle", "next", "running"} /\ cancel' = TRUE
  /\ UNCHANGED <<workflow, attempt, phase, at, ctx, shown, ran, why, result>>

\* _finalize_run_progress
Final(p) ==
  CASE shown[p] = "running" -> IF result = "success" THEN "success" ELSE "failed"
    [] shown[p] = "pending" -> IF result = "success" /\ Len(p) = 1 /\ workflow[p].id = NoId
                               THEN "success" ELSE "skipped"
    [] OTHER -> shown[p]
Finalize ==
  /\ phase = "ended" /\ phase' = "settled"
  /\ shown' = [p \in Paths |-> Final(p)]
  /\ UNCHANGED <<workflow, attempt, at, ctx, ran, why, result, cancel>>

Next == \/ BeginAttempt \/ Cancelled \/ StartStep \/ AskCancel \/ Finalize
        \/ SendMessage \/ WaitMessage \/ ClickButton \/ HttpRequest \/ ExtractVariable \/ Condition

Spec == Init /\ [][Next]_vars

---------------------------------------------------------------------------
WorkflowTypeOK ==
  /\ Paths = DOMAIN workflow /\ attempt \in 0..MaxAttempts /\ cancel \in BOOLEAN
  /\ phase \in {"idle", "next", "running", "ended", "settled"}
  /\ at \in Paths \cup {<<>>} /\ (at # <<>>) = (phase \in {"next", "running"})
  /\ ran \subseteq Paths
  /\ shown \in [Paths -> {"pending", "running", "success", "failed", "skipped"}]
  /\ (result # "none") = (phase \in {"ended", "settled"})

\* A workflow that was accepted never runs into an extraction whose data source has not been
\* executed, on whatever path its conditions take it.
SourcesPresent == why # "source"

HasLegacy == \E p \in Paths : workflow[p].kind = "condition" /\ workflow[p].legacy

\* An accepted workflow without conditions of the first format comes to a condition that extracts
\* only after a message was waited for, and no variable a rule reads ever has another type than
\* the rule was checked with, also when different branches may have set it.
ConditionsReady ==
  (phase = "running" /\ Current.kind = "condition" /\ ~HasLegacy) =>
    /\ Current.extracts # <<>> => ctx.waited
    /\ \A b \in Range(Current.branches) : \A r \in Range(b.rules) : \A ref \in r :
         ref.name \in DOMAIN ctx.vars => ctx.vars[ref.name] = ref.type

\* The progress of a run that has ended tells the last attempt: nothing is left pending or
\* running, what is shown as done or failed was executed by that attempt, the steps of at most
\* one branch of a condition were, and a success shows no failure and has executed every step of
\* the outermost list.
ProgressTold ==
  phase = "settled" =>
    /\ \A p \in Paths : shown[p] \in {"success", "failed"} => p \in ran
    /\ \A p \in Paths : shown[p] \notin {"pending", "running"}
    /\ \A p, q \in Paths : (shown[p] # "skipped" /\ shown[q] # "skipped" /\ Len(p) > 1
                              /\ Len(q) >= Len(p) /\ SubSeq(q, 1, Len(p) - 2) = Parent(p))
                             => q[Len(p) - 1] = p[Len(p) - 1]
    /\ result = "success" =>
         \A p \in Paths : shown[p] # "failed" /\ (Len(p) = 1 => shown[p] = "success")
============================================================================
