----------------------------- MODULE MCServices -----------------------------
(* The workflows and the schedules of the small instances of Services.      *)
EXTENDS Services

-----------------------------------------------------------------------------
(* The workflows: a condition after a few steps and before a few, or two    *)
(* conditions, with the data sources and variables that can go wrong.       *)
Plain(kind, id, uses) == [kind |-> kind, id |-> id, uses |-> uses]
Extract(name, type, source, from) ==
  [kind |-> "extract", id |-> "", name |-> name, type |-> type, source |-> source, from |-> from]
Condition(id, legacy, strict, extracts, name, type, then, else) ==
  [kind |-> "condition", id |-> IF legacy THEN "" ELSE id, legacy |-> legacy, strict |-> strict,
   extracts |-> extracts,
   branches |-> <<[any |-> FALSE, rules |-> <<{[name |-> name, type |-> type]}>>, steps |-> then],
                  [any |-> FALSE, rules |-> <<>>, steps |-> else]>>]

wait == Plain("wait", "", {})
waitN == Plain("wait", "n", {})
httpN == Plain("http", "n", {})
sendX == Plain("send", "", {"x"})
click == Plain("click", "", {})
xText == Extract("x", "text", "wait", "")
xNumber == Extract("x", "number", "http", "n")

Types == {"text", "number"}
Arms == {<<>>, <<waitN>>, <<httpN>>, <<wait>>, <<xText>>, <<xNumber>>, <<sendX>>}
Extracts == {<<>>, <<[name |-> "x", type |-> "text"]>>}
Conditions == {Condition("c", legacy, strict, extracts, "x", type, a, b) :
                 legacy, strict \in BOOLEAN, extracts \in Extracts, type \in Types, a, b \in Arms}
Before == {<<>>, <<wait>>, <<waitN>>, <<wait, xText>>, <<httpN, xNumber>>}
Behind == {<<>>, <<sendX, click>>, <<xText>>, <<xNumber>>, <<Extract("y", "text", "wait", "n")>>}
Inner == {sendX, Condition("e", FALSE, TRUE, <<>>, "x", "text", <<sendX>>, <<>>)}
Two == {<<wait, Extract("y", "text", "wait", ""), httpN,
          Condition("c", FALSE, FALSE, <<>>, "y", "text", a, b),
          Condition("d", FALSE, strict, extracts, "x", type, <<>>, <<inner>>)>> :
          a, b \in {<<>>, <<xText>>, <<xNumber>>}, strict \in BOOLEAN, extracts \in Extracts,
          type \in Types, inner \in Inner}
Candidates == {p \o <<c>> \o q : p \in Before, c \in Conditions, q \in Behind} \cup Two

\* The lists of steps as functions from paths to steps.
RECURSIVE Placed(_, _)
Placed(steps, list) ==
  UNION {LET p == Append(list, i) IN
         {<<p, steps[i]>>} \cup
           IF steps[i].kind # "condition" THEN {}
           ELSE UNION {Placed(steps[i].branches[b].steps, Append(p, b)) :
                       b \in DOMAIN steps[i].branches} : i \in DOMAIN steps}
Bare(s) ==
  IF s.kind # "condition" THEN s
  ELSE [s EXCEPT !.branches = [b \in DOMAIN @ |-> [any |-> @[b].any, rules |-> @[b].rules]]]
Flat(steps) ==
  LET all == Placed(steps, <<>>)
  IN [p \in {x[1] : x \in all} |-> Bare((CHOOSE x \in all : x[1] = p)[2])]
Definitions == {Flat(steps) : steps \in Candidates}

-----------------------------------------------------------------------------
(* The schedules: days of four ticks and weeks of three days, over a change *)
(* of the clock by a part of a day, or by a whole day.                      *)
Fixed(time, frequency, interval, days, start, end) ==
  [type |-> "fixed", time |-> time, first |-> 0, last |-> 0, count |-> 1, frequency |-> frequency,
   interval |-> interval, days |-> days, start |-> start, end |-> end]
Random(first, last, count, frequency, interval, days, start, end) ==
  [Fixed(0, frequency, interval, days, start, end)
     EXCEPT !.type = "random", !.first = first, !.last = last, !.count = count]

Calendars ==
  {Fixed(t, "daily", 1, {}, s, e) : t \in 0 .. 3, s \in 0 .. 1, e \in 1 .. 2}
    \cup {Fixed(t, "every_n_days", 2, {}, s, 2) : t \in 0 .. 3, s \in 0 .. 1}
    \cup {Fixed(2, "weekly", 1, {1}, 0, 2), Fixed(1, "monthly_dates", 1, {0, 2}, 0, 2),
          Random(0, 1, 1, "daily", 1, {}, 0, 2), Random(1, 3, 2, "daily", 1, {}, 0, 2),
          Random(2, 3, 1, "every_n_days", 2, {}, 1, 2), Random(1, 2, 2, "weekly", 1, {1}, 0, 2)}
Changes == {[at |-> a, shift |-> s] : a \in {5, 6}, s \in {-2, -1, 1, 2}}
             \cup {[at |-> 5, shift |-> -4], [at |-> 4, shift |-> 4]}
=============================================================================
