---------------------------- MODULE ScheduleRuns ---------------------------
(* The occurrences of a schedule (features/checkin/schedule.py): next_runs  *)
(* over local days of a zone with one clock change, and the way a task      *)
(* walks through them, arming the next one after each that it consumed.     *)
(* An instant is a tick of UTC; a local day has DayLength ticks and local   *)
(* time is UTC until the clock changes by zone.shift ticks at zone.at. The  *)
(* hash that picks random times is a choice made once per day (plan), since *)
(* the code derives it from the schedule and the day alone.                 *)
EXTENDS Integers, FiniteSets, FiniteSetsExt

CONSTANTS Schedules,   \* [type, time | first, last, count, frequency, interval, days, start, end]
          Zones,       \* [at, shift]: a change by at most a day
          DayLength, WeekLength,
          LastDay      \* the days are 0..LastDay

VARIABLES schedule, zone,
          plan,    \* day -> the local clock (one run) or instants (more) drawn for it
          now,
          armed,   \* next_run_at, or Never
          since    \* the cutoff it was computed with

vars == <<schedule, zone, plan, now, armed, since>>

Frequencies == {"daily", "every_n_days", "weekly", "monthly_dates"}
ScheduleAssumption ==
  /\ DayLength \in Nat \ {0} /\ WeekLength \in Nat \ {0} /\ LastDay \in Nat
  /\ \A z \in Zones : z.at \in Nat /\ z.shift \in -DayLength..DayLength
  /\ \A s \in Schedules :
       /\ s.type \in {"fixed", "random"} /\ s.frequency \in Frequencies
       /\ {s.time, s.first, s.last} \subseteq 0..(DayLength - 1)
       /\ {s.count, s.interval} \subseteq Nat \ {0} /\ {s.start, s.end} \subseteq Nat
       /\ IF s.type = "fixed" THEN s.count = 1 ELSE s.first < s.last

Never == -1
Days == 0..LastDay
Horizon == (LastDay + 1) * DayLength
Instants == 0..(Horizon + DayLength)

Local(u) == u + (IF u >= zone.at THEN zone.shift ELSE 0)
DateOf(u) == Local(u) \div DayLength
ClockOf(u) == Local(u) % DayLength

\* The instants at which the clock shows naive, by the offsets before and after the change.
Shows(naive) == {u \in {naive, naive - zone.shift} : Local(u) = naive}
First(u) == \A v \in Shows(Local(u)) : u <= v

\* An ambiguous wall time is its first instant; one that the change leaves out is
\* read with the offset from before the change.
Localize(naive) == IF Shows(naive) = {} THEN naive ELSE Min(Shows(naive))

InWindow(u, day) ==
  DateOf(u) = day /\ schedule.first <= ClockOf(u) /\ ClockOf(u) <= schedule.last

\* The instants of a day that _random_occurrences samples.
Offsets(day) == {u \in Instants : InWindow(u, day) /\ First(u)}
Draws(day) ==
  IF schedule.type = "fixed" THEN {{}}
  ELSE IF schedule.count = 1 THEN {{c} : c \in schedule.first..schedule.last}
  ELSE IF Cardinality(Offsets(day)) < schedule.count THEN {{}}
  ELSE kSubset(schedule.count, Offsets(day))

Candidates(day) ==
  IF schedule.type = "fixed" THEN {Localize(day * DayLength + schedule.time)}
  ELSE IF schedule.count > 1 THEN plan[day]
  ELSE {u \in {Localize(day * DayLength + c) : c \in plan[day]} : InWindow(u, day)}

Eligible(day) ==
  CASE schedule.frequency = "daily" -> TRUE
    [] schedule.frequency = "every_n_days" -> (day - schedule.start) % schedule.interval = 0
    [] schedule.frequency = "weekly" -> day % WeekLength \in schedule.days
    [] OTHER -> day \in schedule.days

\* Mutant: the search begins on the day after the cutoff.
FirstDayLate(cutoff) == Max({schedule.start, DateOf(cutoff) + 1})
FirstDay(cutoff) == Max({schedule.start, DateOf(cutoff)})

\* next_runs: the first day with a candidate after the cutoff, and the first of that day.
Coming(day, cutoff) == {u \in Candidates(day) : u > cutoff}
NextRunFor(cutoff) ==
  LET days == {d \in Days : /\ FirstDay(cutoff) <= d /\ d <= schedule.end
                            /\ Eligible(d) /\ Coming(d, cutoff) # {}}
  IN IF days = {} THEN Never ELSE Min(Coming(Min(days), cutoff))

---------------------------------------------------------------------------
Init ==
  /\ schedule \in Schedules /\ zone \in Zones
  /\ LET draws == [d \in Days |-> Draws(d)]
     IN plan \in {p \in [Days -> UNION {draws[d] : d \in Days}] : \A d \in Days : p[d] \in draws[d]}
  /\ now = 0 /\ since = 0 /\ armed = NextRunFor(0)

Tick == now < Horizon /\ now' = now + 1 /\ UNCHANGED <<schedule, zone, plan, armed, since>>

\* The armed occurrence is run, late or not, and the next one is computed from the
\* later of the clock and the consumed occurrence.
Consume ==
  /\ armed # Never /\ armed <= now
  /\ since' = Max({now, armed}) /\ armed' = NextRunFor(since')
  /\ UNCHANGED <<schedule, zone, plan, now>>

\* skip_next: the occurrence is passed over before its time.
Skip ==
  /\ armed # Never /\ armed > now
  /\ since' = armed /\ armed' = NextRunFor(armed)
  /\ UNCHANGED <<schedule, zone, plan, now>>

\* enable, publish, start after a stop: computed afresh from the clock.
Rearm ==
  /\ since' = now /\ armed' = NextRunFor(now)
  /\ UNCHANGED <<schedule, zone, plan, now>>

Next == Tick \/ Consume \/ Skip \/ Rearm
Spec == Init /\ [][Next]_vars

---------------------------------------------------------------------------
ScheduleTypeOK ==
  /\ schedule \in Schedules /\ zone \in Zones /\ {now, since} \subseteq Instants
  /\ \A d \in Days : plan[d] \in Draws(d)
  /\ armed \in Instants \cup {Never}

\* The days of the schedule, whatever the search for occurrences does.
Due == {d \in Days : schedule.start <= d /\ d <= schedule.end /\ Eligible(d)}

\* The armed occurrence is a point of the schedule after the one consumed or skipped before,
\* and no point that is still to come is passed over or left when nothing is armed: over clock
\* changes, frequencies, date limits and late runs. Only a time that the clock leaves out and
\* thereby shows on a later date is lost, once it shows that date.
EarliestIsArmed ==
  /\ armed # Never => armed > since /\ armed \in UNION {Candidates(d) : d \in Due}
  /\ \A d \in Due : \A u \in Candidates(d) :
       (u > since /\ (DateOf(u) = d \/ DateOf(since) <= d)) => armed # Never /\ armed <= u

\* A random occurrence lies, on the clock of its zone, inside the configured window of an
\* eligible day, also on the day the clock changes.
RandomInsideWindow ==
  (armed # Never /\ schedule.type = "random") => InWindow(armed, DateOf(armed)) /\ Eligible(DateOf(armed))
============================================================================
