----------------------------- MODULE WallClock -----------------------------
(****************************************************************************)
(* Times on the owner's wall clock (src/src/server/nightly.ts) and the runs *)
(* of a cron expression on it (src/src/server/cron.ts).                     *)
(*                                                                          *)
(* An instant is a number of slots, a day is Slots of them.  The zone's     *)
(* clock is moved once: forward, so that some local times do not happen, or *)
(* back, so that some happen twice.                                         *)
(****************************************************************************)
EXTENDS Integers, FiniteSets

CONSTANTS
  Slots,        \* the slots of a day
  WeekDays, MonthDays, YearMonths,   \* how long a week, a month and a year are
  Aheads,       \* how far a zone may be ahead of UTC
  ShiftTimes,   \* the instants at which its clock may be moved
  Shifts,       \* how far it may be moved ahead, or back
  SearchDays    \* SEARCH_DAYS: how many days a run is looked for

ASSUME ClockAssumption ==
  /\ Slots \in Nat \ {0} /\ WeekDays \in Nat \ {0} /\ MonthDays \in Nat \ {0} /\ YearMonths \in Nat \ {0}
  /\ Aheads \subseteq Int /\ ShiftTimes \subseteq Nat /\ Shifts \subseteq Int /\ SearchDays \in Nat

VARIABLE zone   \* [ahead, at, by]

\* The zones whose clock is moved within a day: what is skipped, and as much before and after it, or what happens twice.
\* One moved over midnight may put the next time of a slot before now.
Zones == {z \in [ahead : Aheads, at : ShiftTimes, by : Shifts] :
            LET from == z.at + z.ahead - (IF z.by > 0 THEN z.by ELSE -z.by)
                to   == z.at + z.ahead + (IF z.by > 0 THEN 2 * z.by ELSE 0) - 1
            IN z.by = 0 \/ from \div Slots = to \div Slots}

\* offset(): how far the wall clock is ahead.
Offset(t) == IF t < zone.at THEN zone.ahead ELSE zone.ahead + zone.by
LocalOf(t) == t + Offset(t)
DayOf(t) == LocalOf(t) \div Slots
SlotOf(t) == LocalOf(t) % Slots

\* instant(): the offset is read at the wall time, and again at the instant that gives.
Instant(day, slot) ==
  LET wall == day * Slots + slot
  IN wall - Offset(wall - Offset(wall))

\* exists(): a local time the zone does not skip.
Happens(day, slot) == LocalOf(Instant(day, slot)) = day * Slots + slot

PreviousOccurrence(now, slot) ==
  LET today == Instant(DayOf(now), slot)
  IN IF today <= now THEN today ELSE Instant(DayOf(now) - 1, slot)

NextOccurrence(now, slot) ==
  LET today == Instant(DayOf(now), slot)
  IN IF today > now THEN today ELSE Instant(DayOf(now) + 1, slot)

-----------------------------------------------------------------------------
(* Cron expressions: sets of slots, days of the month, months and weekdays. *)

DateOf(day) == [weekday |-> day % WeekDays, day |-> (day % MonthDays) + 1, month |-> ((day \div MonthDays) % YearMonths) + 1]

\* runsOn(): when both the day of the month and the weekday are restricted, either one is enough.
RunsOn(cron, date) ==
  /\ date.month \in cron.months
  /\ IF cron.anyDay \/ cron.anyWeekday
     THEN date.day \in cron.days /\ date.weekday \in cron.weekdays
     ELSE date.day \in cron.days \/ date.weekday \in cron.weekdays

NoRun == -1
Earlier(a, b) == a.ahead < b.ahead \/ (a.ahead = b.ahead /\ a.slot < b.slot)

\* nextRun(): day by day from the local day of `after`, and slot by slot, the first that is later.
NextRun(cron, after, accepted) ==
  LET Places == {p \in [ahead : 0..SearchDays, slot : cron.slots \cap accepted] :
                   /\ RunsOn(cron, DateOf(DayOf(after) + p.ahead))
                   /\ Happens(DayOf(after) + p.ahead, p.slot)
                   /\ Instant(DayOf(after) + p.ahead, p.slot) > after}
      first == CHOOSE p \in Places : \A q \in Places : q = p \/ Earlier(p, q)
  IN IF Places = {} THEN NoRun ELSE Instant(DayOf(after) + first.ahead, first.slot)

\* lastRun(): the same way back, the last that is not later.
LastRun(cron, now) ==
  LET Places == {p \in [ahead : -SearchDays..0, slot : cron.slots] :
                   /\ RunsOn(cron, DateOf(DayOf(now) + p.ahead))
                   /\ Happens(DayOf(now) + p.ahead, p.slot)
                   /\ Instant(DayOf(now) + p.ahead, p.slot) <= now}
      last  == CHOOSE p \in Places : \A q \in Places : q = p \/ Earlier(q, p)
  IN IF Places = {} THEN NoRun ELSE Instant(DayOf(now) + last.ahead, last.slot)

-----------------------------------------------------------------------------
(* What they are meant to be: the times a clock on the wall shows them.     *)

\* The instants in a span that are the runs of an expression.
Runs(cron, accepted, from, to) ==
  {t \in from..to : /\ SlotOf(t) \in cron.slots \cap accepted /\ RunsOn(cron, DateOf(DayOf(t)))
                    /\ t = Instant(DayOf(t), SlotOf(t))}
=============================================================================
