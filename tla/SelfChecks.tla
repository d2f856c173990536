----------------------------- MODULE SelfChecks -----------------------------
(****************************************************************************)
(* The scheduler and the checks natsumi books for herself                   *)
(* (src/src/server/scheduler.ts), on the owner's wall clock.                *)
(*                                                                          *)
(* A tick looks at the clock: it asks for the nightly switch, and in a      *)
(* quiet loop in the awake hours it hands over the checks that are due, or  *)
(* a ping.  The rows of the checks survive the process; when the switch was *)
(* last asked for does not.  The owner may change the awake hours at any    *)
(* time, and a tick may come late, or not at all while the server is down.  *)
(****************************************************************************)
EXTENDS Parts, WallClock, Sequences, FiniteSetsExt

CONSTANTS
  Checks,       \* the bookings she may make
  Crons,        \* the expressions she may book them with
  OneOff,       \* the cron of a booking that does not repeat
  Delays,       \* how long ahead she books
  Hours,        \* the awake hours there may be: [start, end], in slots
  NightlySlot,  \* nightlyRotationAt
  PingInterval, \* pingIntervalMinutes
  MaxTime,      \* bound: the last instant
  MaxMessages,    \* bound: the owner's messages
  MaxChanges    \* bound: changes of the awake hours, and stops

ASSUME ChecksAssumption ==
  /\ OneOff \notin Crons /\ \A cron \in Crons : cron.slots \subseteq 0..(Slots - 1)
  /\ Delays \subseteq Int /\ NightlySlot \in 0..(Slots - 1) /\ PingInterval \in Nat \ {0}
  /\ MaxTime \in Nat /\ MaxMessages \in Nat /\ MaxChanges \in Nat

VARIABLES
  now,
  booking,      \* Checks -> the row of self_checks
  handed,       \* Checks -> the runs in self_check_deliveries, in order
  hours,
  running,      \* the process is up
  work,         \* what the loop is working on: nothing, an event, or the night
  idle,         \* how long nothing was received or handled (since lastActivityAt), up to PingInterval
  switchedFor,  \* the switching time a switch was last asked for by this process
  switching,    \* the switch asked for has not ended
  sessionAt,    \* when the session began
  messages, changes

checkVars == <<zone, now, booking, handed, hours, running, work, idle, switchedFor, switching, sessionAt, messages, changes>>

Never == -1
NoBooking == [state |-> "none", cron |-> OneOff, due |-> 0]
Quiet == work = "none"

\* awakeAt(): the hours may go past midnight.
AwakeSlots(h) == IF h.start < h.end THEN {s \in 0..(Slots - 1) : h.start <= s /\ s < h.end}
                                    ELSE {s \in 0..(Slots - 1) : h.start <= s \/ s < h.end}
IsAwake(t) == SlotOf(t) \in AwakeSlots(hours)

-----------------------------------------------------------------------------
(* What she books, in a turn.                                               *)

\* A time that is past is refused.
BookOnce(c, due) ==
  /\ running /\ work = "event" /\ booking[c].state = "none" /\ due > now
  /\ booking' = [booking EXCEPT ![c] = [state |-> "pending", cron |-> OneOff, due |-> due]]
  /\ UNCHANGED <<zone, now, handed, hours, running, work, idle, switchedFor, switching, sessionAt, messages, changes>>

\* An expression without a run, or with none in the awake hours, is refused.
BookCron(c, cron) ==
  /\ running /\ work = "event" /\ booking[c].state = "none"
  /\ NextRun(cron, now, AwakeSlots(hours)) # NoRun
  /\ booking' = [booking EXCEPT ![c] = [state |-> "pending", cron |-> cron, due |-> NextRun(cron, now, AwakeSlots(hours))]]
  /\ UNCHANGED <<zone, now, handed, hours, running, work, idle, switchedFor, switching, sessionAt, messages, changes>>

\* By her in a turn, or by the owner.
CancelCheck(c) ==
  /\ running /\ booking[c].state = "pending"
  /\ booking' = [booking EXCEPT ![c].state = "cancelled"]
  /\ UNCHANGED <<zone, now, handed, hours, running, work, idle, switchedFor, switching, sessionAt, messages, changes>>

-----------------------------------------------------------------------------
(* One look at the clock.                                                   *)

\* advance(): the next run in the awake hours, or the next at all when the hours leave none; without one, cancelled.
Advanced(row) ==
  LET inHours == NextRun(row.cron, now, AwakeSlots(hours))
      next    == IF inHours # NoRun THEN inHours ELSE NextRun(row.cron, now, 0..(Slots - 1))
  IN IF next = NoRun THEN [row EXCEPT !.state = "cancelled"] ELSE [row EXCEPT !.due = next]

DueNow == {c \in Checks : booking[c].state = "pending" /\ booking[c].due <= now}
Repeats(c) == booking[c].cron # OneOff

\* The run a due booking is for: a repeating one's latest.
RunOf(c) == IF Repeats(c) THEN LastRun(booking[c].cron, now) ELSE booking[c].due

\* due(): a one-off however late; a repeating one when its latest run is in the awake hours, and since they last began.
Given == {c \in DueNow : Repeats(c) => /\ RunOf(c) # NoRun /\ IsAwake(RunOf(c))
                                    /\ RunOf(c) >= PreviousOccurrence(now, hours.start)}

\* Mutant: what is handed over goes on as it was, and only what is passed over is moved.
MovedOnWithout(c) == IF c \in DueNow \ Given THEN Advanced(booking[c]) ELSE booking[c]

\* Mutant: what is passed over is left as it was.
MovedOnGiven(c) ==
  CASE c \in Given /\ ~Repeats(c) -> [booking[c] EXCEPT !.state = "delivered"]
    [] c \in Given /\ Repeats(c)  -> Advanced(booking[c])
    [] OTHER                      -> booking[c]

\* deliver(), and what due() passes over.
MovedOn(c) ==
  CASE c \in Given /\ ~Repeats(c) -> [booking[c] EXCEPT !.state = "delivered"]
    [] c \in DueNow /\ Repeats(c)    -> Advanced(booking[c])
    [] OTHER                      -> booking[c]

\* switchSession(): the session began before the last switching time, and this process did not ask for that time.
AsksForNight ==
  LET at == PreviousOccurrence(now, NightlySlot)
  IN ~switching /\ at # switchedFor /\ sessionAt < at

\* tick(): the night first, so that the loop is not quiet when it was asked for.
LooksAtClock ==
  LET looks == Quiet /\ ~AsksForNight /\ IsAwake(now)
      pings == looks /\ Given = {} /\ idle = PingInterval IN
  /\ running
  /\ switchedFor' = IF AsksForNight THEN PreviousOccurrence(now, NightlySlot) ELSE switchedFor
  /\ switching' = (switching \/ AsksForNight)
  /\ booking' = IF looks THEN [c \in Checks |-> MovedOn(c)] ELSE booking
  /\ handed' = IF looks THEN [c \in Checks |-> IF c \in Given THEN Append(handed[c], RunOf(c)) ELSE handed[c]] ELSE handed
  /\ work' = CASE Quiet /\ AsksForNight -> "night"
               [] (looks /\ Given # {}) \/ pings -> "event"
               [] OTHER -> work
  /\ UNCHANGED <<zone, now, hours, running, idle, sessionAt, messages, changes>>

-----------------------------------------------------------------------------
(* What else happens.                                                       *)

TimePasses ==
  /\ now < MaxTime /\ now' = now + 1 /\ idle' = Min({idle + 1, PingInterval})
  /\ UNCHANGED <<zone, booking, handed, hours, running, work, switchedFor, switching, sessionAt, messages, changes>>

OwnerWrites ==
  /\ running /\ Quiet /\ messages < MaxMessages
  /\ work' = "event" /\ messages' = messages + 1 /\ idle' = 0
  /\ UNCHANGED <<zone, now, booking, handed, hours, running, switchedFor, switching, sessionAt, changes>>

\* The night that was asked for in an event comes after it.
EventEnds ==
  /\ running /\ work = "event"
  /\ work' = (IF switching THEN "night" ELSE "none") /\ idle' = 0
  /\ UNCHANGED <<zone, now, booking, handed, hours, running, switchedFor, switching, sessionAt, messages, changes>>

\* With a new session, or, when it was skipped or failed, without.
NightOver(switched) ==
  /\ running /\ work = "night"
  /\ work' = "none" /\ switching' = FALSE /\ idle' = 0
  /\ sessionAt' = IF switched THEN now ELSE sessionAt
  /\ UNCHANGED <<zone, now, booking, handed, hours, running, switchedFor, messages, changes>>

ChangeHours(h) ==
  /\ running /\ h # hours /\ changes < MaxChanges
  /\ hours' = h /\ changes' = changes + 1
  /\ UNCHANGED <<zone, now, booking, handed, running, work, idle, switchedFor, switching, sessionAt, messages>>

\* An event that was handed over is in its row, and comes again: here it ends with the process.
SchedulerStops ==
  /\ running /\ changes < MaxChanges
  /\ running' = FALSE /\ changes' = changes + 1
  /\ UNCHANGED <<zone, now, booking, handed, hours, work, idle, switchedFor, switching, sessionAt, messages>>

SchedulerStarts ==
  /\ ~running /\ running' = TRUE
  /\ work' = "none" /\ switching' = FALSE /\ switchedFor' = Never /\ idle' = 0
  /\ UNCHANGED <<zone, now, booking, handed, hours, sessionAt, messages, changes>>

-----------------------------------------------------------------------------
ChecksInit ==
  /\ zone \in Zones /\ now = Slots
  /\ booking = [c \in Checks |-> NoBooking] /\ handed = [c \in Checks |-> <<>>]
  /\ hours \in Hours /\ running = TRUE /\ work = "none" /\ idle = 0
  /\ switchedFor = Never /\ switching = FALSE /\ sessionAt = 0 /\ messages = 0 /\ changes = 0

ChecksNext ==
  \/ \E c \in Checks : \/ \E delay \in Delays : BookOnce(c, now + delay)
                       \/ \E cron \in Crons : BookCron(c, cron)
                       \/ CancelCheck(c)
  \/ LooksAtClock \/ TimePasses \/ OwnerWrites \/ EventEnds \/ SchedulerStops \/ SchedulerStarts
  \/ \E switched \in BOOLEAN : NightOver(switched)
  \/ \E h \in Hours : ChangeHours(h)

ChecksSpec == ChecksInit /\ [][ChecksNext]_checkVars

\* The timer ticks, time passes, turns and nights have their limits, and a stopped server is started again.
ChecksFairness ==
  /\ WF_checkVars(part = "checks" /\ LooksAtClock)
  /\ WF_checkVars(part = "checks" /\ TimePasses)
  /\ WF_checkVars(part = "checks" /\ EventEnds)
  /\ WF_checkVars(part = "checks" /\ \E switched \in BOOLEAN : NightOver(switched))
  /\ WF_checkVars(part = "checks" /\ SchedulerStarts)

-----------------------------------------------------------------------------
(* Properties.                                                              *)

ChecksTypeOK ==
  /\ now \in Nat /\ hours \in Hours /\ running \in BOOLEAN /\ switching \in BOOLEAN
  /\ \A c \in Checks : /\ booking[c].state \in {"none", "pending", "delivered", "cancelled"}
                        /\ booking[c].cron \in Crons \cup {OneOff} /\ handed[c] \in Seq(Int)
  /\ work \in {"none", "event", "night"} /\ idle \in 0..PingInterval

\* A local time that the clock shows is found again, and the last and the next time of a slot are the nearest ones.
ClockIsRead ==
  /\ Happens(DayOf(now), SlotOf(now))
  /\ \A s \in 0..(Slots - 1) :
       LET shows == [slots |-> {s}, days |-> 1..MonthDays, months |-> 1..YearMonths, weekdays |-> 0..(WeekDays - 1),
                     anyDay |-> TRUE, anyWeekday |-> TRUE]
           back  == PreviousOccurrence(now, s)
           ahead == NextOccurrence(now, s) IN
       /\ back <= now /\ now < ahead
       /\ \A t \in Runs(shows, {s}, now - Slots - 1, now) : t <= back
       /\ \A t \in Runs(shows, {s}, now + 1, now + Slots + 1) : ahead <= t

\* The next run and the last run of an expression are the nearest times at which the clock on the wall shows one, as far
\* as the days that are searched reach whole, whichever way the clock was moved.
RunsAreNearest ==
  \A cron \in Crons :
    LET span  == Slots * (SearchDays - 1)
        later == Runs(cron, AwakeSlots(hours), now + 1, now + span)
        done  == Runs(cron, 0..(Slots - 1), now - span, now) IN
    /\ later # {} => NextRun(cron, now, AwakeSlots(hours)) = Min(later)
    /\ done # {} => LastRun(cron, now) = Max(done)

\* No check is handed over twice: a one-off once, a repeating one for each run at most once, and in their order.
HandedOnce ==
  \A c \in Checks :
    /\ ~Repeats(c) => Len(handed[c]) <= 1
    /\ \A i, j \in DOMAIN handed[c] : i < j => handed[c][i] < handed[c][j]

\* A repeating check that waits is booked for a time at which it runs, after every run it was handed over for.
BookedAhead ==
  \A c \in Checks : (booking[c].state = "pending" /\ Repeats(c)) =>
    /\ booking[c].due \in Runs(booking[c].cron, 0..(Slots - 1), booking[c].due, booking[c].due)
    /\ \A i \in DOMAIN handed[c] : handed[c][i] < booking[c].due

\* What comes due does not stay so while the hours go on: it is handed over, moved on or cancelled.
DueComes == \A c \in Checks : (c \in DueNow) ~> (c \notin DueNow \/ (now = MaxTime /\ ~IsAwake(now)))

\* The clock is read rightly through its moves, and each booking is handed over once for each of its runs.
ChecksSafety == part = "checks" => ClockIsRead /\ RunsAreNearest /\ HandedOnce /\ BookedAhead
=============================================================================
