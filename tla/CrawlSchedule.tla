--------------------------- MODULE CrawlSchedule ---------------------------
(***************************************************************************)
(* When one source is due again (schedule.py): its frequency, a daily      *)
(* anchor at an hour of the clock on the wall, which is put back or forth  *)
(* once, retries and cooldowns.  Time is UTC in slots of a day of Day      *)
(* slots, from 0; the wall shows the day and the slot.                     *)
(***************************************************************************)
EXTENDS Integers, Sequences

CONSTANTS
    Day,          \* slots of a day, and COOLDOWN
    AnchorGap,    \* ANCHOR_GAP
    MinFrequency, \* MIN_FREQUENCY, and the first retry
    Frequencies,  \* crawl_frequency_minutes of the source, 0 for none
    Anchors,      \* settings: the hour, and the offsets before and after the switch
    RetryAfters,  \* what a server asks for, 0 for nothing
    MaxRun,       \* bound on how long a run and a dispatch take
    MaxFailures,  \* bound on the failures told apart: more wait no longer
    Horizon       \* bound on time

ASSUME ScheduleConstants ==
    /\ {Day, AnchorGap, MinFrequency} \subseteq Nat \ {0}
    /\ Frequencies \subseteq Nat /\ RetryAfters \subseteq Nat
    /\ MaxRun \in Nat /\ MaxFailures \in Nat /\ Horizon \in Nat
    /\ \A a \in Anchors :
        /\ a.hour \in 0..(Day - 1)
        /\ {a.switch, a.before, a.after} \subseteq Int
        \* What is left out of the clock, or repeated, begins on the hour, as
        \* the anchor does, and is at most a slot.
        /\ a.after - a.before \in -1..1

VARIABLES
    clock,    \* schedule.now
    anchor,   \* anchor_settings
    plan      \* crawl_source_state of the source, and its frequency

scheduleVars == <<clock, anchor, plan>>

Categories == {"ok", "retry", "blocked", "extraction"}
Least(a, b) == IF a < b THEN a ELSE b
Greatest(a, b) == IF a > b THEN a ELSE b

\* What the wall shows at an instant.
Wall(a, t) == t + (IF t < a.switch THEN a.before ELSE a.after)

\* The mutant picks the last of a repeated hour.
UtcOfTheLast(a, wall) ==
    IF wall < a.switch + Least(a.before, a.after) THEN wall - a.before ELSE wall - a.after
\* The instant of what the wall shows: the first of a repeated hour, and in an
\* hour that is left out by the offset before it.
Utc(a, wall) ==
    IF wall < a.switch + Greatest(a.before, a.after) THEN wall - a.before ELSE wall - a.after

\* The first of three local days whose anchor is later.
AnchorAfter(a, moment) ==
    LET Candidate(k) == Utc(a, Day * (Wall(a, moment) \div Day + k) + a.hour)
        Later(k) == Candidate(k) > moment
    IN IF Later(0) THEN Candidate(0) ELSE IF Later(1) THEN Candidate(1) ELSE Candidate(2)

Period(frequency) == Greatest(frequency, MinFrequency)
\* 2 ** n for every n that occurs, 0 to 16.
Doublings == <<1, 2, 4, 8, 16, 32, 64, 128, 256, 512, 1024, 2048, 4096, 8192,
               16384, 32768, 65536>>
Backoff(failures) == MinFrequency * Doublings[Least(Greatest(failures - 1, 0), 16) + 1]

NextDue(category, started, finished, failures, hint) ==
    LET period == Period(plan.frequency) IN
    CASE category = "retry" ->
             finished + (IF hint > 0 THEN Least(hint, Day) ELSE Least(period, Backoff(failures)))
      [] category = "blocked" -> finished + Day
      [] OTHER -> Least(started + period, AnchorAfter(anchor, started + AnchorGap))

ScheduleInit ==
    /\ clock = 0
    /\ anchor \in Anchors
    /\ plan \in {[frequency |-> f, due |-> 0, started |-> 0, running |-> FALSE, failures |-> 0] : f \in Frequencies}

\* A source that is due is claimed within a while, at the latest when the
\* dispatcher comes round to it.
BeginRun ==
    /\ ~plan.running /\ clock >= plan.due
    /\ plan' = [plan EXCEPT !.running = TRUE, !.started = clock]
    /\ UNCHANGED <<clock, anchor>>

\* runs.settle, as far as the schedule is concerned.
EndRun(category, hint) ==
    LET failures == IF category = "ok" THEN 0 ELSE plan.failures + 1 IN
    /\ plan.running
    /\ hint > 0 => category = "retry"
    /\ plan' = [plan EXCEPT !.running = FALSE, !.started = 0,
                            !.failures = Least(failures, MaxFailures),
                            !.due = NextDue(category, plan.started, clock, failures, hint)]
    /\ UNCHANGED <<clock, anchor>>

\* An administrator picks another hour or another zone, or wants a run now.
ChangeAnchor ==
    /\ anchor' \in Anchors
    /\ UNCHANGED <<clock, plan>>
RunNow ==
    /\ ~plan.running
    /\ plan' = [plan EXCEPT !.due = Least(@, clock)]
    /\ UNCHANGED <<clock, anchor>>

ScheduleTick ==
    /\ clock < Horizon
    /\ clock < MaxRun + (IF plan.running THEN plan.started ELSE plan.due)
    /\ clock' = clock + 1
    /\ UNCHANGED <<anchor, plan>>

ScheduleNext ==
    \/ BeginRun \/ ChangeAnchor \/ RunNow \/ ScheduleTick
    \/ \E category \in Categories, hint \in RetryAfters \cup {0} : EndRun(category, hint)

ScheduleTypeOK ==
    /\ clock \in 0..Horizon
    /\ anchor \in Anchors
    /\ plan \in [frequency: Frequencies, due: Nat, started: Nat, running: BOOLEAN,
                 failures: 0..MaxFailures]

\* The hour of the anchor comes when the wall shows it, or more, for the
\* first time on that day.
Passed(a, t) == (Wall(a, t) + Day - a.hour) \div Day
Comes(a, t) == \A u \in 0..(t - 1) : Passed(a, u) < Passed(a, t)

\* After a run that went well, or found nothing it could use, the source is
\* due within its period and no later than the first anchor that comes more
\* than a gap after the start, whichever way the clock on the wall is put in
\* between; after any other run it is due later than now and within a day,
\* or within its period.
AtTheNextAnchor ==
    /\ plan.started < plan'.due
    /\ plan'.due <= plan.started + Period(plan.frequency)
    /\ \A t \in (plan.started + AnchorGap + 1)..(plan'.due - 1) : ~Comes(anchor, t)
WithinADay ==
    /\ clock < plan'.due
    /\ plan'.due <= clock + Greatest(Day, Period(plan.frequency))
DueByTheRule ==
    [][/\ EndRun("ok", 0) \/ EndRun("extraction", 0) => AtTheNextAnchor
       /\ \A hint \in RetryAfters \cup {0} : EndRun("retry", hint) => WithinADay
       /\ EndRun("blocked", 0) => WithinADay]_scheduleVars

ScheduleSpec == ScheduleInit /\ [][ScheduleNext]_scheduleVars
=============================================================================
