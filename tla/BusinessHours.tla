----------------------------- MODULE BusinessHours -----------------------------
(***************************************************************************)
(* The calendar arithmetic of internal/sla/business_hours.go.              *)
(*                                                                         *)
(* Time is counted in whole minutes of the calendar's zone, which has no   *)
(* clock changes here.  A calendar is [weekly, holidays]: the windows of   *)
(* each weekday, as [start, end] minutes of the day, and the days that are *)
(* holidays.  A window whose end is not after its start runs into the next *)
(* day; one that ends at 24:00 has end = DayLength.                        *)
(***************************************************************************)
EXTENDS Integers, FiniteSets

CONSTANT DayLength   \* minutes of a day

ASSUME DayAssumption == DayLength \in Nat \ {0}

Day(t) == t \div DayLength
NextLocalDay(t) == (Day(t) + 1) * DayLength

\* The minutes from a to before b, and the last of some minutes.
Span(a, b) == a .. (b - 1)
Last(minutes) == CHOOSE m \in minutes : \A x \in minutes : x <= m

\* NewCalendar: a schedule for each weekday, windows from and to minutes of a day
\* that are not the same, days for holidays.  Some weekday has a window with a
\* minute in it: without one Add ends with an error.
WellFormed(cal) ==
  LET days == DOMAIN cal.weekly IN
  /\ IsFiniteSet(days) /\ days = 0..(Cardinality(days) - 1)
  /\ \A d \in days : /\ IsFiniteSet(cal.weekly[d])
                     /\ \A w \in cal.weekly[d] : {w.start, w.end} \subseteq 0..DayLength /\ w.start # w.end
  /\ \E d \in days : \E w \in cal.weekly[d] : w.start < DayLength \/ 0 < w.end
  /\ IsFiniteSet(cal.holidays) /\ cal.holidays \subseteq Nat

\* The working intervals of t's day, as sets of minutes.
Intervals(cal, t) ==
  LET d == Day(t)
      minutes(w) == IF w.end <= w.start
                      THEN Span(d * DayLength + w.start, (d + 1) * DayLength + w.end)
                      ELSE Span(d * DayLength + w.start, d * DayLength + w.end)
  IN IF d \in cal.holidays THEN {}
     ELSE {minutes(w) : w \in cal.weekly[d % Cardinality(DOMAIN cal.weekly)]}

\* Mutant: the minutes of the first day before the start are worked as well.
Add_IgnoresStart(cal, start, duration) ==
  LET from[c \in Nat] ==
        LET open == UNION Intervals(cal, c) IN
        [left \in 1..duration |->
           IF Cardinality(open) >= left
             THEN 1 + CHOOSE m \in open : Cardinality({x \in open : x <= m}) = left
             ELSE from[NextLocalDay(c)][left - Cardinality(open)]]
  IN IF duration <= 0 THEN start ELSE from[start][duration]

\* Day by day from the cursor: the windows still ahead are used up in order, and
\* the cursor then stands at the end of the last one before it goes on to the
\* next midnight.  (A calendar with no working day at all is an error after a
\* century of days and is left out.)
Add(cal, start, duration) ==
  LET from[c \in Nat] ==
        LET ahead == {m \in UNION Intervals(cal, c) : m >= c}
            cursor == IF ahead = {} THEN c ELSE Last(ahead) + 1
        IN [left \in 1..duration |->
              IF Cardinality(ahead) >= left
                THEN 1 + CHOOSE m \in ahead : Cardinality({x \in ahead : x <= m}) = left
                ELSE from[NextLocalDay(cursor)][left - Cardinality(ahead)]]
  IN IF duration <= 0 THEN start ELSE from[start][duration]

\* From `left` on, day by day: the minutes before the end in the windows of its
\* day, each with its window, so that what two windows share counts twice.  The
\* loop stops once a full day from where it stands would pass the end.
Elapsed(cal, start, end) ==
  LET from[left \in Nat] ==
        LET today == Cardinality({p \in Intervals(cal, left) \X Span(left, end) : p[2] \in p[1]})
        IN IF left >= end \/ left + DayLength > end THEN today
           ELSE today + from[NextLocalDay(left)]
  IN IF end <= start THEN 0 ELSE from[start]

-------------------------------------------------------------------------------
(* What the arithmetic is meant to be                                        *)

\* m is a working minute: in a window of its day, or in one of the day before.
Working(cal, m) ==
  \/ m \in UNION Intervals(cal, m)
  \/ m >= DayLength /\ m \in UNION Intervals(cal, m - DayLength)

Open(cal, start, end) == Cardinality({m \in Span(start, end) : Working(cal, m)})

\* The minute a window ends in, counted from the midnight its day begins with.
EndOf(w) == IF w.end <= w.start THEN DayLength + w.end ELSE w.end

\* Windows do not overlap: not on one day, nor past midnight with the next day's.
Disjoint(cal) ==
  LET week == DOMAIN cal.weekly IN
  \A d \in week : \A v \in cal.weekly[d] :
    /\ \A w \in cal.weekly[d] \ {v} : EndOf(v) <= w.start \/ EndOf(w) <= v.start
    /\ \A w \in cal.weekly[(d + 1) % Cardinality(week)] : EndOf(v) <= DayLength + w.start

\* The windows of a day do not overlap, and are over before midnight.
Plain(cal) ==
  \A d \in DOMAIN cal.weekly : \A w \in cal.weekly[d] :
    /\ w.start < w.end /\ w.end < DayLength
    /\ \A v \in cal.weekly[d] \ {w} : v.end <= w.start \/ w.end <= v.start
===============================================================================
