------------------------------ MODULE Sla_proofs ------------------------------
(***************************************************************************)
(* What the calendar's arithmetic, the timers and the schedule of their    *)
(* evaluation promise, for any policy, well-formed calendar, pause states  *)
(* and number of ticks, messages and faults.  The first half is about the  *)
(* recursive functions Add and Elapsed: that there are such functions at   *)
(* all, and which minutes they find.                                       *)
(***************************************************************************)
EXTENDS Sla, FiniteSetTheorems, WellFoundedInduction, TLAPS

-------------------------------------------------------------------------------
(* The least of some numbers                                                *)

\* Everything here that takes an induction argues from a least counterexample.
LEMMA HasLeast ==
  ASSUME NEW S, S \subseteq Nat, S # {}
  PROVE  \E n \in S : \A m \in S : n <= m
<1> DEFINE R == OpToRel(<, Nat)
<1>1. PICK n \in S : \A m \in S : ~(<<m, n>> \in R)
  BY NatLessThanWellFounded, WFMin
<1>2. \A m \in S : ~(m < n)  BY <1>1 DEF OpToRel
<1> QED  BY <1>2

-------------------------------------------------------------------------------
(* Days and minutes                                                          *)

LEMMA DayIs ==
  ASSUME NEW t \in Nat
  PROVE  /\ Day(t) \in Nat /\ Day(t) * DayLength \in Nat
         /\ Day(t) * DayLength <= t /\ t < Day(t) * DayLength + DayLength
BY DayAssumption DEF Day

LEMMA DaysApart ==
  ASSUME NEW a \in Nat, NEW b \in Nat, a < b
  PROVE  /\ a * DayLength \in Nat /\ b * DayLength \in Nat
         /\ a * DayLength + DayLength <= b * DayLength
<1>1. PICK c \in Nat : b = a + 1 + c
  <2>1. b - a - 1 \in Nat /\ b = a + 1 + (b - a - 1)  OBVIOUS
  <2> QED  BY <2>1
<1>2. b * DayLength = a * DayLength + DayLength + c * DayLength  BY <1>1, DayAssumption
<1>3. a * DayLength \in Nat /\ b * DayLength \in Nat /\ c * DayLength \in Nat  BY DayAssumption
<1> QED  BY <1>2, <1>3, DayAssumption

LEMMA DayUnique ==
  ASSUME NEW t \in Nat, NEW d \in Nat, d * DayLength <= t, t < d * DayLength + DayLength
  PROVE  Day(t) = d
<1>1. /\ Day(t) \in Nat /\ Day(t) * DayLength \in Nat /\ d * DayLength \in Nat
      /\ Day(t) * DayLength <= t /\ t < Day(t) * DayLength + DayLength
  BY DayIs, DayAssumption
<1> DEFINE x == Day(t) * DayLength  y == d * DayLength
<1>2. x \in Nat /\ y \in Nat /\ x <= t /\ t < x + DayLength /\ y <= t /\ t < y + DayLength
  BY <1>1
<1>3. /\ Day(t) < d => x + DayLength <= y
      /\ d < Day(t) => y + DayLength <= x
  BY <1>1, DaysApart
<1> HIDE DEF x, y
<1> QED  BY <1>1, <1>2, <1>3, DayAssumption

LEMMA NextDayIs ==
  ASSUME NEW t \in Nat
  PROVE  /\ NextLocalDay(t) \in Nat /\ NextLocalDay(t) = Day(t) * DayLength + DayLength
         /\ t < NextLocalDay(t) /\ NextLocalDay(t) <= t + DayLength
         /\ Day(NextLocalDay(t)) = Day(t) + 1
<1> DEFINE n == Day(t) * DayLength + DayLength
<1>1. /\ Day(t) \in Nat /\ Day(t) * DayLength \in Nat /\ DayLength \in Nat /\ DayLength > 0
      /\ Day(t) * DayLength <= t /\ t < Day(t) * DayLength + DayLength
  BY DayIs, DayAssumption
<1>2. (Day(t) + 1) * DayLength = n  BY <1>1
<1>3. NextLocalDay(t) = n  BY <1>2 DEF NextLocalDay
<1>4. n \in Nat /\ t < n /\ n <= t + DayLength  BY <1>1
<1>5. Day(n) = Day(t) + 1
  <2>1. Day(t) + 1 \in Nat /\ (Day(t) + 1) * DayLength <= n /\ n < (Day(t) + 1) * DayLength + DayLength
    BY <1>1, <1>2, <1>4
  <2> HIDE DEF n
  <2> QED  BY <1>4, <2>1, DayUnique
<1> QED  BY <1>3, <1>4, <1>5

\* Minutes of one day.
DayMinutes(d) == Span(d * DayLength, d * DayLength + DayLength)

LEMMA DayMinutesAre ==
  ASSUME NEW d \in Nat
  PROVE  \A m \in Nat : m \in DayMinutes(d) <=> Day(m) = d
<1> SUFFICES ASSUME NEW m \in Nat PROVE m \in DayMinutes(d) <=> Day(m) = d  OBVIOUS
<1>1. d * DayLength \in Nat /\ DayLength \in Nat  BY DayAssumption
<1>2. m \in DayMinutes(d) <=> d * DayLength <= m /\ m < d * DayLength + DayLength
  BY <1>1 DEF DayMinutes, Span
<1> QED  BY <1>2, DayIs, DayUnique

-------------------------------------------------------------------------------
(* The windows of a calendar without overlaps                                *)

\* The minutes of window w on day d.
On(d, w) == Span(d * DayLength + w.start, d * DayLength + w.end)
Windows(cal, d) == cal.weekly[d % Cardinality(DOMAIN cal.weekly)]

LEMMA WeekdayIs ==
  ASSUME NEW cal, WellFormed(cal)
  PROVE  \E n \in Nat \ {0} : /\ DOMAIN cal.weekly = 0..(n - 1) /\ Cardinality(DOMAIN cal.weekly) = n
                              /\ \A d \in Nat : d % n \in DOMAIN cal.weekly
<1> DEFINE n == Cardinality(DOMAIN cal.weekly)
<1>1. n \in Nat /\ DOMAIN cal.weekly = 0..(n - 1) /\ DOMAIN cal.weekly # {}
  BY FS_CardinalityType DEF WellFormed
<1> HIDE DEF n
<1>2. n \in Nat \ {0}  BY <1>1
<1>3. \A d \in Nat : d % n \in 0..(n - 1)  BY <1>2
<1> QED  BY <1>1, <1>2, <1>3 DEF n

\* The windows of a day are over by the end of the next one.
LEMMA MinutesNear ==
  ASSUME NEW cal, WellFormed(cal), NEW t \in Nat
  PROVE  \A i \in Intervals(cal, t) : i \subseteq Span(Day(t) * DayLength, Day(t) * DayLength + DayLength + DayLength)
<1> DEFINE d == Day(t)  x == d * DayLength
<1>1. d \in Nat /\ x \in Nat /\ DayLength \in Nat  BY DayIs, DayAssumption
<1>2. (d + 1) * DayLength = x + DayLength  BY <1>1
<1>3. d % Cardinality(DOMAIN cal.weekly) \in DOMAIN cal.weekly  BY <1>1, WeekdayIs
<1>4. \A w \in Windows(cal, d) : w.start \in 0..DayLength /\ w.end \in 0..DayLength
  BY <1>3 DEF WellFormed, Windows
<1> SUFFICES ASSUME NEW i \in Intervals(cal, t), NEW m \in i
             PROVE  m \in Span(x, x + DayLength + DayLength)
  OBVIOUS
<1>5. PICK w \in Windows(cal, d) :
        i = IF w.end <= w.start THEN Span(x + w.start, (d + 1) * DayLength + w.end)
                                ELSE Span(x + w.start, x + w.end)
  BY DEF Intervals, Windows
<1> HIDE DEF x
<1>6. i = IF w.end <= w.start THEN Span(x + w.start, x + DayLength + w.end)
                              ELSE Span(x + w.start, x + w.end)
  BY <1>2, <1>5
<1> QED  BY <1>1, <1>4, <1>6 DEF Span

\* The minutes of window w on day d, past midnight too.
OnTo(d, w) == Span(d * DayLength + w.start, d * DayLength + EndOf(w))

LEMMA IntervalsOf ==
  ASSUME NEW cal, WellFormed(cal), NEW t \in Nat
  PROVE  /\ Day(t) \in cal.holidays => Intervals(cal, t) = {}
         /\ Day(t) \notin cal.holidays => Intervals(cal, t) = {OnTo(Day(t), w) : w \in Windows(cal, Day(t))}
         /\ \A w \in Windows(cal, Day(t)) : /\ w.start \in Nat /\ w.end \in Nat
                                            /\ EndOf(w) \in Nat /\ EndOf(w) <= DayLength + DayLength
<1> DEFINE d == Day(t)  x == d * DayLength
<1>1. d \in Nat /\ x \in Nat /\ DayLength \in Nat /\ (d + 1) * DayLength = x + DayLength  BY DayIs, DayAssumption
<1>2. \A w \in Windows(cal, d) : w.start \in 0..DayLength /\ w.end \in 0..DayLength
  <2>1. d % Cardinality(DOMAIN cal.weekly) \in DOMAIN cal.weekly  BY <1>1, WeekdayIs
  <2> QED  BY <2>1 DEF WellFormed, Windows
<1> DEFINE minutes(w) == IF w.end <= w.start THEN Span(x + w.start, (d + 1) * DayLength + w.end)
                                             ELSE Span(x + w.start, x + w.end)
<1>3. \A w \in Windows(cal, d) : minutes(w) = OnTo(d, w)
  <2> SUFFICES ASSUME NEW w \in Windows(cal, d) PROVE minutes(w) = OnTo(d, w)  OBVIOUS
  <2>1. CASE w.end <= w.start
    <3>1. (d + 1) * DayLength + w.end = x + EndOf(w)
      <4>1. EndOf(w) = DayLength + w.end /\ w.end \in Nat  BY <1>2, <2>1 DEF EndOf
      <4> HIDE DEF x
      <4> QED  BY <1>1, <4>1
    <3> QED  BY <2>1, <3>1 DEF OnTo
  <2>2. CASE ~(w.end <= w.start)  BY <2>2 DEF OnTo, EndOf
  <2> QED  BY <2>1, <2>2
<1>4. Intervals(cal, t) = IF d \in cal.holidays THEN {} ELSE {minutes(w) : w \in Windows(cal, d)}
  BY DEF Intervals, Windows
<1>5. {minutes(w) : w \in Windows(cal, d)} = {OnTo(d, w) : w \in Windows(cal, d)}  BY <1>3
<1>6. \A w \in Windows(cal, d) : /\ w.start \in Nat /\ w.end \in Nat
                                 /\ EndOf(w) \in Nat /\ EndOf(w) <= DayLength + DayLength
  BY <1>1, <1>2 DEF EndOf
<1> QED  BY <1>4, <1>5, <1>6

\* All of them are worked, on this day or the next.
LEMMA MinutesWorked ==
  ASSUME NEW cal, WellFormed(cal), NEW t \in Nat, NEW m \in UNION Intervals(cal, t)
  PROVE  m \in Nat /\ Working(cal, m)
<1> DEFINE x == Day(t) * DayLength
<1>1. Day(t) \in Nat /\ x \in Nat /\ DayLength \in Nat \ {0}  BY DayIs, DayAssumption
<1>2. m \in Span(x, x + DayLength + DayLength)  BY MinutesNear
<1> HIDE DEF x
<1>3. m \in Nat /\ x <= m /\ m < x + DayLength + DayLength  BY <1>1, <1>2 DEF Span
<1>4. CASE m < x + DayLength
  <2>1. Day(m) = Day(t)  BY <1>1, <1>3, <1>4, DayUnique DEF x
  <2>2. Intervals(cal, m) = Intervals(cal, t)  BY <2>1 DEF Intervals
  <2> QED  BY <1>3, <2>2 DEF Working
<1>5. CASE ~(m < x + DayLength)
  <2>1. m - DayLength \in Nat /\ x <= m - DayLength /\ m - DayLength < x + DayLength /\ m >= DayLength
    BY <1>1, <1>3, <1>5
  <2>2. Day(m - DayLength) = Day(t)  BY <1>1, <2>1, DayUnique DEF x
  <2>3. Intervals(cal, m - DayLength) = Intervals(cal, t)  BY <2>2 DEF Intervals
  <2> QED  BY <1>3, <2>1, <2>3 DEF Working
<1> QED  BY <1>4, <1>5

LEMMA PlainIsDisjoint ==
  ASSUME NEW cal, WellFormed(cal), Plain(cal)
  PROVE  Disjoint(cal)
<1>1. PICK n \in Nat \ {0} : DOMAIN cal.weekly = 0..(n - 1) /\ Cardinality(DOMAIN cal.weekly) = n
  BY WeekdayIs
<1>2. \A d \in DOMAIN cal.weekly : (d + 1) % n \in DOMAIN cal.weekly  BY <1>1
<1>3. \A d \in DOMAIN cal.weekly : \A w \in cal.weekly[d] :
        w.start \in Nat /\ w.end \in Nat /\ EndOf(w) = w.end /\ w.end < DayLength
  <2> SUFFICES ASSUME NEW d \in DOMAIN cal.weekly, NEW w \in cal.weekly[d]
               PROVE w.start \in Nat /\ w.end \in Nat /\ EndOf(w) = w.end /\ w.end < DayLength
    OBVIOUS
  <2>1. w.start \in 0..DayLength /\ w.end \in 0..DayLength  BY DEF WellFormed
  <2>2. w.start < w.end /\ w.end < DayLength  BY DEF Plain
  <2>3. w.start \in Nat /\ w.end \in Nat  BY <2>1, DayAssumption
  <2> QED  BY <2>2, <2>3 DEF EndOf
<1>4. ASSUME NEW d \in DOMAIN cal.weekly, NEW v \in cal.weekly[d], NEW w \in cal.weekly[d] \ {v}
      PROVE  EndOf(v) <= w.start \/ EndOf(w) <= v.start
  BY <1>3 DEF Plain
<1>5. ASSUME NEW d \in DOMAIN cal.weekly, NEW v \in cal.weekly[d], NEW w \in cal.weekly[(d + 1) % n]
      PROVE  EndOf(v) <= DayLength + w.start
  <2>1. w.start \in Nat /\ EndOf(v) = v.end /\ v.end \in Nat /\ v.end < DayLength  BY <1>2, <1>3
  <2> QED  BY <2>1, DayAssumption
<1> QED  BY <1>1, <1>4, <1>5 DEF Disjoint

\* Two windows of a day have no minute in common.
LEMMA OneInterval ==
  ASSUME NEW cal, WellFormed(cal), Disjoint(cal), NEW t \in Nat,
         NEW i \in Intervals(cal, t), NEW j \in Intervals(cal, t), i \cap j # {}
  PROVE  i = j
<1> DEFINE d == Day(t)  x == d * DayLength
<1>1. d \in Nat /\ x \in Nat /\ d \notin cal.holidays /\ d % Cardinality(DOMAIN cal.weekly) \in DOMAIN cal.weekly
  BY DayIs, IntervalsOf, WeekdayIs
<1>2. PICK v \in Windows(cal, d) : i = OnTo(d, v)  BY <1>1, IntervalsOf
<1>3. PICK w \in Windows(cal, d) : j = OnTo(d, w)  BY <1>1, IntervalsOf
<1>4. v.start \in Nat /\ EndOf(v) \in Nat /\ w.start \in Nat /\ EndOf(w) \in Nat  BY IntervalsOf
<1>5. v # w => EndOf(v) <= w.start \/ EndOf(w) <= v.start  BY <1>1 DEF Disjoint, Windows
<1>6. PICK m : m \in Span(x + v.start, x + EndOf(v)) /\ m \in Span(x + w.start, x + EndOf(w))
  BY <1>2, <1>3 DEF OnTo
<1>7. v = w
  <2> HIDE DEF x
  <2> QED  BY <1>1, <1>4, <1>5, <1>6 DEF Span
<1> QED  BY <1>2, <1>3, <1>7

LEMMA Remainder ==
  ASSUME NEW n \in Nat \ {0}, NEW k \in 0..(n - 1), NEW q \in Nat
  PROVE  (k + n * q) % n = k
OBVIOUS

\* The weekday after.
LEMMA WeekdayAfter ==
  ASSUME NEW n \in Nat \ {0}, NEW d \in Nat
  PROVE  (d + 1) % n = ((d % n) + 1) % n
<1> DEFINE q == d \div n  r == d - q * n
<1>1. q \in Nat /\ q * n \in Nat /\ q * n <= d /\ d < q * n + n  OBVIOUS
<1>2. r \in 0..(n - 1) /\ d = r + n * q
  <2>1. q * n = n * q  BY <1>1
  <2> HIDE DEF q
  <2> QED  BY <1>1, <2>1
<1>0. d % n = r
  <2> HIDE DEF q, r
  <2> QED  BY <1>1, <1>2, Remainder
<1> HIDE DEF q, r
<1>3. CASE r + 1 < n
  <2>1. r + 1 \in 0..(n - 1) /\ 0 \in Nat /\ r + 1 = r + 1 + n * 0 /\ d + 1 = r + 1 + n * q
    BY <1>1, <1>2, <1>3
  <2>2. (d + 1) % n = r + 1
    <3>1. (r + 1 + n * q) % n = r + 1  BY <1>1, <2>1, Remainder
    <3> QED  BY <2>1, <3>1
  <2>3. (r + 1) % n = r + 1  BY <2>1, Remainder
  <2> QED  BY <1>0, <2>2, <2>3
<1>4. CASE r + 1 = n
  <2>1. 0 \in 0..(n - 1) /\ q + 1 \in Nat /\ 1 \in Nat  BY <1>1
  <2>2. d + 1 = 0 + n * (q + 1) /\ n = 0 + n * 1  BY <1>1, <1>2, <1>4
  <2>3. (0 + n * (q + 1)) % n = 0  BY <2>1, Remainder
  <2>4. (0 + n * 1) % n = 0  BY <2>1, Remainder
  <2>5. (d + 1) % n = 0 /\ n % n = 0  BY <2>2, <2>3, <2>4
  <2> QED  BY <1>0, <1>4, <2>5
<1> QED  BY <1>2, <1>3, <1>4

\* Nor have windows of two days.
LEMMA NoneTwice ==
  ASSUME NEW cal, WellFormed(cal), Disjoint(cal), NEW t \in Nat, NEW u \in Nat, Day(t) < Day(u),
         NEW m, m \in UNION Intervals(cal, t), m \in UNION Intervals(cal, u)
  PROVE  FALSE
<1> DEFINE x == Day(t) * DayLength  y == Day(u) * DayLength
<1>1. /\ Day(t) \in Nat /\ Day(u) \in Nat /\ x \in Nat /\ y \in Nat /\ DayLength \in Nat
      /\ Day(t) \notin cal.holidays /\ Day(u) \notin cal.holidays
  BY DayIs, IntervalsOf, DayAssumption
<1>2. PICK v \in Windows(cal, Day(t)) : m \in Span(x + v.start, x + EndOf(v))
  BY <1>1, IntervalsOf DEF OnTo
<1>3. PICK w \in Windows(cal, Day(u)) : m \in Span(y + w.start, y + EndOf(w))
  BY <1>1, IntervalsOf DEF OnTo
<1>4. /\ v.start \in Nat /\ EndOf(v) \in Nat /\ EndOf(v) <= DayLength + DayLength
      /\ w.start \in Nat /\ EndOf(w) \in Nat
  BY IntervalsOf
<1>5. CASE Day(u) = Day(t) + 1
  <2>1. y = x + DayLength  BY <1>1, <1>5
  <2>2. PICK n \in Nat \ {0} : /\ Cardinality(DOMAIN cal.weekly) = n
                               /\ Day(t) % n \in DOMAIN cal.weekly
    BY <1>1, WeekdayIs
  <2>3. Windows(cal, Day(u)) = cal.weekly[((Day(t) % n) + 1) % n] /\ Windows(cal, Day(t)) = cal.weekly[Day(t) % n]
    BY <1>1, <1>5, <2>2, WeekdayAfter DEF Windows
  <2>4. EndOf(v) <= DayLength + w.start  BY <2>2, <2>3 DEF Disjoint
  <2> HIDE DEF x, y
  <2> QED  BY <1>1, <1>2, <1>3, <1>4, <2>1, <2>4 DEF Span
<1>6. CASE Day(t) + 1 < Day(u)
  <2>1. (Day(t) + 1) * DayLength = x + DayLength  BY <1>1
  <2>2. x + DayLength + DayLength <= y  BY <1>1, <1>6, <2>1, DaysApart
  <2> HIDE DEF x, y
  <2> QED  BY <1>1, <1>2, <1>3, <1>4, <2>2 DEF Span
<1> QED  BY <1>1, <1>5, <1>6

LEMMA WindowsAre ==
  ASSUME NEW cal, WellFormed(cal), Plain(cal), NEW d \in Nat
  PROVE  /\ IsFiniteSet(Windows(cal, d))
         /\ \A w \in Windows(cal, d) :
              /\ w.start \in Nat /\ w.end \in Nat /\ w.start < w.end /\ w.end < DayLength
              /\ On(d, w) \subseteq DayMinutes(d) \cap Nat
              /\ \A v \in Windows(cal, d) : v # w => On(d, v) \cap On(d, w) = {}
<1>1. d % Cardinality(DOMAIN cal.weekly) \in DOMAIN cal.weekly  BY WeekdayIs
<1>2. /\ IsFiniteSet(Windows(cal, d))
      /\ \A w \in Windows(cal, d) :
           /\ {w.start, w.end} \subseteq 0..DayLength
           /\ w.start < w.end /\ w.end < DayLength
           /\ \A v \in Windows(cal, d) \ {w} : v.end <= w.start \/ w.end <= v.start
  BY <1>1 DEF WellFormed, Plain, Windows
<1>3. \A w \in Windows(cal, d) : w.start \in Nat /\ w.end \in Nat  BY <1>2, DayAssumption
<1>4. ASSUME NEW w \in Windows(cal, d) PROVE On(d, w) \subseteq DayMinutes(d) \cap Nat
  <2>1. /\ w.start \in Nat /\ w.end \in Nat /\ w.end < DayLength
        /\ d * DayLength \in Nat /\ DayLength \in Nat
    BY <1>2, <1>3, DayAssumption
  <2> QED  BY <2>1 DEF On, DayMinutes, Span
<1>5. ASSUME NEW w \in Windows(cal, d), NEW v \in Windows(cal, d), v # w PROVE On(d, v) \cap On(d, w) = {}
  <2>1. /\ w.start \in Nat /\ w.end \in Nat /\ v.start \in Nat /\ v.end \in Nat
        /\ v.end <= w.start \/ w.end <= v.start
        /\ d * DayLength \in Nat
    BY <1>2, <1>3, <1>5, DayAssumption
  <2> QED  BY <2>1 DEF On, Span
<1> QED  BY <1>2, <1>3, <1>4, <1>5

\* Its intervals are the windows of the day.
LEMMA IntervalsAre ==
  ASSUME NEW cal, WellFormed(cal), Plain(cal), NEW t \in Nat
  PROVE  /\ Day(t) \in cal.holidays => Intervals(cal, t) = {}
         /\ Day(t) \notin cal.holidays => Intervals(cal, t) = {On(Day(t), w) : w \in Windows(cal, Day(t))}
<1>1. Day(t) \in Nat  BY DayIs
<1>2. \A w \in Windows(cal, Day(t)) : ~(w.end <= w.start)  BY <1>1, WindowsAre
<1> QED  BY <1>2 DEF Intervals, On, Windows

\* A minute is worked if a window of its own day has it: none runs into the next.
LEMMA WorkingIs ==
  ASSUME NEW cal, WellFormed(cal), Plain(cal), NEW m \in Nat
  PROVE  Working(cal, m) <=> m \in UNION Intervals(cal, m)
<1> SUFFICES ASSUME m >= DayLength PROVE m \notin UNION Intervals(cal, m - DayLength)
  BY DEF Working
<1> DEFINE t == m - DayLength
<1>1. t \in Nat  BY DayAssumption
<1> HIDE DEF t
<1>2. Day(t) \in Nat /\ Day(t) * DayLength \in Nat /\ Day(t) * DayLength <= t  BY <1>1, DayIs
<1>3. m \notin DayMinutes(Day(t))
  <2>1. m = t + DayLength  BY DayAssumption DEF t
  <2>2. ~(m < Day(t) * DayLength + DayLength)  BY <1>1, <1>2, <2>1, DayAssumption
  <2>3. \A x \in DayMinutes(Day(t)) : x < Day(t) * DayLength + DayLength
    BY <1>2, DayAssumption DEF DayMinutes, Span
  <2> QED  BY <2>2, <2>3
<1>4. UNION Intervals(cal, t) \subseteq DayMinutes(Day(t))
  BY <1>1, <1>2, IntervalsAre, WindowsAre
<1> QED  BY <1>3, <1>4 DEF t

LEMMA MinutesOf ==
  ASSUME NEW cal, WellFormed(cal), Plain(cal), NEW t \in Nat
  PROVE  UNION Intervals(cal, t) = {m \in DayMinutes(Day(t)) \cap Nat : Working(cal, m)}
<1>1. Day(t) \in Nat  BY DayIs
<1>2. UNION Intervals(cal, t) \subseteq DayMinutes(Day(t)) \cap Nat
  BY <1>1, IntervalsAre, WindowsAre
<1>3. \A m \in DayMinutes(Day(t)) \cap Nat : Day(m) = Day(t)  BY <1>1, DayMinutesAre
<1>4. \A m \in DayMinutes(Day(t)) \cap Nat : Intervals(cal, m) = Intervals(cal, t)
  BY <1>3 DEF Intervals
<1> QED  BY <1>2, <1>4, WorkingIs

-------------------------------------------------------------------------------
(* What is worked between two minutes                                        *)

Worked(cal, a, b) == {m \in Span(a, b) : Working(cal, m)}

LEMMA OpenIs ==
  ASSUME NEW cal, NEW a \in Int, NEW b \in Int
  PROVE  /\ IsFiniteSet(Worked(cal, a, b)) /\ Open(cal, a, b) = Cardinality(Worked(cal, a, b))
         /\ Open(cal, a, b) \in Nat
<1>1. IsFiniteSet(Span(a, b))  BY FS_Interval DEF Span
<1>2. IsFiniteSet(Worked(cal, a, b))  BY <1>1, FS_Subset DEF Worked
<1>3. Open(cal, a, b) = Cardinality(Worked(cal, a, b))  BY DEF Open, Worked
<1> QED  BY <1>2, <1>3, FS_CardinalityType

LEMMA OpenSplits ==
  ASSUME NEW cal, NEW a \in Int, NEW b \in Int, NEW c \in Int, a <= b, b <= c
  PROVE  Open(cal, a, c) = Open(cal, a, b) + Open(cal, b, c)
<1> DEFINE S == Worked(cal, a, b)  T == Worked(cal, b, c)
<1>1. S \cap T = {} /\ S \cup T = Worked(cal, a, c)  BY DEF Worked, Span
<1>2. IsFiniteSet(S) /\ IsFiniteSet(T)  BY OpenIs
<1>3. /\ Open(cal, a, c) = Cardinality(Worked(cal, a, c))
      /\ Open(cal, a, b) = Cardinality(S) /\ Open(cal, b, c) = Cardinality(T)
      /\ Open(cal, a, b) \in Nat /\ Open(cal, b, c) \in Nat
  BY OpenIs
<1> HIDE DEF S, T
<1>4. Cardinality(S \cup T) = Cardinality(S) + Cardinality(T) - Cardinality(S \cap T)
  BY <1>2, FS_Union
<1>5. Cardinality(S \cap T) = 0  BY <1>1, FS_EmptySet
<1> QED  BY <1>1, <1>3, <1>4, <1>5

LEMMA OpenNone ==
  ASSUME NEW cal, NEW a \in Int
  PROVE  Open(cal, a, a) = 0
<1>1. Worked(cal, a, a) = {}  BY DEF Worked, Span
<1> QED  BY <1>1, OpenIs, FS_EmptySet

LEMMA OpenNext ==
  ASSUME NEW cal, NEW a \in Int, NEW m \in Int, a <= m
  PROVE  Open(cal, a, m + 1) = Open(cal, a, m) + IF Working(cal, m) THEN 1 ELSE 0
<1>1. m + 1 \in Int /\ m <= m + 1  OBVIOUS
<1>2. Open(cal, a, m + 1) = Open(cal, a, m) + Open(cal, m, m + 1)  BY <1>1, OpenSplits
<1>3. Worked(cal, m, m + 1) = IF Working(cal, m) THEN {m} ELSE {}  BY DEF Worked, Span
<1>4. Cardinality({m}) = 1 /\ Cardinality({}) = 0  BY FS_Singleton, FS_EmptySet, Zenon
<1>5. Open(cal, m, m + 1) = Cardinality(Worked(cal, m, m + 1))  BY <1>1, OpenIs
<1> QED  BY <1>2, <1>3, <1>4, <1>5

\* More time, more work.
LEMMA OpenGrows ==
  ASSUME NEW cal, NEW a \in Int, NEW b \in Int, NEW c \in Int, b <= c
  PROVE  Open(cal, a, b) <= Open(cal, a, c)
<1>1. Worked(cal, a, b) \subseteq Worked(cal, a, c)  BY DEF Worked, Span
<1> QED  BY <1>1, OpenIs, FS_Subset

-------------------------------------------------------------------------------
(* Elapsed                                                                   *)

\* What Elapsed counts of the day of `left`.
Today(cal, left, end) == Cardinality({p \in Intervals(cal, left) \X Span(left, end) : p[2] \in p[1]})

\* The minutes it counts.
Seen(cal, left, end) == {m \in Span(left, end) : m \in UNION Intervals(cal, left)}

LEMMA TodayCounts ==
  ASSUME NEW cal, WellFormed(cal), Disjoint(cal), NEW left \in Nat, NEW end \in Nat
  PROVE  IsFiniteSet(Seen(cal, left, end)) /\ Today(cal, left, end) = Cardinality(Seen(cal, left, end))
<1> DEFINE I == Intervals(cal, left)
           S == Seen(cal, left, end)
           T == {p \in I \X Span(left, end) : p[2] \in p[1]}
           f == [m \in S |-> <<CHOOSE i \in I : m \in i, m>>]
<1>1. IsFiniteSet(S)
  <2>1. IsFiniteSet(Span(left, end))  BY FS_Interval DEF Span
  <2> QED  BY <2>1, FS_Subset DEF Seen
<1>2. S \subseteq Nat /\ S = {m \in Span(left, end) \cap Nat : m \in UNION I}
  <2>1. Span(left, end) \subseteq Nat  BY DEF Span
  <2> QED  BY <2>1 DEF Seen
<1>3. \A i, j \in I : i \cap j # {} => i = j  BY OneInterval
<1> HIDE DEF I, S
<1>4. \A m \in S : /\ (CHOOSE i \in I : m \in i) \in I /\ m \in (CHOOSE i \in I : m \in i)
                   /\ m \in Span(left, end)
  BY <1>2
<1>5. f \in [S -> T]  BY <1>4
<1>6. \A x, y \in S : f[x] = f[y] => x = y
  <2> SUFFICES ASSUME NEW x \in S, NEW y \in S, f[x] = f[y] PROVE x = y  OBVIOUS
  <2>1. f[x][2] = x /\ f[y][2] = y  OBVIOUS
  <2> QED  BY <2>1
<1>7. \A p \in T : \E m \in S : f[m] = p
  <2> SUFFICES ASSUME NEW p \in T PROVE \E m \in S : f[m] = p  OBVIOUS
  <2>1. PICK i \in I, m \in Span(left, end) : p = <<i, m>>  OBVIOUS
  <2>2. m \in i  BY <2>1
  <2>3. m \in S
    <3>1. m \in Nat  BY <2>1 DEF Span
    <3> QED  BY <1>2, <2>1, <2>2, <3>1
  <2>4. (CHOOSE j \in I : m \in j) = i  BY <1>3, <1>4, <2>2, <2>3
  <2> QED  BY <2>1, <2>3, <2>4
<1>8. f \in Bijection(S, T)
  BY <1>5, <1>6, <1>7 DEF Bijection, Injection, Surjection, IsInjective
<1> HIDE DEF f, T
<1>9. Cardinality(T) = Cardinality(S)  BY <1>1, <1>8, FS_Bijection DEF ExistsBijection
<1> QED  BY <1>1, <1>9 DEF Today, I, S, T

\* It is what is worked before the end or the next midnight.
LEMMA TodayIs ==
  ASSUME NEW cal, WellFormed(cal), Plain(cal), NEW left \in Nat, NEW end \in Nat
  PROVE  /\ end <= NextLocalDay(left) => Today(cal, left, end) = Open(cal, left, end)
         /\ NextLocalDay(left) <= end => Today(cal, left, end) = Open(cal, left, NextLocalDay(left))
<1> DEFINE x == Day(left) * DayLength  n == NextLocalDay(left)
<1>1. /\ x \in Nat /\ x <= left /\ n = x + DayLength /\ n \in Nat /\ DayMinutes(Day(left)) = Span(x, n)
  BY DayIs, NextDayIs DEF DayMinutes
<1> HIDE DEF x, n
<1>2. end <= n => Worked(cal, left, end) \cap Span(x, n) = Worked(cal, left, end)
  BY <1>1 DEF Worked, Span
<1>3. n <= end => Worked(cal, left, end) \cap Span(x, n) = Worked(cal, left, n)
  BY <1>1 DEF Worked, Span
<1>4. Open(cal, left, end) = Cardinality(Worked(cal, left, end)) /\ Open(cal, left, n) = Cardinality(Worked(cal, left, n))
  BY <1>1, OpenIs
<1>5. Today(cal, left, end) = Cardinality(Worked(cal, left, end) \cap Span(x, n))
  <2>1. Seen(cal, left, end) = Worked(cal, left, end) \cap DayMinutes(Day(left))
    <3>1. Span(left, end) \subseteq Nat  BY DEF Span
    <3> QED  BY <3>1, MinutesOf DEF Seen, Worked
  <2>2. Disjoint(cal)  BY PlainIsDisjoint
  <2>3. Today(cal, left, end) = Cardinality(Seen(cal, left, end))  BY <2>2, TodayCounts
  <2> QED  BY <1>1, <2>1, <2>3
<1> QED  BY <1>1, <1>2, <1>3, <1>4, <1>5 DEF n

\* The loop of Elapsed, as a function of where it stands, from `first` on.
Stops(left, end) == left >= end \/ left + DayLength > end
ElapsesFrom(cal, end, first) ==
  \E g \in [{t \in Nat : t >= first} -> Nat] : \A t \in {u \in Nat : u >= first} :
     g[t] = IF Stops(t, end) THEN Today(cal, t, end) ELSE Today(cal, t, end) + g[NextLocalDay(t)]

LEMMA TodayNat ==
  ASSUME NEW cal, WellFormed(cal), NEW left \in Nat, NEW end \in Nat
  PROVE  Today(cal, left, end) \in Nat
<1> DEFINE x == Day(left) * DayLength  S == Span(x, x + DayLength + DayLength)
           I == Intervals(cal, left)  T == Span(left, end)
           P == {p \in I \X T : p[2] \in p[1]}
<1>1. x \in Nat /\ DayLength \in Nat  BY DayIs, DayAssumption
<1>2. IsFiniteSet(S) /\ IsFiniteSet(T)
  <2>1. \A a, b \in Int : IsFiniteSet(Span(a, b))  BY FS_Interval DEF Span
  <2>2. x + DayLength + DayLength \in Int /\ x \in Int /\ end \in Int /\ left \in Int  BY <1>1
  <2> HIDE DEF x
  <2> QED  BY <2>1, <2>2
<1>3. I \subseteq SUBSET S  BY MinutesNear
<1> HIDE DEF S, I, T
<1>4. IsFiniteSet(SUBSET S)  BY <1>2, FS_SUBSET
<1>5. IsFiniteSet(I)  BY <1>3, <1>4, FS_Subset
<1>6. IsFiniteSet(I \X T)  BY <1>2, <1>5, FS_Product
<1>7. IsFiniteSet(P) /\ Cardinality(P) \in Nat
  <2>1. P \subseteq I \X T  OBVIOUS
  <2> HIDE DEF P
  <2>2. IsFiniteSet(P)  BY <1>6, <2>1, FS_Subset
  <2> QED  BY <2>2, FS_CardinalityType
<1> QED  BY <1>7 DEF Today, I, T

LEMMA ElapsesExists ==
  ASSUME NEW cal, WellFormed(cal), NEW end \in Nat
  PROVE  ElapsesFrom(cal, end, 0)
<1> DEFINE Bad == {k \in 0..end : ~ElapsesFrom(cal, end, end - k)}
<1>1. SUFFICES ASSUME Bad # {} PROVE FALSE
  <2>1. end \in 0..end /\ end - end = 0  OBVIOUS
  <2> QED  BY <2>1
<1>2. PICK k \in Bad : \A j \in Bad : k <= j
  <2>1. Bad \subseteq Nat  OBVIOUS
  <2> HIDE DEF Bad
  <2> QED  BY <1>1, <2>1, HasLeast
<1> DEFINE n == end - k
           From(m) == {t \in Nat : t >= m}
<1>3. n \in 0..end /\ ~ElapsesFrom(cal, end, n) /\ k \in 0..end  BY <1>2
<1>4. CASE k = 0
  <2> DEFINE g == [t \in From(n) |-> Today(cal, t, end)]
  <2>1. \A t \in From(n) : Stops(t, end) /\ g[t] = Today(cal, t, end) /\ Today(cal, t, end) \in Nat
    BY <1>4, TodayNat DEF Stops
  <2>2. g \in [From(n) -> Nat]  BY <2>1
  <2> HIDE DEF g, n
  <2> QED  BY <1>3, <2>1, <2>2 DEF ElapsesFrom
<1>5. CASE k # 0
  <2>1. k - 1 \in 0..end /\ k - 1 \notin Bad /\ end - (k - 1) = n + 1
    <3>1. k \in Nat /\ k - 1 \in 0..end /\ ~(k <= k - 1)  BY <1>3, <1>5
    <3> QED  BY <1>2, <3>1
  <2>2. ElapsesFrom(cal, end, n + 1)  BY <2>1
  <2>3. n \in Nat /\ From(n) = From(n + 1) \cup {n} /\ n \notin From(n + 1)  BY <1>3
  <2> HIDE DEF From, n
  <2>4. PICK h \in [From(n + 1) -> Nat] : \A t \in From(n + 1) :
           h[t] = IF Stops(t, end) THEN Today(cal, t, end) ELSE Today(cal, t, end) + h[NextLocalDay(t)]
    BY <2>2 DEF ElapsesFrom, From
  <2>5. \A t \in From(n) : NextLocalDay(t) \in From(n + 1)
    <3> SUFFICES ASSUME NEW t \in From(n) PROVE NextLocalDay(t) \in From(n + 1)  OBVIOUS
    <3>1. t \in Nat /\ t >= n  BY DEF From
    <3>2. NextLocalDay(t) \in Nat /\ t < NextLocalDay(t)  BY <3>1, NextDayIs
    <3> QED  BY <2>3, <3>1, <3>2 DEF From
  <2> DEFINE g == [t \in From(n) |-> IF t = n
                     THEN IF Stops(t, end) THEN Today(cal, t, end) ELSE Today(cal, t, end) + h[NextLocalDay(t)]
                     ELSE h[t]]
  <2>6. g \in [From(n) -> Nat]
    <3>1. \A t \in From(n) : Today(cal, t, end) \in Nat  BY TodayNat DEF From
    <3>2. \A t \in From(n) : h[NextLocalDay(t)] \in Nat  BY <2>4, <2>5
    <3>3. \A t \in From(n) : t # n => h[t] \in Nat  BY <2>3, <2>4
    <3> QED  BY <3>1, <3>2, <3>3
  <2>7. \A t \in From(n + 1) : t \in From(n) /\ g[t] = h[t]  BY <2>3
  <2>8. n \in From(n) /\ g[n] = IF Stops(n, end) THEN Today(cal, n, end) ELSE Today(cal, n, end) + h[NextLocalDay(n)]
    BY <2>3
  <2> HIDE DEF g
  <2>9. \A t \in From(n) :
           g[t] = IF Stops(t, end) THEN Today(cal, t, end) ELSE Today(cal, t, end) + g[NextLocalDay(t)]
    BY <2>3, <2>4, <2>5, <2>7, <2>8
  <2> QED  BY <1>3, <2>6, <2>9 DEF ElapsesFrom, From
<1> QED  BY <1>4, <1>5

Elapses(cal, end, g) ==
  g = [left \in Nat |-> IF left >= end \/ left + DayLength > end THEN Today(cal, left, end)
                        ELSE Today(cal, left, end) + g[NextLocalDay(left)]]

LEMMA ElapsedUnfolds ==
  ASSUME NEW cal, WellFormed(cal), NEW start \in Nat, NEW end \in Nat, start < end
  PROVE  \E g : Elapses(cal, end, g) /\ Elapsed(cal, start, end) = g[start]
<1>1. \E g : Elapses(cal, end, g)
  <2> DEFINE All == {t \in Nat : t >= 0}
  <2>1. All = Nat  OBVIOUS
  <2>2. PICK g \in [All -> Nat] : \A t \in All :
           g[t] = IF Stops(t, end) THEN Today(cal, t, end) ELSE Today(cal, t, end) + g[NextLocalDay(t)]
    <3>1. ElapsesFrom(cal, end, 0)  BY ElapsesExists
    <3> QED  BY <3>1 DEF ElapsesFrom
  <2> HIDE DEF All
  <2>3. Elapses(cal, end, g)  BY <2>1, <2>2 DEF Elapses, Stops
  <2> QED  BY <2>3
<1>2. Elapsed(cal, start, end) = (CHOOSE g : Elapses(cal, end, g))[start]
  <2>1. ~(end <= start)  OBVIOUS
  <2> QED  BY <2>1 DEF Elapsed, Elapses, Today
<1> QED  BY <1>1, <1>2

LEMMA ElapsesIs ==
  ASSUME NEW cal, NEW end, NEW g, Elapses(cal, end, g), NEW t \in Nat
  PROVE  g[t] = IF t >= end \/ t + DayLength > end THEN Today(cal, t, end)
                ELSE Today(cal, t, end) + g[NextLocalDay(t)]
BY DEF Elapses

\* Elapsed always returns a number.
LEMMA ElapsedNat ==
  ASSUME NEW cal, WellFormed(cal), NEW start \in Nat, NEW end \in Nat
  PROVE  Elapsed(cal, start, end) \in Nat
<1>1. CASE end <= start  BY <1>1 DEF Elapsed
<1>2. CASE start < end
  <2>1. PICK g : Elapses(cal, end, g) /\ Elapsed(cal, start, end) = g[start]  BY <1>2, ElapsedUnfolds
  <2> DEFINE Bad == {k \in 0..end : g[end - k] \notin Nat}
  <2>2. SUFFICES ASSUME Bad # {} PROVE FALSE
    <3> SUFFICES ASSUME g[start] \notin Nat PROVE FALSE  BY <2>1
    <3>1. end - start \in 0..end /\ end - (end - start) = start  BY <1>2
    <3>2. end - start \in Bad  BY <3>1
    <3> QED  BY <2>2, <3>2
  <2>3. PICK k \in Bad : \A j \in Bad : k <= j
    <3>1. Bad \subseteq Nat  OBVIOUS
    <3> HIDE DEF Bad
    <3> QED  BY <2>2, <3>1, HasLeast
  <2>4. PICK t \in 0..end : t = end - k  BY <2>3
  <2>5. k = end - t /\ k \in Nat /\ t \in Nat /\ g[t] \notin Nat  BY <2>3, <2>4
  <2>6. Today(cal, t, end) \in Nat /\ NextLocalDay(t) \in Nat /\ t < NextLocalDay(t) /\ NextLocalDay(t) <= t + DayLength
    BY <2>5, TodayNat, NextDayIs
  <2>7. ~(t >= end \/ t + DayLength > end)  BY <2>1, <2>5, <2>6, ElapsesIs
  <2>8. g[t] = Today(cal, t, end) + g[NextLocalDay(t)]  BY <2>1, <2>5, <2>7, ElapsesIs
  <2>9. g[NextLocalDay(t)] \notin Nat  BY <2>5, <2>6, <2>8
  <2>10. PICK n \in Nat : n = NextLocalDay(t)  BY <2>6
  <2>11. end - n \in 0..end /\ end - (end - n) = n /\ ~(k <= end - n)
    BY <2>5, <2>6, <2>7, <2>10, DayAssumption
  <2>12. end - n \in Bad  BY <2>9, <2>10, <2>11
  <2> QED  BY <2>3, <2>11, <2>12
<1> QED  BY <1>1, <1>2

\* From a midnight on nothing is left out.
LEMMA ElapsedFromMidnight ==
  ASSUME NEW cal, WellFormed(cal), Plain(cal), NEW end \in Nat, NEW g, Elapses(cal, end, g),
         NEW t \in 0..end, Day(t) * DayLength = t
  PROVE  g[t] = Open(cal, t, end)
<1> DEFINE Bad == {k \in 0..end : Day(end - k) * DayLength = end - k /\ g[end - k] # Open(cal, end - k, end)}
<1>1. SUFFICES ASSUME Bad # {} PROVE FALSE
  <2> SUFFICES ASSUME g[t] # Open(cal, t, end) PROVE FALSE  OBVIOUS
  <2>1. end - t \in 0..end /\ end - (end - t) = t  OBVIOUS
  <2>2. end - t \in Bad  BY <2>1
  <2> QED  BY <1>1, <2>2
<1>2. PICK k \in Bad : \A j \in Bad : k <= j
  <2>1. Bad \subseteq Nat  OBVIOUS
  <2> HIDE DEF Bad
  <2> QED  BY <1>1, <2>1, HasLeast
<1>3. PICK m \in 0..end : m = end - k  BY <1>2
<1>4. Day(m) * DayLength = m /\ g[m] # Open(cal, m, end) /\ k = end - m  BY <1>2, <1>3
<1>5. /\ NextLocalDay(m) = m + DayLength /\ NextLocalDay(m) \in Nat
      /\ Day(NextLocalDay(m)) * DayLength = NextLocalDay(m)
  <2>1. /\ NextLocalDay(m) \in Nat /\ NextLocalDay(m) = m + DayLength
        /\ Day(NextLocalDay(m)) = Day(m) + 1 /\ Day(m) \in Nat
    BY <1>4, NextDayIs, DayIs
  <2>2. (Day(m) + 1) * DayLength = m + DayLength  BY <1>4, <2>1, DayAssumption
  <2> QED  BY <2>1, <2>2
<1>6. CASE m >= end \/ m + DayLength > end
  <2>1. g[m] = Today(cal, m, end)  BY <1>6, ElapsesIs
  <2>2. end <= NextLocalDay(m)  BY <1>5, <1>6, DayAssumption
  <2>3. Today(cal, m, end) = Open(cal, m, end)  BY <2>2, TodayIs
  <2> QED  BY <1>4, <2>1, <2>3
<1>7. CASE ~(m >= end \/ m + DayLength > end)
  <2> DEFINE n == NextLocalDay(m)
  <2>1. g[m] = Today(cal, m, end) + g[n]  BY <1>7, ElapsesIs
  <2>2. m + DayLength <= end /\ n = m + DayLength /\ n \in Nat /\ m < n  BY <1>5, <1>7, DayAssumption
  <2>3. g[n] = Open(cal, n, end)
    <3> SUFFICES ASSUME g[n] # Open(cal, n, end) PROVE FALSE  OBVIOUS
    <3> HIDE DEF n
    <3>1. end - n \in 0..end /\ end - (end - n) = n /\ end - n < k  BY <1>4, <2>2
    <3>2. Day(n) * DayLength = n  BY <1>5 DEF n
    <3>3. end - n \in Bad  BY <3>1, <3>2
    <3>4. k \in Nat  BY <1>4
    <3> QED  BY <1>2, <3>1, <3>3, <3>4
  <2>4. Today(cal, m, end) = Open(cal, m, n)  BY <2>2, TodayIs
  <2>5. Open(cal, m, end) = Open(cal, m, n) + Open(cal, n, end)  BY <2>2, OpenSplits
  <2> QED  BY <1>4, <2>1, <2>3, <2>4, <2>5
<1> QED  BY <1>6, <1>7

\* The minutes that the loop may still count, those of its day and of later ones.
Later(cal, t, end) == {m \in Span(t, end) : \E u \in Nat : Day(t) <= Day(u) /\ m \in UNION Intervals(cal, u)}

LEMMA LaterIs ==
  ASSUME NEW cal, WellFormed(cal), NEW t \in Nat, NEW end \in Nat
  PROVE  /\ IsFiniteSet(Later(cal, t, end)) /\ Cardinality(Later(cal, t, end)) \in Nat
         /\ Cardinality(Later(cal, t, end)) <= Open(cal, t, end)
         /\ Seen(cal, t, end) \subseteq Later(cal, t, end)
<1>1. Later(cal, t, end) \subseteq Worked(cal, t, end)  BY MinutesWorked DEF Later, Worked
<1>2. IsFiniteSet(Worked(cal, t, end)) /\ Open(cal, t, end) = Cardinality(Worked(cal, t, end))  BY OpenIs
<1>3. IsFiniteSet(Later(cal, t, end)) /\ Cardinality(Later(cal, t, end)) <= Cardinality(Worked(cal, t, end))
  BY <1>1, <1>2, FS_Subset
<1>4. Day(t) <= Day(t)  BY DayIs
<1> QED  BY <1>2, <1>3, <1>4, FS_CardinalityType DEF Later, Seen

\* A turn of the loop leaves what it has seen behind.
LEMMA LaterTurn ==
  ASSUME NEW cal, WellFormed(cal), Disjoint(cal), NEW t \in Nat, NEW end \in Nat
  PROVE  Cardinality(Seen(cal, t, end)) + Cardinality(Later(cal, NextLocalDay(t), end)) <= Cardinality(Later(cal, t, end))
<1> DEFINE n == NextLocalDay(t)  S == Seen(cal, t, end)  L == Later(cal, n, end)  A == Later(cal, t, end)
<1>1. n \in Nat /\ t < n /\ Day(n) = Day(t) + 1 /\ Day(t) \in Nat  BY NextDayIs, DayIs
<1> HIDE DEF n
<1>2. S \cap L = {}
  <2> SUFFICES ASSUME NEW m \in S, m \in L PROVE FALSE  OBVIOUS
  <2>1. m \in UNION Intervals(cal, t)  BY DEF Seen
  <2>2. PICK u \in Nat : Day(n) <= Day(u) /\ m \in UNION Intervals(cal, u)  BY DEF Later
  <2>3. Day(t) < Day(u)
    <3>1. Day(u) \in Nat  BY DayIs
    <3> QED  BY <1>1, <2>2, <3>1
  <2> QED  BY <2>1, <2>2, <2>3, NoneTwice
<1>3. L \subseteq A
  <2> SUFFICES ASSUME NEW m \in L PROVE m \in A  OBVIOUS
  <2>1. PICK u \in Nat : Day(n) <= Day(u) /\ m \in UNION Intervals(cal, u)  BY DEF Later
  <2>2. Day(t) <= Day(u)
    <3>1. Day(u) \in Nat  BY DayIs
    <3> QED  BY <1>1, <2>1, <3>1
  <2>3. m \in Span(t, end)  BY <1>1 DEF Later, Span
  <2> QED  BY <2>1, <2>2, <2>3 DEF Later
<1>4. IsFiniteSet(S) /\ IsFiniteSet(L) /\ IsFiniteSet(A) /\ S \subseteq A
  BY <1>1, TodayCounts, LaterIs
<1> HIDE DEF S, L, A
<1>5. Cardinality(S \cup L) = Cardinality(S) + Cardinality(L) - Cardinality(S \cap L)  BY <1>4, FS_Union
<1>6. Cardinality(S \cap L) = 0  BY <1>2, FS_EmptySet
<1>7. Cardinality(S \cup L) <= Cardinality(A)  BY <1>3, <1>4, FS_Subset
<1>8. Cardinality(S) \in Nat /\ Cardinality(L) \in Nat  BY <1>4, FS_CardinalityType
<1> QED  BY <1>5, <1>6, <1>7, <1>8 DEF S, L, A, n

\* Without overlaps Elapsed counts nothing that is not worked, and nothing twice.
LEMMA ElapsedAtMost ==
  ASSUME NEW cal, WellFormed(cal), Disjoint(cal), NEW start \in Nat, NEW end \in Nat
  PROVE  /\ Elapsed(cal, start, end) \in Nat
         /\ start <= end => Elapsed(cal, start, end) <= Open(cal, start, end)
<1> DEFINE Fits(g, t) == g[t] \in Nat /\ g[t] <= Cardinality(Later(cal, t, end))
<1>1. CASE end <= start
  <2>1. Elapsed(cal, start, end) = 0 /\ Open(cal, start, end) \in Nat  BY <1>1, OpenIs DEF Elapsed
  <2> QED  BY <2>1
<1>2. CASE start < end
  <2>1. PICK g : Elapses(cal, end, g) /\ Elapsed(cal, start, end) = g[start]  BY <1>2, ElapsedUnfolds
  <2> DEFINE Bad == {k \in 0..end : ~Fits(g, end - k)}
  <2>2. SUFFICES ASSUME Bad # {} PROVE FALSE
    <3>1. end - start \in 0..end /\ end - (end - start) = start  BY <1>2
    <3>2. Fits(g, start)  BY <2>2, <3>1
    <3>3. Cardinality(Later(cal, start, end)) \in Nat /\ Cardinality(Later(cal, start, end)) <= Open(cal, start, end)
          /\ Open(cal, start, end) \in Nat
      BY LaterIs, OpenIs
    <3> QED  BY <2>1, <3>2, <3>3
  <2>3. PICK k \in Bad : \A j \in Bad : k <= j
    <3>1. Bad \subseteq Nat  OBVIOUS
    <3> HIDE DEF Bad
    <3> QED  BY <2>2, <3>1, HasLeast
  <2>4. PICK t \in 0..end : t = end - k  BY <2>3
  <2>5. k = end - t /\ k \in Nat /\ t \in Nat /\ ~Fits(g, t)  BY <2>3, <2>4
  <2> DEFINE n == NextLocalDay(t)  today == Cardinality(Seen(cal, t, end))
  <2>6. n \in Nat /\ t < n /\ n <= t + DayLength  BY <2>5, NextDayIs
  <2>7. /\ Today(cal, t, end) = today /\ today \in Nat
        /\ today <= Cardinality(Later(cal, t, end)) /\ Cardinality(Later(cal, t, end)) \in Nat
    BY <2>5, TodayCounts, LaterIs, FS_CardinalityType, FS_Subset
  <2>8. today + Cardinality(Later(cal, n, end)) <= Cardinality(Later(cal, t, end))  BY <2>5, LaterTurn
  <2>9. Cardinality(Later(cal, n, end)) \in Nat  BY <2>6, LaterIs
  <2> HIDE DEF n, today
  <2>10. ~(t >= end \/ t + DayLength > end)
    <3> SUFFICES ASSUME t >= end \/ t + DayLength > end PROVE FALSE  OBVIOUS
    <3>1. g[t] = today  BY <2>1, <2>5, <2>7, ElapsesIs
    <3> QED  BY <2>5, <2>7, <3>1
  <2>11. g[t] = today + g[n]  BY <2>1, <2>5, <2>7, <2>10, ElapsesIs DEF n
  <2>12. ~Fits(g, n)
    <3> SUFFICES ASSUME Fits(g, n) PROVE FALSE  OBVIOUS
    <3> QED  BY <2>5, <2>7, <2>8, <2>9, <2>11
  <2>13. end - n \in 0..end /\ end - (end - n) = n /\ ~(k <= end - n)  BY <2>5, <2>6, <2>10, DayAssumption
  <2>14. end - n \in Bad  BY <2>12, <2>13
  <2> QED  BY <2>3, <2>13, <2>14
<1> QED  BY <1>1, <1>2

\* If no window reaches midnight either, it leaves out at most the last day, and only
\* if the end is less than a day after the start.
LEMMA ElapsedIs ==
  ASSUME NEW cal, WellFormed(cal), Plain(cal), NEW start \in Nat, NEW end \in Nat
  PROVE  start <= end /\ (Day(start) = Day(end) \/ end - start >= DayLength) =>
           Elapsed(cal, start, end) = Open(cal, start, end)
<1> DEFINE n == NextLocalDay(start)
<1>0. /\ n \in Nat /\ start < n /\ n <= start + DayLength /\ n = Day(start) * DayLength + DayLength
      /\ Open(cal, start, end) \in Nat /\ DayLength \in Nat
  BY NextDayIs, OpenIs, DayAssumption
<1>1. CASE end <= start
  <2>1. Elapsed(cal, start, end) = 0  BY <1>1 DEF Elapsed
  <2>2. start <= end => Open(cal, start, end) = 0  BY <1>1, OpenNone
  <2> QED  BY <1>0, <2>1, <2>2
<1>2. CASE start < end
  <2>1. PICK g : Elapses(cal, end, g) /\ Elapsed(cal, start, end) = g[start]  BY <1>2, ElapsedUnfolds
  <2>2. CASE start + DayLength > end
    <3>1. Elapsed(cal, start, end) = Today(cal, start, end)  BY <2>1, <2>2, ElapsesIs
    <3>2. CASE end <= n
      <4>1. Today(cal, start, end) = Open(cal, start, end)  BY <3>2, TodayIs
      <4> QED  BY <1>0, <3>1, <4>1
    <3>3. CASE n <= end
      <4>1. Day(start) # Day(end)
        <5> SUFFICES ASSUME Day(start) = Day(end) PROVE FALSE  OBVIOUS
        <5>1. end < Day(end) * DayLength + DayLength /\ Day(end) * DayLength \in Nat  BY DayIs
        <5> QED  BY <1>0, <3>3, <5>1
      <4>2. ~(end - start >= DayLength)  BY <1>0, <2>2
      <4> QED  BY <4>1, <4>2
    <3> QED  BY <1>0, <3>2, <3>3
  <2>3. CASE ~(start + DayLength > end)
    <3>1. Elapsed(cal, start, end) = Today(cal, start, end) + g[n]
      BY <1>2, <2>1, <2>3, ElapsesIs
    <3>2. n \in 0..end /\ n <= end  BY <1>0, <2>3
    <3>3. Day(n) * DayLength = n
      <4>1. Day(n) = Day(start) + 1 /\ Day(start) \in Nat  BY NextDayIs, DayIs
      <4>2. (Day(start) + 1) * DayLength = Day(start) * DayLength + DayLength  BY <4>1, DayAssumption
      <4> QED  BY <1>0, <4>1, <4>2
    <3> HIDE DEF n
    <3>4. g[n] = Open(cal, n, end)  BY <2>1, <3>2, <3>3, ElapsedFromMidnight
    <3>5. Today(cal, start, end) = Open(cal, start, n)  BY <3>2, TodayIs DEF n
    <3>6. Open(cal, start, end) = Open(cal, start, n) + Open(cal, n, end)
      BY <1>0, <3>2, OpenSplits
    <3> QED  BY <1>0, <3>1, <3>4, <3>5, <3>6
  <2> QED  BY <1>0, <2>2, <2>3
<1> QED  BY <1>1, <1>2

-------------------------------------------------------------------------------
(* There is always more work ahead                                           *)

\* The holidays have an end.
LEMMA Bounded ==
  ASSUME NEW S, IsFiniteSet(S), S \subseteq Nat
  PROVE  \E b \in Nat : \A x \in S : x < b
<1>1. PICK n \in Nat : ExistsBijection(1..n, S)  BY FS_CardinalityType
<1>2. PICK f \in [1..n -> S] : \A x \in S : \E i \in 1..n : f[i] = x
  BY <1>1 DEF ExistsBijection, Bijection, Surjection, Injection
<1> DEFINE Bad == {k \in 0..n : ~\E b \in Nat : \A i \in 1..k : f[i] < b}
<1>3. n \notin Bad
  <2> SUFFICES ASSUME Bad # {} PROVE FALSE  OBVIOUS
  <2>1. PICK k \in Bad : \A j \in Bad : k <= j
    <3>1. Bad \subseteq Nat  OBVIOUS
    <3> HIDE DEF Bad
    <3> QED  BY <3>1, HasLeast
  <2>2. k \in 0..n /\ ~\E b \in Nat : \A i \in 1..k : f[i] < b  BY <2>1
  <2>3. k # 0  BY <2>2
  <2>4. k - 1 \in 0..n /\ k - 1 \notin Bad
    <3>1. k - 1 \in 0..n /\ ~(k <= k - 1)  BY <2>2, <2>3
    <3> QED  BY <2>1, <3>1
  <2>5. PICK b \in Nat : \A i \in 1..(k - 1) : f[i] < b  BY <2>4
  <2>6. k \in 1..n  BY <2>2, <2>3
  <2>7. PICK y \in Nat : y = f[k]  BY <2>6
  <2>8. b + y + 1 \in Nat /\ \A i \in 1..k : f[i] < b + y + 1
    <3> SUFFICES ASSUME NEW i \in 1..k PROVE f[i] < b + y + 1  OBVIOUS
    <3>1. i \in 1..n /\ (i = k \/ i \in 1..(k - 1))  BY <2>2
    <3>2. PICK z \in Nat : z = f[i]  BY <3>1
    <3>3. z < b + y + 1
      <4>1. z = y \/ z < b  BY <2>5, <2>7, <3>1, <3>2
      <4> QED  BY <4>1
    <3> QED  BY <3>2, <3>3
  <2> QED  BY <2>2, <2>8
<1>4. PICK b \in Nat : \A i \in 1..n : f[i] < b  BY <1>3
<1> QED  BY <1>2, <1>4

\* Every so many days the same weekday comes again.
LEMMA WeekdayAgain ==
  ASSUME NEW n \in Nat \ {0}, NEW k \in 0..(n - 1), NEW from \in Nat
  PROVE  \E d \in Nat : d % n = k /\ from <= d
<1> DEFINE d == k + n * from
<1>1. d \in Nat /\ d % n = k  OBVIOUS
<1>2. from <= n * from
  <2>1. n * from = from + (n - 1) * from /\ (n - 1) * from \in Nat  OBVIOUS
  <2> QED  BY <2>1
<1>3. n * from \in Nat /\ k \in Nat  OBVIOUS
<1>4. from <= d  BY <1>2, <1>3
<1> QED  BY <1>1, <1>4

LEMMA WorkAhead ==
  ASSUME NEW cal, WellFormed(cal), Plain(cal), NEW t \in Nat
  PROVE  \E m \in Nat : t <= m /\ Working(cal, m)
<1>1. PICK n \in Nat \ {0} : DOMAIN cal.weekly = 0..(n - 1) /\ Cardinality(DOMAIN cal.weekly) = n
  BY WeekdayIs
<1>2. PICK k \in 0..(n - 1) : cal.weekly[k] # {}
  BY <1>1 DEF WellFormed
<1>3. PICK h \in Nat : \A x \in cal.holidays : x < h  BY Bounded DEF WellFormed
<1>4. Day(t) + 1 + h \in Nat /\ Day(t) \in Nat  BY DayIs
<1>5. PICK d \in Nat : d % n = k /\ Day(t) + 1 + h <= d  BY <1>4, WeekdayAgain
<1>6. d \notin cal.holidays /\ Day(t) < d  BY <1>3, <1>4, <1>5
<1>7. Windows(cal, d) # {}  BY <1>1, <1>2, <1>5 DEF Windows
<1>8. PICK w \in Windows(cal, d) : TRUE  BY <1>7
<1>9. w.start \in Nat /\ w.end \in Nat /\ w.start < w.end /\ w.end < DayLength  BY WindowsAre
<1> DEFINE x == d * DayLength  m == x + w.start
<1>10. x \in Nat /\ m \in Nat /\ x <= m /\ m < x + DayLength /\ m \in On(d, w)
  <2>1. x \in Nat  BY DayAssumption
  <2> HIDE DEF x
  <2>2. m \in Nat /\ x <= m /\ m < x + DayLength /\ m \in Span(x + w.start, x + w.end)
    BY <1>9, <2>1, DayAssumption DEF Span
  <2> QED  BY <2>1, <2>2 DEF On, x
<1>11. Day(m) = d
  <2> HIDE DEF m
  <2> QED  BY <1>10, DayUnique
<1>12. t <= m
  <2>1. /\ Day(t) * DayLength + DayLength <= x /\ Day(t) * DayLength \in Nat
        /\ t < Day(t) * DayLength + DayLength
    BY <1>4, <1>6, DaysApart, DayIs
  <2> HIDE DEF x
  <2> QED  BY <1>9, <1>10, <2>1, DayAssumption
<1> HIDE DEF m, x
<1>13. m \in UNION Intervals(cal, m)  BY <1>6, <1>10, <1>11, IntervalsAre
<1>14. Working(cal, m)  BY <1>10, <1>13, WorkingIs
<1> QED  BY <1>10, <1>12, <1>14

\* The next working minute, with nothing before it.
LEMMA NextWork ==
  ASSUME NEW cal, WellFormed(cal), Plain(cal), NEW c \in Nat
  PROVE  \E m \in Nat : c <= m /\ Working(cal, m) /\ Open(cal, c, m) = 0
<1> DEFINE S == {m \in Nat : c <= m /\ Working(cal, m)}
<1>1. S # {} /\ S \subseteq Nat  BY WorkAhead
<1>2. PICK m \in S : \A x \in S : m <= x
  <2> HIDE DEF S
  <2> QED  BY <1>1, HasLeast
<1>3. Worked(cal, c, m) = {}
  <2> SUFFICES ASSUME NEW x \in Worked(cal, c, m) PROVE FALSE  OBVIOUS
  <2>1. x \in S /\ x < m /\ x \in Nat /\ m \in Nat  BY <1>2 DEF Worked, Span
  <2> QED  BY <1>2, <2>1
<1>4. Open(cal, c, m) = Cardinality(Worked(cal, c, m)) /\ m \in Nat  BY <1>2, OpenIs
<1> QED  BY <1>2, <1>3, <1>4, FS_EmptySet

-------------------------------------------------------------------------------
(* Add                                                                       *)

\* m is the left-th working minute from c on.
Nth(cal, c, left, m) == m \in Nat /\ c <= m /\ Working(cal, m) /\ Open(cal, c, m) = left - 1

LEMMA NthAhead ==
  ASSUME NEW cal, NEW c \in Nat, NEW b \in Nat, NEW left \in Int, NEW m, c <= b, Nth(cal, b, left, m)
  PROVE  Nth(cal, c, left + Open(cal, c, b), m)
<1>1. m \in Nat /\ b <= m /\ c <= m /\ Working(cal, m) /\ Open(cal, b, m) = left - 1  BY DEF Nth
<1>2. Open(cal, c, m) = Open(cal, c, b) + Open(cal, b, m) /\ Open(cal, c, b) \in Nat
  BY <1>1, OpenSplits, OpenIs
<1>3. PICK k \in Int : k = left + Open(cal, c, b)  BY <1>2
<1>4. Open(cal, c, m) = k - 1  BY <1>1, <1>2, <1>3
<1>5. Nth(cal, c, k, m)  BY <1>1, <1>4 DEF Nth
<1> QED  BY <1>3, <1>5

LEMMA NthExists ==
  ASSUME NEW cal, WellFormed(cal), Plain(cal), NEW c \in Nat, NEW left \in Nat \ {0}
  PROVE  \E m : Nth(cal, c, left, m)
<1> DEFINE Bad == {k \in Nat \ {0} : ~\E m : Nth(cal, c, k, m)}
<1>1. SUFFICES ASSUME Bad # {} PROVE FALSE  OBVIOUS
<1>2. PICK k \in Bad : \A j \in Bad : k <= j
  <2>1. Bad \subseteq Nat  OBVIOUS
  <2> HIDE DEF Bad
  <2> QED  BY <1>1, <2>1, HasLeast
<1>3. k \in Nat \ {0} /\ ~\E m : Nth(cal, c, k, m)  BY <1>2
<1>4. k # 1
  <2>1. PICK m \in Nat : c <= m /\ Working(cal, m) /\ Open(cal, c, m) = 0  BY NextWork
  <2>2. Nth(cal, c, 1, m)  BY <2>1 DEF Nth
  <2> QED  BY <1>3, <2>2
<1>5. k - 1 \in Nat \ {0} /\ k - 1 \notin Bad
  <2>1. k - 1 \in Nat \ {0} /\ ~(k <= k - 1)  BY <1>3, <1>4
  <2> QED  BY <1>2, <2>1
<1>6. PICK l : Nth(cal, c, k - 1, l)  BY <1>5
<1>7. l \in Nat /\ c <= l /\ Working(cal, l) /\ Open(cal, c, l) = k - 2  BY <1>3, <1>6 DEF Nth
<1>8. Open(cal, c, l + 1) = k - 1  BY <1>3, <1>7, OpenNext
<1>9. PICK m \in Nat : l + 1 <= m /\ Working(cal, m) /\ Open(cal, l + 1, m) = 0  BY <1>7, NextWork
<1>10. Nth(cal, l + 1, 1, m)  BY <1>9 DEF Nth
<1>11. l + 1 \in Nat /\ c <= l + 1 /\ 1 + (k - 1) = k  BY <1>3, <1>7
<1>12. Nth(cal, c, 1 + Open(cal, c, l + 1), m)  BY <1>10, <1>11, NthAhead
<1> QED  BY <1>3, <1>8, <1>11, <1>12

LEMMA NthUnique ==
  ASSUME NEW cal, NEW c \in Nat, NEW left \in Int, NEW l, NEW m, Nth(cal, c, left, l), Nth(cal, c, left, m)
  PROVE  l = m
<1>1. ASSUME NEW x, NEW y, Nth(cal, c, left, x), Nth(cal, c, left, y) PROVE ~(x < y)
  <2> SUFFICES ASSUME x < y PROVE FALSE  OBVIOUS
  <2>1. /\ x \in Nat /\ c <= x /\ Working(cal, x) /\ Open(cal, c, x) = left - 1
        /\ y \in Nat /\ Open(cal, c, y) = left - 1
    BY <1>1 DEF Nth
  <2>2. Open(cal, c, x + 1) = left  BY <2>1, OpenNext
  <2>3. x + 1 \in Int /\ x + 1 <= y  BY <2>1
  <2>4. Open(cal, c, x + 1) <= Open(cal, c, y)  BY <2>1, <2>3, OpenGrows
  <2> QED  BY <2>1, <2>2, <2>4
<1>2. l \in Nat /\ m \in Nat  BY DEF Nth
<1> QED  BY <1>1, <1>2

\* What the loop of Add works with where it stands.
Ahead(cal, c) == {m \in UNION Intervals(cal, c) : m >= c}
Cursor(cal, c) == IF Ahead(cal, c) = {} THEN c ELSE Last(Ahead(cal, c)) + 1
Filled(cal, c, left) == 1 + CHOOSE m \in Ahead(cal, c) : Cardinality({x \in Ahead(cal, c) : x <= m}) = left

LEMMA AheadIs ==
  ASSUME NEW cal, WellFormed(cal), Plain(cal), NEW c \in Nat
  PROVE  /\ Ahead(cal, c) = Worked(cal, c, NextLocalDay(c))
         /\ Cardinality(Ahead(cal, c)) = Open(cal, c, NextLocalDay(c))
<1> DEFINE x == Day(c) * DayLength  n == NextLocalDay(c)
<1>1. x \in Nat /\ x <= c /\ n = x + DayLength /\ n \in Nat /\ DayMinutes(Day(c)) = Span(x, n)
  BY DayIs, NextDayIs DEF DayMinutes
<1>2. UNION Intervals(cal, c) = {m \in DayMinutes(Day(c)) \cap Nat : Working(cal, m)}  BY MinutesOf
<1> HIDE DEF x, n
<1>3. Ahead(cal, c) = Worked(cal, c, n)  BY <1>1, <1>2 DEF Ahead, Worked, Span
<1>4. Open(cal, c, n) = Cardinality(Worked(cal, c, n))  BY <1>1, OpenIs
<1> QED  BY <1>3, <1>4 DEF n

LEMMA LastOf ==
  ASSUME NEW S, NEW b \in Nat, S \subseteq Nat, S # {}, \A x \in S : x < b
  PROVE  Last(S) \in S /\ \A x \in S : x <= Last(S)
<1> DEFINE R == {b - x : x \in S}
<1>1. R \subseteq Nat /\ R # {}
  <2>1. \A x \in S : b - x \in Nat  OBVIOUS
  <2>2. PICK x \in S : TRUE  OBVIOUS
  <2>3. b - x \in R  OBVIOUS
  <2>4. \A y \in R : y \in Nat  BY <2>1
  <2> QED  BY <2>3, <2>4
<1>2. PICK r \in R : \A y \in R : r <= y
  <2> HIDE DEF R
  <2> QED  BY <1>1, HasLeast
<1>3. PICK m \in S : r = b - m  BY <1>2
<1>4. \A x \in S : x <= m
  <2> SUFFICES ASSUME NEW x \in S PROVE x <= m  OBVIOUS
  <2>1. b - m <= b - x  BY <1>2, <1>3
  <2>2. x \in Nat /\ m \in Nat  OBVIOUS
  <2> QED  BY <2>1, <2>2
<1> QED  BY <1>3, <1>4 DEF Last

\* The loop goes on at the next midnight: no window runs up to it.
LEMMA CursorIs ==
  ASSUME NEW cal, WellFormed(cal), Plain(cal), NEW c \in Nat
  PROVE  NextLocalDay(Cursor(cal, c)) = NextLocalDay(c)
<1> DEFINE A == Ahead(cal, c)  x == Day(c) * DayLength
<1>1. CASE A = {}
  BY <1>1 DEF Cursor
<1>2. CASE A # {}
  <2>1. Day(c) \in Nat /\ x \in Nat /\ NextLocalDay(c) \in Nat  BY DayIs, NextDayIs
  <2>2. A \subseteq Nat /\ \A m \in A : m < NextLocalDay(c)
    BY <2>1, AheadIs DEF Worked, Span
  <2>3. PICK m \in A : m = Last(A)
    <3> HIDE DEF A
    <3> QED  BY <1>2, <2>1, <2>2, LastOf
  <2>4. Cursor(cal, c) = m + 1  BY <1>2, <2>3 DEF Cursor
  <2>5. m \in UNION Intervals(cal, c)  BY DEF Ahead
  <2>6. PICK w \in Windows(cal, Day(c)) : m \in On(Day(c), w)  BY <2>5, IntervalsAre
  <2>7. w.start \in Nat /\ w.end \in Nat /\ w.end < DayLength  BY <2>1, WindowsAre
  <2> HIDE DEF x
  <2>8. x <= m + 1 /\ m + 1 < x + DayLength /\ m + 1 \in Nat
    <3>1. x + w.start <= m /\ m < x + w.end /\ m \in Int  BY <2>1, <2>6, <2>7 DEF On, Span, x
    <3> QED  BY <2>1, <2>7, <3>1, DayAssumption
  <2>9. Day(m + 1) = Day(c)  BY <2>1, <2>8, DayUnique DEF x
  <2> QED  BY <2>4, <2>9 DEF NextLocalDay
<1> QED  BY <1>1, <1>2

\* Where the loop ends: the minute after the one it is looking for.
LEMMA FilledIs ==
  ASSUME NEW cal, WellFormed(cal), Plain(cal), NEW c \in Nat, NEW left \in Nat \ {0},
         Open(cal, c, NextLocalDay(c)) >= left, NEW m, Nth(cal, c, left, m)
  PROVE  Filled(cal, c, left) = m + 1
<1> DEFINE A == Ahead(cal, c)  n == NextLocalDay(c)
<1>1. A = Worked(cal, c, n) /\ n \in Nat  BY AheadIs, NextDayIs
<1>2. m \in Nat /\ c <= m /\ Working(cal, m) /\ Open(cal, c, m) = left - 1  BY DEF Nth
<1>3. m < n
  <2> SUFFICES ASSUME n <= m PROVE FALSE  BY <1>1, <1>2
  <2>1. Open(cal, c, n) <= Open(cal, c, m) /\ Open(cal, c, n) \in Nat  BY <1>1, <1>2, OpenGrows, OpenIs
  <2> QED  BY <1>2, <2>1
<1> HIDE DEF n
<1>4. \A y \in A : y \in Nat /\ c <= y /\ y < n /\ Working(cal, y)  BY <1>1 DEF Worked, Span
<1>5. m \in A  BY <1>1, <1>2, <1>3 DEF Worked, Span
<1>6. ASSUME NEW y \in A PROVE Cardinality({x \in A : x <= y}) = Open(cal, c, y) + 1
  <2>1. y \in Nat /\ c <= y /\ y < n /\ Working(cal, y)  BY <1>4
  <2>2. {x \in A : x <= y} = Worked(cal, c, y + 1)  BY <1>1, <2>1 DEF Worked, Span
  <2>3. Open(cal, c, y + 1) = Cardinality(Worked(cal, c, y + 1))  BY <2>1, OpenIs
  <2> QED  BY <2>1, <2>2, <2>3, OpenNext
<1>7. Cardinality({x \in A : x <= m}) = left  BY <1>2, <1>5, <1>6
<1>8. ASSUME NEW y \in A, Cardinality({x \in A : x <= y}) = left PROVE y = m
  <2>1. y \in Nat /\ c <= y /\ Working(cal, y) /\ Open(cal, c, y) + 1 = left  BY <1>4, <1>6, <1>8
  <2>2. Open(cal, c, y) \in Nat  BY <2>1, OpenIs
  <2>3. Nth(cal, c, left, y)  BY <2>1, <2>2 DEF Nth
  <2> QED  BY <2>3, NthUnique
<1> HIDE DEF A
<1>9. (CHOOSE y \in A : Cardinality({x \in A : x <= y}) = left) = m  BY <1>5, <1>7, <1>8
<1>10. Filled(cal, c, left) = 1 + CHOOSE y \in A : Cardinality({x \in A : x <= y}) = left  BY DEF Filled, A
<1>11. Filled(cal, c, left) = 1 + m  BY <1>9, <1>10
<1> QED  BY <1>2, <1>11

\* The loop of Add for a duration d, as a function of where it stands and what is left.
AddsFrom(cal, g, c, left) ==
  IF Cardinality(Ahead(cal, c)) >= left THEN Filled(cal, c, left)
  ELSE g[NextLocalDay(Cursor(cal, c))][left - Cardinality(Ahead(cal, c))]
AddsRow(cal, d, g, c) == [left \in 1..d |-> AddsFrom(cal, g, c, left)]
Adds(cal, d, g) == g = [c \in Nat |-> AddsRow(cal, d, g, c)]

LEMMA AddsIs ==
  ASSUME NEW cal, NEW d \in Nat, NEW g, Adds(cal, d, g), NEW c \in Nat, NEW left \in 1..d
  PROVE  g[c][left] = AddsFrom(cal, g, c, left)
<1>1. g[c] = AddsRow(cal, d, g, c)  BY DEF Adds
<1> QED  BY <1>1 DEF AddsRow

\* Where it can stand: at the start, or at a midnight.  The first such place with work
\* ahead on its day is the same a day without work later.
Opens(cal, c) == {x \in Nat : c <= x /\ (x = c \/ Day(x) * DayLength = x) /\ Ahead(cal, x) # {}}
First(S) == CHOOSE x \in S : \A y \in S : x <= y

LEMMA AheadFinite ==
  ASSUME NEW cal, WellFormed(cal), NEW c \in Nat
  PROVE  /\ IsFiniteSet(Ahead(cal, c)) /\ Ahead(cal, c) \subseteq Nat
         /\ Cardinality(Ahead(cal, c)) \in Nat
         /\ Cardinality(Ahead(cal, c)) = 0 <=> Ahead(cal, c) = {}
         /\ \E b \in Nat : \A m \in Ahead(cal, c) : m < b
<1> DEFINE A == Ahead(cal, c)  x == Day(c) * DayLength  S == Span(x, x + DayLength + DayLength)
<1>1. x \in Nat /\ DayLength \in Nat  BY DayIs, DayAssumption
<1>2. A \subseteq S  BY MinutesNear DEF Ahead
<1> HIDE DEF A, x
<1>3. IsFiniteSet(S) /\ S \subseteq Nat /\ \A m \in S : m < x + DayLength + DayLength
  BY <1>1, FS_Interval DEF Span
<1>4. x + DayLength + DayLength \in Nat  BY <1>1
<1> HIDE DEF S
<1>5. IsFiniteSet(A)  BY <1>2, <1>3, FS_Subset
<1>6. Cardinality(A) \in Nat /\ (Cardinality(A) = 0 <=> A = {})  BY <1>5, FS_CardinalityType, FS_EmptySet
<1> QED  BY <1>2, <1>3, <1>4, <1>5, <1>6 DEF A

LEMMA CursorAhead ==
  ASSUME NEW cal, WellFormed(cal), NEW c \in Nat
  PROVE  /\ NextLocalDay(Cursor(cal, c)) \in Nat /\ c < NextLocalDay(Cursor(cal, c))
         /\ Ahead(cal, c) = {} => NextLocalDay(Cursor(cal, c)) = NextLocalDay(c)
<1> DEFINE A == Ahead(cal, c)
<1>1. CASE A = {}
  <2>1. Cursor(cal, c) = c  BY <1>1 DEF Cursor
  <2> QED  BY <2>1, NextDayIs
<1>2. CASE A # {}
  <2>1. PICK b \in Nat : \A m \in A : m < b  BY AheadFinite
  <2>2. A \subseteq Nat /\ \A m \in A : c <= m  BY AheadFinite DEF Ahead
  <2>3. PICK m \in A : m = Last(A)
    <3> HIDE DEF A
    <3> QED  BY <1>2, <2>1, <2>2, LastOf
  <2>4. Cursor(cal, c) = m + 1 /\ m \in Nat /\ c <= m  BY <1>2, <2>2, <2>3 DEF Cursor
  <2>5. m + 1 \in Nat /\ c < m + 1  BY <2>4
  <2>6. NextLocalDay(m + 1) \in Nat /\ m + 1 < NextLocalDay(m + 1)  BY <2>5, NextDayIs
  <2> QED  BY <1>2, <2>4, <2>5, <2>6
<1> QED  BY <1>1, <1>2

\* A finite set of numbers has a left-th element.
LEMMA NthOf ==
  ASSUME NEW A, IsFiniteSet(A), A \subseteq Nat, NEW left \in Nat \ {0}, Cardinality(A) >= left
  PROVE  \E m \in A : Cardinality({x \in A : x <= m}) = left
<1> DEFINE Upto(m) == {x \in A : x <= m}
<1>1. \A m \in Int : IsFiniteSet(Upto(m)) /\ Cardinality(Upto(m)) \in Nat  BY FS_Subset, FS_CardinalityType
<1> DEFINE S == {m \in Nat : Cardinality(Upto(m)) >= left}
<1>2. S # {}
  <2>1. PICK b \in Nat : \A x \in A : x < b  BY Bounded
  <2>2. Upto(b) = A
    <3>1. \A x \in A : x \in Nat /\ x <= b  BY <2>1
    <3> QED  BY <3>1
  <2> HIDE DEF Upto
  <2>3. b \in S  BY <2>2
  <2> QED  BY <2>3
<1>3. PICK m \in S : \A j \in S : m <= j
  <2>1. S \subseteq Nat  OBVIOUS
  <2> HIDE DEF S
  <2> QED  BY <1>2, <2>1, HasLeast
<1>4. m \in Nat /\ Cardinality(Upto(m)) >= left  BY <1>3
<1>5. Cardinality(Upto(m - 1)) < left
  <2>1. CASE m = 0
    <3>1. \A x \in A : x \in Nat /\ ~(x <= m - 1)  BY <2>1
    <3>2. Upto(m - 1) = {}  BY <3>1
    <3> HIDE DEF Upto
    <3> QED  BY <3>2, FS_EmptySet
  <2>2. CASE m # 0
    <3> HIDE DEF Upto
    <3>1. m - 1 \in Nat /\ ~(m <= m - 1)  BY <1>4, <2>2
    <3>2. m - 1 \notin S  BY <1>3, <3>1
    <3> QED  BY <1>1, <3>1, <3>2
  <2> QED  BY <2>1, <2>2
<1>6. m \in A
  <2> SUFFICES ASSUME m \notin A PROVE FALSE  OBVIOUS
  <2>1. Upto(m) = Upto(m - 1)
    <3>1. \A x \in A : x <= m <=> x <= m - 1
      <4> SUFFICES ASSUME NEW x \in A PROVE x <= m <=> x <= m - 1  OBVIOUS
      <4>1. x \in Nat /\ x # m  OBVIOUS
      <4> QED  BY <1>4, <4>1
    <3> QED  BY <3>1
  <2> HIDE DEF Upto
  <2>2. m - 1 \in Int  BY <1>4
  <2> QED  BY <1>1, <1>4, <1>5, <2>1, <2>2
<1>7. Upto(m) = Upto(m - 1) \cup {m}
  <2>1. \A x \in A : x <= m <=> x <= m - 1 \/ x = m
    <3> SUFFICES ASSUME NEW x \in A PROVE x <= m <=> x <= m - 1 \/ x = m  OBVIOUS
    <3>1. x \in Nat  OBVIOUS
    <3> QED  BY <1>4, <3>1
  <2>2. m <= m  BY <1>4
  <2> QED  BY <1>6, <2>1, <2>2
<1> HIDE DEF Upto
<1>8. m - 1 \in Int  BY <1>4
<1>9. Cardinality(Upto(m - 1) \cup {m}) <= Cardinality(Upto(m - 1)) + 1
  <2> DEFINE U == Upto(m - 1)
  <2>1. IsFiniteSet(U) /\ Cardinality(U) \in Nat  BY <1>1, <1>8
  <2> HIDE DEF U
  <2>2. Cardinality(U \cup {m}) = IF m \in U THEN Cardinality(U) ELSE Cardinality(U) + 1
    BY <2>1, FS_AddElement, Zenon
  <2>3. Cardinality(U \cup {m}) <= Cardinality(U) + 1  BY <2>1, <2>2
  <2> QED  BY <2>3 DEF U
<1>10. Cardinality(Upto(m)) = left
  <2>1. Cardinality(Upto(m)) <= Cardinality(Upto(m - 1)) + 1  BY <1>7, <1>9
  <2>2. Cardinality(Upto(m)) \in Nat /\ Cardinality(Upto(m - 1)) \in Nat  BY <1>1, <1>4, <1>8
  <2> HIDE DEF S
  <2> QED  BY <1>4, <1>5, <2>1, <2>2
<1> QED  BY <1>6, <1>10 DEF Upto

\* There is a midnight ahead whose day has work.
LEMMA OpenDayAhead ==
  ASSUME NEW cal, WellFormed(cal), NEW c \in Nat
  PROVE  \E x \in Nat : c < x /\ Day(x) * DayLength = x /\ Ahead(cal, x) # {}
<1>1. PICK n \in Nat \ {0} : DOMAIN cal.weekly = 0..(n - 1) /\ Cardinality(DOMAIN cal.weekly) = n
  BY WeekdayIs
<1>2. PICK k \in 0..(n - 1) : \E w \in cal.weekly[k] : w.start < DayLength \/ 0 < w.end
  BY <1>1 DEF WellFormed
<1> PICK w \in cal.weekly[k] : w.start < DayLength \/ 0 < w.end  BY <1>2
<1>3. PICK h \in Nat : \A y \in cal.holidays : y < h  BY Bounded DEF WellFormed
<1>4. Day(c) + 1 + h \in Nat /\ Day(c) \in Nat  BY DayIs
<1>5. PICK d \in Nat : d % n = k /\ Day(c) + 1 + h <= d  BY <1>4, WeekdayAgain
<1>6. d \notin cal.holidays /\ Day(c) < d  BY <1>3, <1>4, <1>5
<1> DEFINE x == d * DayLength
<1>7. x \in Nat /\ DayLength \in Nat \ {0} /\ (d + 1) * DayLength = x + DayLength  BY DayAssumption
<1>8. Day(x) = d
  <2> HIDE DEF x
  <2>1. x <= x /\ x < x + DayLength  BY <1>7
  <2> QED  BY <1>7, <2>1, DayUnique DEF x
<1>9. c < x
  <2>1. /\ Day(c) * DayLength + DayLength <= x /\ Day(c) * DayLength \in Nat
        /\ c < Day(c) * DayLength + DayLength
    BY <1>4, <1>6, DaysApart, DayIs
  <2> HIDE DEF x
  <2> QED  BY <1>7, <2>1
<1>10. w.start \in 0..DayLength /\ w.end \in 0..DayLength /\ w.start # w.end
  BY <1>1 DEF WellFormed
<1> DEFINE i == IF w.end <= w.start THEN Span(d * DayLength + w.start, (d + 1) * DayLength + w.end)
                                    ELSE Span(d * DayLength + w.start, d * DayLength + w.end)
<1>11. x + w.start \in i /\ x <= x + w.start
  <2>1. i = IF w.end <= w.start THEN Span(x + w.start, x + DayLength + w.end)
                                ELSE Span(x + w.start, x + w.end)
    BY <1>7
  <2> HIDE DEF x, i
  <2> QED  BY <1>2, <1>7, <1>10, <2>1 DEF Span
<1> HIDE DEF x
<1>12. i \in Intervals(cal, x)  BY <1>1, <1>5, <1>6, <1>8 DEF Intervals
<1> HIDE DEF i
<1>13. x + w.start \in Ahead(cal, x)  BY <1>11, <1>12 DEF Ahead
<1> QED  BY <1>7, <1>8, <1>9, <1>13 DEF x

LEMMA OpensIs ==
  ASSUME NEW cal, WellFormed(cal), NEW c \in Nat
  PROVE  /\ First(Opens(cal, c)) \in Opens(cal, c)
         /\ Ahead(cal, c) # {} => First(Opens(cal, c)) = c
         /\ Ahead(cal, c) = {} => Opens(cal, NextLocalDay(c)) = Opens(cal, c)
<1>1. \E x \in Opens(cal, c) : \A y \in Opens(cal, c) : x <= y
  <2>1. PICK x \in Nat : c < x /\ Day(x) * DayLength = x /\ Ahead(cal, x) # {}  BY OpenDayAhead
  <2>2. x \in Opens(cal, c) /\ Opens(cal, c) \subseteq Nat  BY <2>1 DEF Opens
  <2> QED  BY <2>2, HasLeast
<1>2. First(Opens(cal, c)) \in Opens(cal, c) /\ \A y \in Opens(cal, c) : First(Opens(cal, c)) <= y
  BY <1>1 DEF First
<1>3. ASSUME Ahead(cal, c) # {} PROVE First(Opens(cal, c)) = c
  <2>1. c \in Opens(cal, c)  BY <1>3 DEF Opens
  <2>2. First(Opens(cal, c)) \in Nat /\ c <= First(Opens(cal, c))  BY <1>2 DEF Opens
  <2> QED  BY <1>2, <2>1, <2>2
<1>4. ASSUME Ahead(cal, c) = {} PROVE Opens(cal, NextLocalDay(c)) = Opens(cal, c)
  <2> DEFINE n == NextLocalDay(c)
  <2>1. n \in Nat /\ c < n /\ Day(n) = Day(c) + 1 /\ n = Day(c) * DayLength + DayLength /\ Day(c) \in Nat
    BY NextDayIs, DayIs
  <2>2. Day(n) * DayLength = n
    <3>1. (Day(c) + 1) * DayLength = Day(c) * DayLength + DayLength  BY <2>1, DayAssumption
    <3> QED  BY <2>1, <3>1
  <2>3. ASSUME NEW x \in Nat, c < x, Day(x) * DayLength = x PROVE n <= x
    <3>1. Day(x) \in Nat  BY DayIs
    <3>2. Day(c) < Day(x)
      <4> SUFFICES ASSUME Day(x) <= Day(c) PROVE FALSE  BY <2>1, <3>1
      <4>1. Day(c) * DayLength <= c /\ Day(c) * DayLength \in Nat  BY DayIs
      <4>2. CASE Day(x) = Day(c)  BY <2>3, <4>1, <4>2
      <4>3. CASE Day(x) < Day(c)
        <5>1. x + DayLength <= Day(c) * DayLength  BY <2>1, <2>3, <3>1, <4>3, DaysApart
        <5> QED  BY <2>3, <4>1, <5>1, DayAssumption
      <4> QED  BY <2>1, <3>1, <4>2, <4>3
    <3>3. Day(c) * DayLength + DayLength <= Day(x) * DayLength  BY <2>1, <3>1, <3>2, DaysApart
    <3> QED  BY <2>1, <2>3, <3>3
  <2> HIDE DEF n
  <2>4. ASSUME NEW x \in Opens(cal, n) PROVE x \in Opens(cal, c)
    BY <2>1, <2>2 DEF Opens
  <2>5. ASSUME NEW x \in Opens(cal, c) PROVE x \in Opens(cal, n)
    <3>1. x \in Nat /\ c <= x /\ Ahead(cal, x) # {} /\ (x = c \/ Day(x) * DayLength = x)  BY DEF Opens
    <3>2. x # c  BY <1>4, <3>1
    <3>3. c < x /\ Day(x) * DayLength = x  BY <3>1, <3>2
    <3> QED  BY <2>3, <3>1, <3>3 DEF Opens
  <2> QED  BY <2>4, <2>5 DEF n
<1> QED  BY <1>2, <1>3, <1>4

\* The loop ends, whatever the calendar: it can be computed for one minute more at a
\* time.
LEMMA AddsExists ==
  ASSUME NEW cal, WellFormed(cal), NEW d \in Nat
  PROVE  \E g : Adds(cal, d, g)
<1> DEFINE Bad == {l \in Nat : ~\E g : Adds(cal, l, g)}
<1>1. SUFFICES ASSUME Bad # {} PROVE FALSE  OBVIOUS
<1>2. PICK k \in Bad : \A j \in Bad : k <= j
  <2>1. Bad \subseteq Nat  OBVIOUS
  <2> HIDE DEF Bad
  <2> QED  BY <1>1, <2>1, HasLeast
<1>3. k \in Nat /\ ~\E g : Adds(cal, k, g)  BY <1>2
<1>4. k # 0
  <2> DEFINE g == [c \in Nat |-> AddsRow(cal, 0, 0, c)]
  <2>1. 1..0 = {}  OBVIOUS
  <2>2. \A f, c : AddsRow(cal, 0, f, c) = AddsRow(cal, 0, 0, c)  BY <2>1 DEF AddsRow
  <2>3. g = [c \in Nat |-> AddsRow(cal, 0, g, c)]  BY <2>2
  <2> HIDE DEF g
  <2>4. Adds(cal, 0, g)  BY <2>3 DEF Adds
  <2> QED  BY <1>3, <2>4
<1>5. k - 1 \in Nat /\ k - 1 \notin Bad
  <2>1. k - 1 \in Nat /\ ~(k <= k - 1)  BY <1>3, <1>4
  <2> QED  BY <1>2, <2>1
<1>6. PICK h : Adds(cal, k - 1, h)  BY <1>5
<1> DEFINE to(c) == First(Opens(cal, c))
           g == [c \in Nat |-> [left \in 1..k |->
                   IF left = k THEN AddsFrom(cal, h, to(c), k) ELSE h[c][left]]]
<1>7. \A c \in Nat : \A left \in 1..k :
        g[c][left] = IF left = k THEN AddsFrom(cal, h, to(c), k) ELSE h[c][left]
  OBVIOUS
<1>8. \A c \in Nat : g[c] = [left \in 1..k |-> g[c][left]]  OBVIOUS
<1>9. g = [c \in Nat |-> g[c]]  OBVIOUS
<1> HIDE DEF g
\* the lower rows are those of h
<1>10. ASSUME NEW c \in Nat, NEW left \in 1..k, Ahead(cal, c) # {} \/ left # k
       PROVE  AddsFrom(cal, h, c, left) = AddsFrom(cal, g, c, left)
  <2> DEFINE a == Cardinality(Ahead(cal, c))  n == NextLocalDay(Cursor(cal, c))
  <2>1. a \in Nat /\ n \in Nat /\ (left = k => a # 0)  BY <1>10, AheadFinite, CursorAhead
  <2>2. CASE a >= left  BY <2>2 DEF AddsFrom
  <2>3. CASE ~(a >= left)
    <3>1. left - a \in 1..k /\ left - a # k  BY <1>3, <2>1, <2>3
    <3>2. g[n][left - a] = h[n][left - a]
      <4> HIDE DEF a, n
      <4> QED  BY <1>7, <2>1, <3>1
    <3> QED  BY <2>3, <3>2 DEF AddsFrom
  <2> QED  BY <2>2, <2>3
<1>11. ASSUME NEW c \in Nat, NEW left \in 1..k PROVE g[c][left] = AddsFrom(cal, g, c, left)
  <2>1. CASE left # k
    <3>1. left \in 1..(k - 1)  BY <1>3, <2>1
    <3>2. h[c][left] = AddsFrom(cal, h, c, left)  BY <1>5, <1>6, <3>1, AddsIs
    <3> QED  BY <1>7, <1>10, <2>1, <3>2
  <2>2. CASE left = k /\ Ahead(cal, c) # {}
    <3>1. to(c) = c  BY <2>2, OpensIs
    <3> QED  BY <1>7, <1>10, <2>2, <3>1
  <2>3. CASE left = k /\ Ahead(cal, c) = {}
    <3> DEFINE n == NextLocalDay(c)
    <3>1. n \in Nat /\ NextLocalDay(Cursor(cal, c)) = n /\ Cardinality(Ahead(cal, c)) = 0
      BY <2>3, CursorAhead, AheadFinite
    <3>2. to(n) = to(c)  BY <2>3, OpensIs
    <3>3. g[n][k] = g[c][k]
      <4> HIDE DEF n, to
      <4> QED  BY <1>7, <2>3, <3>1, <3>2
    <3>4. ~(0 >= k) /\ k - 0 = k  BY <1>3, <1>4
    <3>5. AddsFrom(cal, g, c, k) = g[n][k]  BY <3>1, <3>4 DEF AddsFrom
    <3> QED  BY <2>3, <3>3, <3>5
  <2> QED  BY <2>1, <2>2, <2>3
<1>12. \A c \in Nat : g[c] = AddsRow(cal, k, g, c)
  <2> SUFFICES ASSUME NEW c \in Nat PROVE g[c] = AddsRow(cal, k, g, c)  OBVIOUS
  <2>1. \A left \in 1..k : g[c][left] = AddsFrom(cal, g, c, left)  BY <1>11
  <2>2. g[c] = [left \in 1..k |-> g[c][left]]  BY <1>8
  <2>3. [left \in 1..k |-> g[c][left]] = [left \in 1..k |-> AddsFrom(cal, g, c, left)]  BY <2>1
  <2> QED  BY <2>2, <2>3 DEF AddsRow
<1>13. g = [c \in Nat |-> AddsRow(cal, k, g, c)]
  <2>1. [c \in Nat |-> g[c]] = [c \in Nat |-> AddsRow(cal, k, g, c)]  BY <1>12
  <2> QED  BY <1>9, <2>1
<1>14. Adds(cal, k, g)  BY <1>13 DEF Adds
<1> QED  BY <1>3, <1>14

LEMMA AddUnfolds ==
  ASSUME NEW cal, WellFormed(cal), NEW start, NEW d \in Nat \ {0}
  PROVE  \E g : Adds(cal, d, g) /\ Add(cal, start, d) = g[start][d]
<1>1. ~(d <= 0)  OBVIOUS
<1>2. Add(cal, start, d) = (CHOOSE g : Adds(cal, d, g))[start][d]
  BY <1>1 DEF Add, Adds, AddsRow, AddsFrom, Ahead, Cursor, Filled
<1>3. \E g : Adds(cal, d, g)  BY AddsExists
<1> QED  BY <1>2, <1>3

\* Where the loop goes on lies behind what is ahead, and that has all been worked.
LEMMA AheadIsWorked ==
  ASSUME NEW cal, WellFormed(cal), NEW c \in Nat
  PROVE  /\ Ahead(cal, c) \subseteq Worked(cal, c, NextLocalDay(Cursor(cal, c)))
         /\ Cardinality(Ahead(cal, c)) <= Open(cal, c, NextLocalDay(Cursor(cal, c)))
         /\ \A m \in Nat : {x \in Ahead(cal, c) : x <= m} \subseteq Worked(cal, c, m + 1)
<1> DEFINE A == Ahead(cal, c)  n == NextLocalDay(Cursor(cal, c))
<1>1. n \in Nat  BY CursorAhead
<1>2. \A m \in A : m \in Nat /\ c <= m /\ Working(cal, m)  BY MinutesWorked DEF Ahead
<1>3. \A m \in A : m < n
  <2> SUFFICES ASSUME NEW m \in A PROVE m < n  OBVIOUS
  <2>1. PICK b \in Nat : \A x \in A : x < b  BY AheadFinite
  <2>2. A \subseteq Nat /\ A # {}  BY <1>2
  <2>3. Last(A) \in A /\ m <= Last(A)
    <3> HIDE DEF A
    <3> QED  BY <2>1, <2>2, LastOf
  <2>4. Cursor(cal, c) = Last(A) + 1 /\ Last(A) \in Nat  BY <2>2, <2>3 DEF Cursor
  <2>5. Last(A) + 1 < n  BY <2>4, NextDayIs
  <2> QED  BY <1>1, <2>2, <2>3, <2>4, <2>5
<1> HIDE DEF A, n
<1>4. A \subseteq Worked(cal, c, n)  BY <1>1, <1>2, <1>3 DEF Worked, Span
<1>5. IsFiniteSet(Worked(cal, c, n)) /\ Open(cal, c, n) = Cardinality(Worked(cal, c, n))  BY <1>1, OpenIs
<1>6. Cardinality(A) <= Open(cal, c, n)  BY <1>4, <1>5, FS_Subset
<1>7. \A m \in Nat : {x \in A : x <= m} \subseteq Worked(cal, c, m + 1)  BY <1>2 DEF Worked, Span
<1> QED  BY <1>4, <1>6, <1>7 DEF A, n

LEMMA FilledIsEnough ==
  ASSUME NEW cal, WellFormed(cal), NEW c \in Nat, NEW left \in Nat \ {0},
         Cardinality(Ahead(cal, c)) >= left
  PROVE  /\ Filled(cal, c, left) \in Nat /\ c <= Filled(cal, c, left)
         /\ Open(cal, c, Filled(cal, c, left)) >= left
<1> DEFINE A == Ahead(cal, c)
<1>1. IsFiniteSet(A) /\ A \subseteq Nat /\ \A m \in A : c <= m  BY AheadFinite DEF Ahead
<1>2. \E m \in A : Cardinality({x \in A : x <= m}) = left
  <2> HIDE DEF A
  <2> QED  BY <1>1, NthOf DEF A
<1>3. PICK m \in A : m = CHOOSE y \in A : Cardinality({x \in A : x <= y}) = left
  <2> HIDE DEF A
  <2> QED  BY <1>2
<1>4. Cardinality({x \in A : x <= m}) = left
  <2> HIDE DEF A
  <2> QED  BY <1>2, <1>3
<1>5. Filled(cal, c, left) = m + 1 /\ m \in Nat /\ c <= m  BY <1>1, <1>3 DEF Filled
<1>6. {x \in A : x <= m} \subseteq Worked(cal, c, m + 1)  BY <1>5, AheadIsWorked
<1>7. /\ IsFiniteSet(Worked(cal, c, m + 1)) /\ Open(cal, c, m + 1) = Cardinality(Worked(cal, c, m + 1))
      /\ Open(cal, c, m + 1) \in Nat
  BY <1>5, OpenIs
<1> HIDE DEF A
<1>8. left <= Open(cal, c, m + 1)  BY <1>4, <1>6, <1>7, FS_Subset
<1> QED  BY <1>5, <1>7, <1>8

\* t is a minute at or after b by which as much has been worked since.
Enough(cal, b, left, t) == t \in Nat /\ b <= t /\ Open(cal, b, t) >= left

LEMMA EnoughAhead ==
  ASSUME NEW cal, NEW b \in Nat, NEW n \in Nat, NEW a \in Nat, NEW left \in Nat, NEW t,
         b <= n, a <= Open(cal, b, n), Enough(cal, n, left - a, t)
  PROVE  Enough(cal, b, left, t)
<1>1. t \in Nat /\ n <= t /\ b <= t /\ Open(cal, n, t) >= left - a  BY DEF Enough
<1>2. /\ Open(cal, b, t) = Open(cal, b, n) + Open(cal, n, t)
      /\ Open(cal, b, n) \in Nat /\ Open(cal, n, t) \in Nat
  BY <1>1, OpenSplits, OpenIs
<1>3. Open(cal, b, t) >= left  BY <1>1, <1>2
<1> QED  BY <1>1, <1>3 DEF Enough

\* Every solution leaves room for the work.
LEMMA AddsAreEnough ==
  ASSUME NEW cal, WellFormed(cal), NEW d \in Nat, NEW g, Adds(cal, d, g), NEW c \in Nat, NEW left \in 1..d
  PROVE  Enough(cal, c, left, g[c][left])
<1> DEFINE Bad == {l \in 1..d : \E b \in Nat : ~Enough(cal, b, l, g[b][l])}
<1>1. SUFFICES ASSUME Bad # {} PROVE FALSE  OBVIOUS
<1>2. PICK k \in Bad : \A j \in Bad : k <= j
  <2>1. Bad \subseteq Nat  OBVIOUS
  <2> HIDE DEF Bad
  <2> QED  BY <1>1, <2>1, HasLeast
<1>3. k \in 1..d  BY <1>2
<1>4. PICK b \in Nat : ~Enough(cal, b, k, g[b][k])  BY <1>2
<1>5. PICK x \in Opens(cal, b) : x \in Nat /\ b <= x  BY OpensIs DEF Opens
<1> DEFINE Far == {j \in 0..x : x \in Opens(cal, x - j) /\ ~Enough(cal, x - j, k, g[x - j][k])}
<1>6. PICK j \in Far : \A i \in Far : j <= i
  <2>1. x - b \in 0..x /\ x - (x - b) = b  BY <1>5
  <2>2. x - b \in Far  BY <1>4, <1>5, <2>1
  <2>3. Far \subseteq Nat  BY <1>5
  <2> HIDE DEF Far
  <2> QED  BY <2>2, <2>3, HasLeast
<1>7. PICK y \in 0..x : y = x - j  BY <1>5, <1>6
<1>8. j = x - y /\ y \in Nat /\ x \in Opens(cal, y) /\ ~Enough(cal, y, k, g[y][k])  BY <1>5, <1>6, <1>7
<1> DEFINE a == Cardinality(Ahead(cal, y))  n == NextLocalDay(Cursor(cal, y))
<1>9. /\ a \in Nat /\ (a = 0 <=> Ahead(cal, y) = {}) /\ n \in Nat /\ y < n
      /\ a <= Open(cal, y, n)
  BY <1>8, AheadFinite, CursorAhead, AheadIsWorked
<1>10. g[y][k] = AddsFrom(cal, g, y, k)  BY <1>3, <1>8, AddsIs
<1>11. ~(a >= k)
  <2> SUFFICES ASSUME a >= k PROVE FALSE  OBVIOUS
  <2>1. AddsFrom(cal, g, y, k) = Filled(cal, y, k)  BY DEF AddsFrom
  <2>2. Enough(cal, y, k, Filled(cal, y, k))  BY <1>3, <1>8, FilledIsEnough DEF Enough
  <2> QED  BY <1>8, <1>10, <2>1, <2>2
<1>12. g[y][k] = g[n][k - a]  BY <1>10, <1>11 DEF AddsFrom
<1>13. ~Enough(cal, n, k - a, g[n][k - a])
  <2> SUFFICES ASSUME Enough(cal, n, k - a, g[n][k - a]) PROVE FALSE  OBVIOUS
  <2>1. k \in Nat /\ y <= n  BY <1>3, <1>8, <1>9
  <2> HIDE DEF a, n
  <2>2. Enough(cal, y, k, g[n][k - a])  BY <1>8, <1>9, <2>1, EnoughAhead
  <2> QED  BY <1>8, <1>12, <2>2
<1>14. CASE Ahead(cal, y) # {}
  <2>1. k - a \in 1..d /\ k - a \notin Bad
    <3>1. k - a \in 1..d /\ ~(k <= k - a)  BY <1>3, <1>9, <1>11, <1>14
    <3> HIDE DEF a
    <3> QED  BY <1>2, <3>1
  <2> HIDE DEF a, n
  <2> QED  BY <1>9, <1>13, <2>1
<1>15. CASE Ahead(cal, y) = {}
  <2>1. n = NextLocalDay(y) /\ Opens(cal, n) = Opens(cal, y)  BY <1>8, <1>15, CursorAhead, OpensIs
  <2>2. x \in Opens(cal, n) /\ n <= x  BY <1>8, <2>1 DEF Opens
  <2>3. ~Enough(cal, n, k, g[n][k])
    <3>1. k - a = k  BY <1>3, <1>9, <1>15
    <3> QED  BY <1>13, <3>1
  <2> HIDE DEF n
  <2>4. x - n \in 0..x /\ x - (x - n) = n /\ ~(j <= x - n)  BY <1>5, <1>8, <1>9, <2>2
  <2>5. x - n \in Far  BY <2>2, <2>3, <2>4
  <2> QED  BY <1>6, <2>4, <2>5
<1> QED  BY <1>14, <1>15

\* Add ends on every calendar that has a working minute, and never too soon.
LEMMA AddIsEnough ==
  ASSUME NEW cal, WellFormed(cal), NEW start \in Nat, NEW d \in Nat
  PROVE  /\ Add(cal, start, d) \in Nat /\ start <= Add(cal, start, d)
         /\ Open(cal, start, Add(cal, start, d)) >= d
<1>1. CASE d = 0
  <2>1. Add(cal, start, d) = start  BY <1>1 DEF Add
  <2> QED  BY <1>1, <2>1, OpenNone
<1>2. CASE d # 0
  <2>1. PICK g : Adds(cal, d, g) /\ Add(cal, start, d) = g[start][d]  BY <1>2, AddUnfolds
  <2>2. d \in 1..d  BY <1>2
  <2>3. Enough(cal, start, d, g[start][d])  BY <2>1, <2>2, AddsAreEnough
  <2> QED  BY <2>1, <2>3 DEF Enough
<1> QED  BY <1>1, <1>2

\* One turn of it, for a loop that ends with the minutes it is asked for.
LEMMA AddsTurn ==
  ASSUME NEW cal, WellFormed(cal), Plain(cal), NEW g, NEW c \in Nat, NEW left \in Nat \ {0}
  PROVE  LET n == NextLocalDay(c)
             k == left - Open(cal, c, n)
         IN /\ n \in Nat /\ c < n /\ n <= c + DayLength /\ Open(cal, c, n) \in Nat
            /\ Open(cal, c, n) >= left => AddsFrom(cal, g, c, left) = Filled(cal, c, left)
            /\ ~(Open(cal, c, n) >= left) =>
                 /\ k \in Nat \ {0} /\ k <= left /\ AddsFrom(cal, g, c, left) = g[n][k]
                 /\ \A m : Nth(cal, n, k, m) => Nth(cal, c, left, m)
<1> DEFINE n == NextLocalDay(c)  k == left - Open(cal, c, n)
<1>1. n \in Nat /\ c < n /\ n <= c + DayLength  BY NextDayIs
<1>2. Cardinality(Ahead(cal, c)) = Open(cal, c, n) /\ NextLocalDay(Cursor(cal, c)) = n
  BY AheadIs, CursorIs
<1> HIDE DEF n
<1>3. Open(cal, c, n) \in Nat  BY <1>1, OpenIs
<1>4. Open(cal, c, n) >= left => AddsFrom(cal, g, c, left) = Filled(cal, c, left)  BY <1>2 DEF AddsFrom
<1>5. ASSUME ~(Open(cal, c, n) >= left)
      PROVE  k \in Nat \ {0} /\ k <= left /\ AddsFrom(cal, g, c, left) = g[n][k]
  <2>1. k \in Nat \ {0} /\ k <= left  BY <1>3, <1>5
  <2>2. AddsFrom(cal, g, c, left) = g[n][k]  BY <1>2, <1>5 DEF AddsFrom
  <2> QED  BY <2>1, <2>2
<1>6. ASSUME ~(Open(cal, c, n) >= left), NEW m, Nth(cal, n, k, m) PROVE Nth(cal, c, left, m)
  <2>1. k + Open(cal, c, n) = left /\ k \in Int  BY <1>3
  <2> HIDE DEF k
  <2>2. Nth(cal, c, k + Open(cal, c, n), m)  BY <1>1, <1>6, <2>1, NthAhead
  <2> QED  BY <2>1, <2>2
<1> QED  BY <1>1, <1>3, <1>4, <1>5, <1>6 DEF n

\* Whatever solves it finds that minute.
LEMMA AddsAre ==
  ASSUME NEW cal, WellFormed(cal), Plain(cal), NEW d \in Nat, NEW g, Adds(cal, d, g),
         NEW c \in Nat, NEW left \in 1..d, NEW m, Nth(cal, c, left, m)
  PROVE  g[c][left] = m + 1
<1> DEFINE Bad == {k \in 0..m : \E l \in 1..d : Nth(cal, m - k, l, m) /\ g[m - k][l] # m + 1}
<1>0. m \in Nat /\ c <= m  BY DEF Nth
<1>1. SUFFICES ASSUME Bad # {} PROVE FALSE
  <2> SUFFICES ASSUME g[c][left] # m + 1 PROVE FALSE  OBVIOUS
  <2>1. m - c \in 0..m /\ m - (m - c) = c  BY <1>0
  <2>2. m - c \in Bad  BY <2>1
  <2> QED  BY <1>1, <2>2
<1>2. PICK k \in Bad : \A j \in Bad : k <= j
  <2>1. Bad \subseteq Nat  BY <1>0
  <2> HIDE DEF Bad
  <2> QED  BY <1>1, <2>1, HasLeast
<1>3. PICK b \in 0..m : b = m - k  BY <1>0, <1>2
<1>4. PICK l \in 1..d : Nth(cal, b, l, m) /\ g[b][l] # m + 1  BY <1>2, <1>3
<1>5. k = m - b /\ b \in Nat /\ k \in Nat  BY <1>0, <1>2, <1>3
<1>6. g[b][l] = AddsFrom(cal, g, b, l)
  BY <1>4, <1>5, AddsIs
<1>7. ~(Open(cal, b, NextLocalDay(b)) >= l)
  <2> SUFFICES ASSUME Open(cal, b, NextLocalDay(b)) >= l PROVE FALSE  OBVIOUS
  <2> QED  BY <1>4, <1>5, <1>6, AddsTurn, FilledIs
<1> DEFINE n == NextLocalDay(b)  j == l - Open(cal, b, n)
<1>8. n \in Nat /\ b < n /\ j \in Nat \ {0} /\ j <= l /\ AddsFrom(cal, g, b, l) = g[n][j]
  BY <1>5, <1>7, AddsTurn
<1>9. \A x : Nth(cal, n, j, x) => Nth(cal, b, l, x)  BY <1>5, <1>7, AddsTurn
<1> HIDE DEF n, j
<1>10. PICK x : Nth(cal, n, j, x)  BY <1>8, NthExists
<1>11. x = m  BY <1>4, <1>5, <1>9, <1>10, NthUnique
<1>12. n <= m  BY <1>10, <1>11 DEF Nth
<1>13. m - n \in 0..m /\ m - (m - n) = n /\ ~(k <= m - n)  BY <1>0, <1>5, <1>8, <1>12
<1>14. m - n \in Bad
  <2>1. j \in 1..d  BY <1>8
  <2> QED  BY <1>4, <1>6, <1>8, <1>10, <1>11, <1>13, <2>1
<1> QED  BY <1>2, <1>13, <1>14

\* Add lands on the minute after the one that completes the duration.
LEMMA AddIs ==
  ASSUME NEW cal, WellFormed(cal), Plain(cal), NEW start \in Nat, NEW d \in Nat
  PROVE  /\ Add(cal, start, d) \in Nat /\ start <= Add(cal, start, d)
         /\ Open(cal, start, Add(cal, start, d)) = d
         /\ d > 0 => Open(cal, start, Add(cal, start, d) - 1) = d - 1
<1>1. CASE d = 0
  <2>1. Add(cal, start, d) = start  BY <1>1 DEF Add
  <2> QED  BY <1>1, <2>1, OpenNone
<1>2. CASE d # 0
  <2>1. PICK m : Nth(cal, start, d, m)  BY <1>2, NthExists
  <2>2. PICK g : Adds(cal, d, g) /\ Add(cal, start, d) = g[start][d]  BY <1>2, AddUnfolds
  <2>3. Add(cal, start, d) = m + 1  BY <1>2, <2>1, <2>2, AddsAre
  <2>4. m \in Nat /\ start <= m /\ Working(cal, m) /\ Open(cal, start, m) = d - 1  BY <2>1 DEF Nth
  <2>5. Open(cal, start, m + 1) = d  BY <2>4, OpenNext
  <2>6. (m + 1) - 1 = m  BY <2>4
  <2> QED  BY <2>3, <2>4, <2>5, <2>6
<1> QED  BY <1>1, <1>2

-------------------------------------------------------------------------------
(* The timers, and the inductive invariant                                   *)

Minutes == 0..MaxTime
TimerStates == {"none", "active", "paused", "met", "breached"}

TickRow == [st : {"none", "pending", "running", "stopped"},
            by : Ticks \cup {Primed, Gone}, spawned : BOOLEAN]

TickTyped ==
  /\ tick \in [Ticks -> TickRow]
  /\ reruns \in Nat /\ retried \in Nat /\ faults \in Nat

\* Every live row beyond the first one was counted when it came to be.
ChainInv == TickTyped /\ Cardinality(LiveTicks) <= 1 + reruns + retried

SubjectTyped ==
  /\ clock \in Minutes /\ live \in States /\ told \in States /\ sent \in Nat
  /\ target \in Policies

Events == [type : {"created", "message", "state"}, at : Minutes,
           arg : States \cup {None, "customer", "agent"}]

QueueTyped ==
  /\ queue \in Seq(Events)
  /\ ensured \in BOOLEAN /\ again \in BOOLEAN

TimerRow == [st : TimerStates, elapsed : Nat, since : Minutes \cup {None},
             deadline : Nat \cup {None}, warned : BOOLEAN]
HistRow == [from : Minutes \cup {None}, worked : Nat, stored : Nat, recounted : Nat,
            rehandled : BOOLEAN, announced : [approaching : Nat, breached : Nat]]

TimerTyped == timer \in [Kinds -> TimerRow] /\ hist \in [Kinds -> HistRow]

BatchTyped == batch \in [Ticks -> [now : Minutes, left : SUBSET Kinds]]

\* A timer has a target; it runs exactly while it has a start, and has a deadline
\* until it is paused or met.
TimerShape(k) ==
  /\ timer[k].st # "none" => target[k] # None /\ timer[k].elapsed <= target[k]
  /\ timer[k].since # None <=> timer[k].st = "active"
  /\ timer[k].deadline # None <=> timer[k].st \in {"active", "breached"}
  /\ timer[k].st = "active" => hist[k].from # None

\* Only a running tick has a batch, and an empty one is none.
BatchShape == \A j \in Ticks : tick[j].st # "running" \/ batch[j].left = {} => batch[j] = NoBatch

\* What was announced is remembered by the row: a warning by its flag, a breach by
\* its state.
Remembered(k) ==
  /\ timer[k].st = "none" => hist[k].announced = [approaching |-> 0, breached |-> 0]
  /\ ~hist[k].rehandled =>
       /\ hist[k].announced.approaching <= 1 /\ hist[k].announced.breached <= 1
       /\ hist[k].announced.approaching = 1 => timer[k].warned
       /\ hist[k].announced.breached = 1 => ~Unfinished(k)

NoStateEvent == \A i \in 1..Len(queue) : queue[i].type # "state"

\* The last state event that waits tells what was told last.
LastTold ==
  \A i \in 1..Len(queue) :
    queue[i].type = "state" /\ (\A j \in 1..Len(queue) : i < j => queue[j].type # "state") =>
      queue[i].arg = told

\* Only a wake that nobody was told of parts the state from it.
ToldOrWoken == told = live \/ (live = "open" /\ told = "snoozed")

\* Timers follow the state, unless an event that will see to it waits.
Follows(k) == Unfinished(k) => (timer[k].st = "paused" <=> live \in PauseStates)
AllFollow == NoStateEvent /\ told = live => \A k \in Kinds : Follows(k)

StateInv == LastTold /\ ToldOrWoken /\ AllFollow

SlaTyped == SubjectTyped /\ QueueTyped /\ TimerTyped /\ BatchTyped
SlaShape == BatchShape /\ \A k \in Kinds : TimerShape(k)
SlaInv == ChainInv /\ SlaTyped /\ SlaShape /\ (\A k \in Kinds : Remembered(k)) /\ StateInv

-------------------------------------------------------------------------------
(* The schedule                                                              *)

\* What a step of any actor does to the rows of the schedule.
ScheduleStep ==
  \/ Prime
  \/ \E j \in Ticks : StartTick(j) \/ FinishTick(j) \/ TickFails(j) \/ TickLost(j)
                      \/ CancelTick(j) \/ RetryTick(j)
  \/ UNCHANGED <<tick, reruns, retried>> /\ faults' \in {faults, faults + 1}

LEMMA StepsOfSchedule == [Next]_vars => ScheduleStep
BY DEF Next, Step, vars, subject, consumer, timers, scheduleVars, ScheduleStep, Post, SetState,
       WakeUntold, Advance, HandleMessage, Handle, HandleLost, Start, Finish, Break, EvaluateOne,
       Manage, Disturbed

\* The rows that steps write.
LEMMA RowsTyped ==
  /\ \A key \in Ticks \cup {Primed, Gone} : Row(key) \in TickRow
  /\ Blank \in TickRow
  /\ \A t \in TickRow : [t EXCEPT !.by = Gone] \in TickRow
BY DEF Row, Blank, TickRow

\* Every row that a step makes live is paid for.
LEMMA LiveGrows ==
  ASSUME NEW n, LiveTicks' \subseteq LiveTicks \cup {n}, IsFiniteSet(Ticks)
  PROVE  /\ IsFiniteSet(LiveTicks) /\ Cardinality(LiveTicks) \in Nat
         /\ Cardinality(LiveTicks') \in Nat
         /\ Cardinality(LiveTicks') <= Cardinality(LiveTicks) + 1
<1>1. IsFiniteSet(LiveTicks)  BY FS_Subset DEF LiveTicks
<1>2. IsFiniteSet(LiveTicks \cup {n}) /\ Cardinality(LiveTicks) \in Nat
      /\ Cardinality(LiveTicks \cup {n}) <= Cardinality(LiveTicks) + 1
  <2> DEFINE S == LiveTicks
  <2> HIDE DEF S
  <2>1. /\ IsFiniteSet(S \cup {n})
        /\ Cardinality(S \cup {n}) = IF n \in S THEN Cardinality(S) ELSE Cardinality(S) + 1
    BY <1>1, FS_AddElement, Zenon DEF S
  <2>2. Cardinality(S) \in Nat  BY <1>1, FS_CardinalityType DEF S
  <2> QED  BY <2>1, <2>2 DEF S
<1>3. /\ IsFiniteSet(LiveTicks')
      /\ Cardinality(LiveTicks') <= Cardinality(LiveTicks \cup {n})
  BY <1>2, FS_Subset
<1>4. Cardinality(LiveTicks') \in Nat /\ Cardinality(LiveTicks \cup {n}) \in Nat
  BY <1>2, <1>3, FS_CardinalityType
<1> QED  BY <1>1, <1>2, <1>3, <1>4

LEMMA LiveStays ==
  ASSUME LiveTicks' \subseteq LiveTicks, IsFiniteSet(Ticks)
  PROVE  /\ Cardinality(LiveTicks) \in Nat /\ Cardinality(LiveTicks') \in Nat
         /\ Cardinality(LiveTicks') <= Cardinality(LiveTicks)
<1>1. IsFiniteSet(LiveTicks)  BY FS_Subset DEF LiveTicks
<1> QED  BY <1>1, FS_Subset, FS_CardinalityType

\* The initial chain has one row, and is not disturbed.
LEMMA ChainInit == ScheduleInit => ChainInv
<1> SUFFICES ASSUME ScheduleInit PROVE ChainInv  OBVIOUS
<1>1. TickTyped  BY RowsTyped, ScheduleAssumption DEF ScheduleInit, TickTyped
<1>2. \A i, j \in LiveTicks : i = j
  <2>1. ASSUME NEW j \in LiveTicks PROVE \A i \in Ticks : j <= i
    BY <2>1 DEF LiveTicks, Live, ScheduleInit, Blank
  <2>2. LiveTicks \subseteq Ticks  BY DEF LiveTicks
  <2>3. ASSUME NEW i \in LiveTicks, NEW j \in LiveTicks PROVE i = j
    <3>1. i <= j /\ j <= i /\ i \in Nat /\ j \in Nat  BY <2>1, <2>2, ScheduleAssumption
    <3> QED  BY <3>1
  <2> QED  BY <2>3
<1>3. Cardinality(LiveTicks) <= 1
  <2>1. CASE LiveTicks = {}  BY <2>1, FS_EmptySet
  <2>2. ASSUME NEW j \in LiveTicks PROVE Cardinality(LiveTicks) <= 1
    <3>1. LiveTicks = {j}  BY <1>2
    <3>2. Cardinality({j}) = 1  BY FS_Singleton, Zenon
    <3> QED  BY <3>1, <3>2
  <2> QED  BY <2>1, <2>2
<1>4. IsFiniteSet(LiveTicks)  BY ScheduleAssumption, FS_Subset DEF LiveTicks
<1> QED  BY <1>1, <1>3, <1>4, FS_CardinalityType DEF ChainInv, ScheduleInit

LEMMA ChainStep == ChainInv /\ ScheduleStep => ChainInv'
<1> SUFFICES ASSUME ChainInv, ScheduleStep PROVE ChainInv'  OBVIOUS
<1>0. /\ TickTyped /\ IsFiniteSet(Ticks)
      /\ Cardinality(LiveTicks) <= 1 + reruns + retried
      /\ reruns \in Nat /\ retried \in Nat
  BY ScheduleAssumption DEF ChainInv, TickTyped
<1>1. CASE Prime
  <2>1. PICK n \in Ticks : NewTick(n) /\ tick' = [tick EXCEPT ![n] = Row(Primed)]
    BY <1>1 DEF Prime
  <2>2. TickTyped'  BY <1>0, <1>1, <2>1, RowsTyped DEF Prime, TickTyped
  <2>3. LiveTicks' \subseteq LiveTicks \cup {n}
    BY <1>0, <2>1 DEF LiveTicks, Live, TickTyped
  <2>4. Cardinality(LiveTicks) = 0  BY <1>1, FS_EmptySet DEF Prime
  <2> QED  BY <1>0, <1>1, <2>2, <2>3, <2>4, LiveGrows DEF ChainInv, Prime
<1>2. ASSUME NEW j \in Ticks, StartTick(j) \/ TickFails(j) \/ CancelTick(j) PROVE ChainInv'
  <2>1. TickTyped'
    BY <1>0, <1>2 DEF StartTick, TickFails, CancelTick, Disturbed, TickTyped, TickRow
  <2>2. LiveTicks' \subseteq LiveTicks /\ reruns' = reruns /\ retried' = retried
    BY <1>0, <1>2 DEF StartTick, TickFails, CancelTick, LiveTicks, Live, TickTyped
  <2> QED  BY <1>0, <2>1, <2>2, LiveStays DEF ChainInv
<1>3. ASSUME NEW j \in Ticks, FinishTick(j) PROVE ChainInv'
  <2>1. TickTyped' /\ LiveTicks' \subseteq LiveTicks
    <3>1. CASE KeyTaken(j)
      <4>1. tick' = Forget(j)  BY <1>3, <3>1 DEF FinishTick
      <4>2. \A i \in Ticks :
              /\ tick'[i] \in {Blank, tick[i], [tick[i] EXCEPT !.by = Gone]}
              /\ tick'[i] = Blank \/ tick'[i].st = tick[i].st
        BY <1>0, <4>1 DEF Forget, TickTyped
      <4>3. \A i \in Ticks : tick'[i] \in TickRow  BY <1>0, <4>2, RowsTyped DEF TickTyped
      <4>4. TickTyped'  BY <1>0, <1>3, <4>1, <4>3 DEF FinishTick, Forget, TickTyped
      <4>5. LiveTicks' \subseteq LiveTicks  BY <4>2 DEF Blank, LiveTicks, Live
      <4> QED  BY <4>4, <4>5
    <3>2. CASE ~KeyTaken(j)
      <4>1. tick' = [tick EXCEPT ![j] = Row(Gone)]  BY <1>3, <3>2 DEF FinishTick
      <4>2. TickTyped'
        <5>1. Row(Gone) \in TickRow  BY RowsTyped
        <5> QED  BY <1>0, <1>3, <4>1, <5>1 DEF FinishTick, TickTyped
      <4>3. \A i \in Ticks \ {j} : tick'[i] = tick[i]  BY <1>0, <4>1 DEF TickTyped
      <4>4. Live(j)  BY <1>3 DEF FinishTick, Live
      <4> QED  BY <4>2, <4>3, <4>4 DEF LiveTicks, Live
    <3> QED  BY <3>1, <3>2
  <2> QED  BY <1>0, <1>3, <2>1, LiveStays DEF ChainInv, FinishTick
<1>4. ASSUME NEW j \in Ticks, TickLost(j) PROVE ChainInv'
  <2>1. CASE tick' = [tick EXCEPT ![j].st = "pending"]
    <3>1. reruns' \in {reruns, reruns + 1} /\ retried' = retried
      BY <1>4 DEF TickLost
    <3>2. TickTyped' /\ LiveTicks' \subseteq LiveTicks
      BY <1>0, <1>4, <2>1, <3>1 DEF TickLost, Disturbed, LiveTicks, Live, TickTyped, TickRow
    <3> QED  BY <1>0, <3>1, <3>2, LiveStays DEF ChainInv
  <2>2. ASSUME NEW n \in Ticks, reruns' = reruns + 1,
               tick' = [tick EXCEPT ![j].st = "pending", ![j].spawned = TRUE, ![n] = Row(j)]
        PROVE  ChainInv'
    <3>1. TickTyped'
      <4>1. Row(j) \in TickRow  BY RowsTyped
      <4>2. tick' \in [Ticks -> TickRow]
        BY <1>0, <2>2, <4>1 DEF TickTyped, TickRow
      <4> QED  BY <1>0, <1>4, <2>2, <4>2 DEF TickLost, Disturbed, TickTyped
    <3>2. LiveTicks' \subseteq LiveTicks \cup {n}
      <4>1. Live(j)  BY <1>4 DEF TickLost, Live
      <4>2. \A i \in Ticks \ {j, n} : tick'[i] = tick[i]  BY <1>0, <2>2 DEF TickTyped
      <4> QED  BY <4>1, <4>2 DEF LiveTicks, Live
    <3>3. retried' = retried  BY <1>4 DEF TickLost
    <3> QED  BY <1>0, <2>2, <3>1, <3>2, <3>3, LiveGrows DEF ChainInv
  <2> QED  BY <1>4, <2>1, <2>2 DEF TickLost
<1>5. ASSUME NEW j \in Ticks, RetryTick(j) PROVE ChainInv'
  <2>1. TickTyped'  BY <1>0, <1>5 DEF RetryTick, TickTyped, TickRow
  <2>2. LiveTicks' \subseteq LiveTicks \cup {j}
    BY <1>0, <1>5 DEF RetryTick, LiveTicks, Live, TickTyped
  <2> QED  BY <1>0, <1>5, <2>1, <2>2, LiveGrows DEF ChainInv, RetryTick
<1>6. CASE UNCHANGED <<tick, reruns, retried>> /\ faults' \in {faults, faults + 1}
  BY <1>0, <1>6 DEF ChainInv, TickTyped, LiveTicks, Live
<1> QED  BY <1>1, <1>2, <1>3, <1>4, <1>5, <1>6 DEF ScheduleStep

-------------------------------------------------------------------------------
(* What a step does to a timer                                               *)

LEMMA NumbersAreSome == (\A n \in Nat : n # None) /\ Minutes \subseteq Nat /\ 0 \in Minutes
BY SlaAssumption DEF Minutes

LEMMA TargetNat ==
  ASSUME target \in Policies, NEW k \in Kinds, target[k] # None
  PROVE  target[k] \in Nat
BY SlaAssumption

\* A deadline is a number.
LEMMA DeadlineNat ==
  ASSUME target \in Policies, NEW k \in Kinds, target[k] # None, NEW start \in Minutes,
         NEW d \in 0..target[k]
  PROVE  Add(Calendar, start, d) \in Nat
<1>1. target[k] \in Nat /\ start \in Nat  BY TargetNat, NumbersAreSome
<1>2. d \in Nat  BY <1>1
<1>3. WellFormed(Calendar)  BY CalendarsAssumption
<1> QED  BY <1>1, <1>2, <1>3, AddIsEnough

\* The elapsed minutes of a timer grow, and never exceed its target.
LEMMA ElapsedWithin ==
  ASSUME SubjectTyped, TimerTyped, NEW k \in Kinds, TimerShape(k), timer[k].st # "none",
         NEW now \in Minutes
  PROVE  ElapsedAt(k, now) \in 0..target[k] /\ timer[k].elapsed <= ElapsedAt(k, now)
<1>1. target[k] \in Nat /\ timer[k].elapsed <= target[k]  BY TargetNat DEF SubjectTyped, TimerShape
<1>2. timer[k].elapsed \in Nat /\ timer[k].since \in Minutes \cup {None}
  BY DEF TimerTyped, TimerRow
<1>3. timer[k].since # None => Elapsed(Calendar, timer[k].since, now) \in Nat
  BY <1>2, CalendarsAssumption, ElapsedNat, NumbersAreSome
<1> QED  BY <1>1, <1>2, <1>3 DEF ElapsedAt, Capped

\* The changes of a timer, one for each place of the code that writes its row.
Keeps(k) == timer'[k] = timer[k] /\ hist'[k] = hist[k]

Starts(k, now) ==
  /\ target[k] # None /\ timer[k].st = "none"
  /\ timer'[k] = StartTimer(k, 0, now, live \in PauseStates)
  /\ hist'[k] = IF live \in PauseStates THEN hist[k] ELSE [hist[k] EXCEPT !.from = 0]

Restarts(k, now) ==
  /\ target[k] # None
  /\ timer'[k] = StartTimer(k, now, now, live \in PauseStates)
  /\ hist'[k] = [NoHistory EXCEPT !.from = IF live \in PauseStates THEN None ELSE now,
                                  !.rehandled = again,
                                  !.announced = IF again THEN hist[k].announced ELSE @]

Meets(k) == Unfinished(k) /\ timer'[k] = Met(k) /\ hist'[k] = hist[k]

Pauses(k, now) ==
  /\ timer[k].st = "active"
  /\ timer'[k] = Paused(k, now)
  /\ hist'[k] = [hist[k] EXCEPT !.from = None, !.worked = @ + Open(Calendar, hist[k].from, now),
                                !.recounted = @ + hist[k].stored]

Resumes(k, now) ==
  /\ timer[k].st = "paused"
  /\ timer'[k] = Resumed(k, now)
  /\ hist'[k] = [hist[k] EXCEPT !.from = now, !.stored = 0]

Evaluates(k, now) ==
  LET minutes == ElapsedAt(k, now)
      warns == Warns(k, minutes)
      breaches == Breaches(k, now)
  IN /\ Running(k)
     /\ timer'[k] = [timer[k] EXCEPT
          !.elapsed = minutes, !.warned = @ \/ warns,
          !.st = IF breaches THEN "breached" ELSE @, !.since = IF breaches THEN None ELSE @]
     /\ hist'[k] = [hist[k] EXCEPT
          !.stored = @ + (minutes - timer[k].elapsed),
          !.announced = [approaching |-> IF warns THEN @.approaching + 1 ELSE @.approaching,
                         breached |-> IF breaches THEN @.breached + 1 ELSE @.breached]]

Changes(k, now) ==
  Keeps(k) \/ Starts(k, now) \/ Restarts(k, now) \/ Meets(k) \/ Pauses(k, now)
           \/ Resumes(k, now) \/ Evaluates(k, now)

\* Timer k is well-formed and remembers what was announced of it.
Sound(k) == timer[k] \in TimerRow /\ hist[k] \in HistRow /\ TimerShape(k) /\ Remembered(k)

LEMMA StartKeeps ==
  ASSUME SubjectTyped, again \in BOOLEAN, target' = target, NEW k \in Kinds, Sound(k), NEW now \in Minutes,
         Starts(k, now) \/ Restarts(k, now)
  PROVE  Sound(k)'
<1>1. PICK from \in {0, now} : timer'[k] = StartTimer(k, from, now, live \in PauseStates)
  BY DEF Starts, Restarts
<1>2. target[k] # None /\ target[k] \in Nat /\ from \in Minutes
  BY TargetNat, SlaAssumption DEF Starts, Restarts, SubjectTyped, Minutes
<1>3. Add(Calendar, from, target[k]) \in Nat
  BY <1>2, DeadlineNat DEF SubjectTyped
<1>4. /\ timer'[k] \in TimerRow /\ ~timer'[k].warned /\ timer'[k].elapsed = 0
      /\ \/ /\ timer'[k].st = "paused" /\ live \in PauseStates
            /\ timer'[k].since = None /\ timer'[k].deadline = None
         \/ /\ timer'[k].st = "active" /\ live \notin PauseStates
            /\ timer'[k].since # None /\ timer'[k].deadline # None
  <2>1. CASE live \in PauseStates
    <3>1. timer'[k] = [st |-> "paused", elapsed |-> 0, since |-> None, deadline |-> None, warned |-> FALSE]
      BY <1>1, <2>1 DEF StartTimer, NoTimer
    <3> QED  BY <2>1, <3>1 DEF TimerRow, TimerStates
  <2>2. CASE live \notin PauseStates
    <3> DEFINE deadline == Add(Calendar, from, target[k])
    <3>1. timer'[k] = [st |-> "active", elapsed |-> 0, since |-> now, deadline |-> deadline, warned |-> FALSE]
      BY <1>1, <2>2 DEF StartTimer, NoTimer
    <3>2. deadline \in Nat  BY <1>3
    <3> HIDE DEF deadline
    <3> QED  BY <2>2, <3>1, <3>2, NumbersAreSome DEF TimerRow, TimerStates
  <2> QED  BY <2>1, <2>2
<1>5. /\ hist'[k] \in HistRow
      /\ live \notin PauseStates => hist'[k].from # None
      /\ ~hist'[k].rehandled =>
           hist'[k].announced.approaching <= 1 /\ hist'[k].announced.breached = 0
           /\ hist'[k].announced.approaching = 0
  <2>1. CASE Starts(k, now)
    BY <2>1, SlaAssumption DEF Starts, Sound, HistRow, Remembered, Minutes
  <2>2. CASE Restarts(k, now)
    <3> DEFINE from2 == IF live \in PauseStates THEN None ELSE now
               said == IF again THEN hist[k].announced ELSE [approaching |-> 0, breached |-> 0]
    <3>1. hist'[k] = [from |-> from2, worked |-> 0, stored |-> 0, recounted |-> 0,
                      rehandled |-> again, announced |-> said]
      BY <2>2 DEF Restarts, NoHistory
    <3>2. from2 \in Minutes \cup {None} /\ (live \notin PauseStates => from2 # None)
      BY NumbersAreSome
    <3>3. said \in [approaching : Nat, breached : Nat]  BY DEF Sound, HistRow
    <3>4. ~again => said.approaching = 0 /\ said.breached = 0  OBVIOUS
    <3> HIDE DEF from2, said
    <3> QED  BY <3>1, <3>2, <3>3, <3>4 DEF HistRow
  <2> QED  BY <2>1, <2>2
<1>6. TimerShape(k)'  BY <1>2, <1>4, <1>5 DEF TimerShape
<1>7. Remembered(k)'  BY <1>4, <1>5 DEF Remembered, HistRow
<1> QED  BY <1>4, <1>5, <1>6, <1>7 DEF Sound

LEMMA MeetKeeps ==
  ASSUME SubjectTyped, target' = target, NEW k \in Kinds, Sound(k), Meets(k)
  PROVE  Sound(k)'
<1>1. timer[k].st \in {"active", "paused"} /\ target[k] # None
  BY DEF Meets, Unfinished, Sound, TimerShape
<1>2. target[k] \in Nat  BY <1>1, TargetNat DEF SubjectTyped
<1>3. /\ timer'[k].st = "met" /\ timer'[k].elapsed = target[k] /\ timer'[k].warned = timer[k].warned
      /\ timer'[k].since = None /\ timer'[k].deadline = None
      /\ timer'[k] \in TimerRow /\ hist'[k] = hist[k]
  BY <1>2 DEF Meets, Met, Sound, TimerRow, TimerStates
<1>4. TimerShape(k)'  BY <1>1, <1>2, <1>3 DEF TimerShape
<1>5. Remembered(k)'  BY <1>1, <1>3 DEF Remembered, Sound, HistRow, Unfinished
<1> QED  BY <1>3, <1>4, <1>5 DEF Sound

LEMMA PauseKeeps ==
  ASSUME SubjectTyped, TimerTyped, target' = target, NEW k \in Kinds, Sound(k), NEW now \in Minutes,
         Pauses(k, now)
  PROVE  Sound(k)'
<1>1. timer[k].st = "active" /\ target[k] # None /\ hist[k].from \in Minutes
  BY DEF Pauses, Sound, TimerShape, HistRow
<1>2. ElapsedAt(k, now) \in 0..target[k] /\ target[k] \in Nat
  BY <1>1, ElapsedWithin, TargetNat DEF Sound, SubjectTyped
<1>3. /\ timer'[k].st = "paused" /\ timer'[k].elapsed = ElapsedAt(k, now)
      /\ timer'[k].warned = timer[k].warned
      /\ timer'[k].since = None /\ timer'[k].deadline = None
      /\ timer'[k] \in TimerRow
  <2> DEFINE minutes == ElapsedAt(k, now)
  <2>1. timer'[k] = [timer[k] EXCEPT !.st = "paused", !.elapsed = minutes, !.since = None, !.deadline = None]
    BY DEF Pauses, Paused
  <2>2. minutes \in Nat  BY <1>2
  <2> HIDE DEF minutes
  <2>3. timer[k] \in TimerRow  BY DEF Sound
  <2>4. /\ timer'[k].st = "paused" /\ timer'[k].elapsed = minutes
        /\ timer'[k].warned = timer[k].warned
        /\ timer'[k].since = None /\ timer'[k].deadline = None
        /\ timer'[k] \in TimerRow
    BY <2>1, <2>2, <2>3 DEF TimerRow, TimerStates
  <2> QED  BY <2>4 DEF minutes
<1>4. /\ hist'[k] \in HistRow /\ hist'[k].rehandled = hist[k].rehandled
      /\ hist'[k].announced = hist[k].announced
  <2> DEFINE worked == hist[k].worked + Open(Calendar, hist[k].from, now)
             recounted == hist[k].recounted + hist[k].stored
  <2>1. hist'[k] = [hist[k] EXCEPT !.from = None, !.worked = worked, !.recounted = recounted]
    BY DEF Pauses
  <2>2. Open(Calendar, hist[k].from, now) \in Nat  BY <1>1, OpenIs DEF Minutes
  <2>3. hist[k] \in HistRow /\ worked \in Nat /\ recounted \in Nat
    BY <2>2 DEF Sound, HistRow
  <2> HIDE DEF worked, recounted
  <2> QED  BY <2>1, <2>3 DEF HistRow
<1>5. TimerShape(k)'  BY <1>1, <1>2, <1>3 DEF TimerShape
<1>6. Remembered(k)'  BY <1>1, <1>3, <1>4 DEF Remembered, Sound, HistRow, Unfinished
<1> QED  BY <1>3, <1>4, <1>5, <1>6 DEF Sound

LEMMA ResumeKeeps ==
  ASSUME SubjectTyped, target' = target, NEW k \in Kinds, Sound(k), NEW now \in Minutes, Resumes(k, now)
  PROVE  Sound(k)'
<1>1. timer[k].st = "paused" /\ target[k] # None /\ timer[k].elapsed \in Nat
      /\ timer[k].elapsed <= target[k]
  BY DEF Resumes, Sound, TimerShape, TimerRow
<1>2. target[k] \in Nat  BY <1>1, TargetNat DEF SubjectTyped
<1>3. Add(Calendar, now, target[k] - timer[k].elapsed) \in Nat
  BY <1>1, <1>2, DeadlineNat, target[k] - timer[k].elapsed \in 0..target[k] DEF SubjectTyped
<1>4. /\ timer'[k].st = "active" /\ timer'[k].elapsed = timer[k].elapsed
      /\ timer'[k].warned = timer[k].warned /\ timer'[k].since = now
      /\ timer'[k].deadline \in Nat /\ timer'[k] \in TimerRow
  BY <1>3 DEF Resumes, Resumed, Sound, TimerRow, TimerStates
<1>5. /\ hist'[k] \in HistRow /\ hist'[k].from = now /\ hist'[k].rehandled = hist[k].rehandled
      /\ hist'[k].announced = hist[k].announced
  <2>1. hist'[k] = [hist[k] EXCEPT !.from = now, !.stored = 0]  BY DEF Resumes
  <2>2. hist[k] \in HistRow /\ 0 \in Nat  BY DEF Sound
  <2> QED  BY <2>1, <2>2 DEF HistRow
<1>6. TimerShape(k)'  BY <1>1, <1>2, <1>4, <1>5, SlaAssumption DEF TimerShape, Minutes
<1>7. Remembered(k)'  BY <1>1, <1>4, <1>5 DEF Remembered, Sound, HistRow, Unfinished
<1> QED  BY <1>4, <1>5, <1>6, <1>7 DEF Sound

LEMMA EvaluateKeeps ==
  ASSUME SubjectTyped, TimerTyped, target' = target, NEW k \in Kinds, Sound(k), NEW now \in Minutes,
         Evaluates(k, now)
  PROVE  Sound(k)'
<1> DEFINE minutes == ElapsedAt(k, now)
           warns == Warns(k, minutes)
           breaches == Breaches(k, now)
           warned == timer[k].warned \/ warns
           st == IF breaches THEN "breached" ELSE "active"
           since == IF breaches THEN None ELSE timer[k].since
           stored == hist[k].stored + (minutes - timer[k].elapsed)
           said == [approaching |-> IF warns THEN hist[k].announced.approaching + 1
                                             ELSE hist[k].announced.approaching,
                    breached |-> IF breaches THEN hist[k].announced.breached + 1
                                             ELSE hist[k].announced.breached]
<1>1. timer[k].st = "active" /\ timer[k] \in TimerRow /\ hist[k] \in HistRow /\ target[k] # None
  BY DEF Evaluates, Running, Sound, TimerShape
<1>2. timer'[k] = [timer[k] EXCEPT !.elapsed = minutes, !.warned = warned, !.st = st, !.since = since]
  BY <1>1 DEF Evaluates, TimerRow
<1>3. hist'[k] = [hist[k] EXCEPT !.stored = stored, !.announced = said]
  BY <1>1 DEF Evaluates, HistRow
<1>4. minutes \in 0..target[k] /\ target[k] \in Nat
  BY <1>1, ElapsedWithin, TargetNat DEF Sound, SubjectTyped
<1>5. stored \in Nat
  <2>1. hist[k].stored \in Nat /\ timer[k].elapsed \in Nat  BY <1>1 DEF HistRow, TimerRow
  <2>2. timer[k].elapsed <= minutes  BY <1>1, ElapsedWithin DEF Sound
  <2> HIDE DEF minutes
  <2> QED  BY <1>4, <2>1, <2>2
<1>6. /\ warned \in BOOLEAN
      /\ st \in {"active", "breached"} /\ since \in Minutes \cup {None}
  BY <1>1, <1>4 DEF TimerRow, HistRow, Warns
<1>7. warns \in BOOLEAN /\ breaches \in BOOLEAN /\ (warns => ~timer[k].warned) /\ (warned <=> timer[k].warned \/ warns)
  BY DEF Warns, Breaches
<1>8. said \in [approaching : Nat, breached : Nat]
  BY <1>1 DEF HistRow
<1>9. \/ st = "breached" /\ since = None
      \/ st = "active" /\ since = timer[k].since
  <2> HIDE DEF breaches
  <2>1. CASE breaches  BY <2>1
  <2>2. CASE ~breaches  BY <2>2
  <2> QED  BY <2>1, <2>2
<1>10. ~hist[k].rehandled =>
        /\ said.approaching <= 1 /\ said.breached <= 1
        /\ said.approaching = 1 => warned
        /\ said.breached = 1 => st = "breached"
  <2> HIDE DEF warns, breaches
  <2>1. SUFFICES ASSUME ~hist[k].rehandled
                 PROVE  /\ said.approaching <= 1 /\ said.breached <= 1
                        /\ said.approaching = 1 => warned
                        /\ said.breached = 1 => st = "breached"
    OBVIOUS
  <2>2. hist[k].announced.approaching \in Nat /\ hist[k].announced.breached \in Nat
    BY <1>1 DEF HistRow
  <2>3. hist[k].announced.breached = 0
    BY <1>1, <2>1, <2>2 DEF Sound, Remembered, Unfinished
  <2>4. hist[k].announced.approaching <= 1 /\ (hist[k].announced.approaching = 1 => timer[k].warned)
    BY <2>1 DEF Sound, Remembered
  <2>5. CASE warns
    <3>1. hist[k].announced.approaching = 0  BY <1>7, <2>2, <2>4, <2>5
    <3> QED  BY <2>3, <2>5, <3>1
  <2>6. CASE ~warns
    <3>1. said.approaching = hist[k].announced.approaching  BY <2>6
    <3>2. said.breached = IF breaches THEN 1 ELSE 0  BY <2>3
    <3> QED  BY <2>4, <3>1, <3>2
  <2> QED  BY <2>5, <2>6
<1> HIDE DEF minutes, warned, st, since, stored, said
<1>11. /\ timer'[k] \in TimerRow
       /\ timer'[k].st = st /\ timer'[k].elapsed = minutes /\ timer'[k].warned = warned
       /\ timer'[k].since = since /\ timer'[k].deadline = timer[k].deadline
  <2>1. minutes \in Nat /\ st \in TimerStates  BY <1>4, <1>6 DEF TimerStates
  <2>2. \A t \in TimerRow : [t EXCEPT !.elapsed = minutes, !.warned = warned, !.st = st, !.since = since]
                              \in TimerRow
    BY <1>6, <2>1 DEF TimerRow
  <2>3. timer'[k] \in TimerRow  BY <1>1, <1>2, <2>2
  <2> QED  BY <1>1, <1>2, <2>3 DEF TimerRow
<1>12. /\ hist'[k] \in HistRow
       /\ hist'[k].announced = said /\ hist'[k].rehandled = hist[k].rehandled
       /\ hist'[k].from = hist[k].from
  BY <1>1, <1>3, <1>5, <1>8 DEF HistRow
<1>13. TimerShape(k)'
  BY <1>1, <1>4, <1>6, <1>9, <1>11, <1>12 DEF Sound, TimerShape
<1>14. Remembered(k)'
  BY <1>6, <1>10, <1>11, <1>12 DEF Remembered, Unfinished
<1> QED  BY <1>11, <1>12, <1>13, <1>14 DEF Sound

LEMMA ChangesKeep ==
  ASSUME SubjectTyped, TimerTyped, again \in BOOLEAN, target' = target, NEW k \in Kinds, Sound(k),
         NEW now \in Minutes, Changes(k, now)
  PROVE  Sound(k)'
<1>1. CASE Keeps(k)  BY <1>1 DEF Keeps, Sound, TimerShape, Remembered, Unfinished
<1> QED  BY <1>1, StartKeeps, MeetKeeps, PauseKeeps, ResumeKeeps, EvaluateKeeps DEF Changes

-------------------------------------------------------------------------------
(* Every step is one of these changes of each timer                          *)

LEMMA EnsureChanges ==
  ASSUME TimerTyped, NEW now \in Minutes, EnsureConversation(now), NEW k \in Kinds
  PROVE  Keeps(k) \/ Starts(k, now)
<1> DEFINE new == {i \in {"first_response", "resolution"} : target[i] # None /\ timer[i].st = "none"}
<1>1. timer'[k] = IF k \in new THEN StartTimer(k, 0, now, live \in PauseStates) ELSE timer[k]
  BY DEF EnsureConversation
<1>2. hist'[k] = IF k \in new /\ live \notin PauseStates THEN [hist[k] EXCEPT !.from = 0] ELSE hist[k]
  BY DEF EnsureConversation
<1> QED  BY <1>1, <1>2 DEF Keeps, Starts

LEMMA StartOrResetChanges ==
  ASSUME TimerTyped, NEW now \in Minutes, StartOrResetNext(now), NEW k \in Kinds
  PROVE  Keeps(k) \/ Restarts(k, now)
<1>1. CASE target["next_response"] = None \/ k # "next_response"
  BY <1>1 DEF StartOrResetNext, timers, Keeps, TimerTyped, Kinds
<1>2. CASE target["next_response"] # None /\ k = "next_response"
  <2>1. timer'[k] = StartTimer(k, now, now, live \in PauseStates)
    BY <1>2 DEF StartOrResetNext, TimerTyped
  <2>2. hist'[k] = [NoHistory EXCEPT !.from = IF live \in PauseStates THEN None ELSE now,
                                     !.rehandled = again,
                                     !.announced = IF again THEN hist[k].announced ELSE @]
    BY <1>2 DEF StartOrResetNext, TimerTyped
  <2> QED  BY <1>2, <2>1, <2>2 DEF Restarts
<1> QED  BY <1>1, <1>2

LEMMA RespondedChanges ==
  ASSUME TimerTyped, AgentResponded, NEW k \in Kinds
  PROVE  Keeps(k) \/ Meets(k)
BY DEF AgentResponded, Keeps, Meets

LEMMA StateChanges ==
  ASSUME TimerTyped, NEW now \in Minutes, NEW to, SetSubjectState(to, now), NEW k \in Kinds
  PROVE  Keeps(k) \/ Meets(k) \/ Pauses(k, now) \/ Resumes(k, now)
<1> DEFINE over == to \in {"resolved", "closed"}
           pausing == {i \in Kinds : ~over /\ to \in PauseStates /\ timer[i].st = "active"}
           resuming == {i \in Kinds : ~over /\ to \notin PauseStates /\ timer[i].st = "paused"}
<1>1. timer'[k] = IF over /\ Unfinished(k) THEN Met(k)
                  ELSE IF k \in pausing THEN Paused(k, now)
                  ELSE IF k \in resuming THEN Resumed(k, now)
                  ELSE timer[k]
  BY DEF SetSubjectState
<1>2. hist'[k] = IF k \in pausing
                   THEN [hist[k] EXCEPT !.from = None, !.worked = @ + Open(Calendar, hist[k].from, now),
                                        !.recounted = @ + hist[k].stored]
                 ELSE IF k \in resuming THEN [hist[k] EXCEPT !.from = now, !.stored = 0]
                 ELSE hist[k]
  BY DEF SetSubjectState
<1>3. CASE over
  BY <1>1, <1>2, <1>3 DEF Keeps, Meets
<1>4. CASE ~over /\ k \in pausing
  BY <1>1, <1>2, <1>4 DEF Pauses
<1>5. CASE ~over /\ k \notin pausing /\ k \in resuming
  BY <1>1, <1>2, <1>5 DEF Resumes
<1>6. CASE ~over /\ k \notin pausing /\ k \notin resuming
  BY <1>1, <1>2, <1>6 DEF Keeps
<1> QED  BY <1>3, <1>4, <1>5, <1>6

LEMMA EvaluatedChanges ==
  ASSUME TimerTyped, NEW now \in Minutes, NEW i \in Kinds, Running(i), Evaluated(i, now), NEW k \in Kinds
  PROVE  Keeps(k) \/ Evaluates(k, now)
<1> DEFINE minutes == ElapsedAt(i, now)
           warns == Warns(i, minutes)
           breaches == Breaches(i, now)
<1> HIDE DEF minutes, warns, breaches
<1>1. timer' = [timer EXCEPT
        ![i].elapsed = minutes, ![i].warned = @ \/ warns,
        ![i].st = IF breaches THEN "breached" ELSE @, ![i].since = IF breaches THEN None ELSE @]
  BY DEF Evaluated, minutes, warns, breaches
<1>2. hist' = [hist EXCEPT
        ![i].stored = @ + (minutes - timer[i].elapsed),
        ![i].announced.approaching = IF warns THEN @ + 1 ELSE @,
        ![i].announced.breached = IF breaches THEN @ + 1 ELSE @]
  BY DEF Evaluated, minutes, warns, breaches
<1>3. CASE k # i
  BY <1>1, <1>2, <1>3 DEF Keeps, TimerTyped
<1>4. CASE k = i
  <2>1. timer[i] \in TimerRow /\ hist[i] \in HistRow  BY DEF TimerTyped
  <2>2. timer'[i] = [timer[i] EXCEPT
          !.elapsed = minutes, !.warned = @ \/ warns,
          !.st = IF breaches THEN "breached" ELSE @, !.since = IF breaches THEN None ELSE @]
    BY <1>1, <2>1 DEF TimerTyped, TimerRow
  <2>3. hist'[i] = [hist[i] EXCEPT
          !.stored = @ + (minutes - timer[i].elapsed),
          !.announced = [approaching |-> IF warns THEN @.approaching + 1 ELSE @.approaching,
                         breached |-> IF breaches THEN @.breached + 1 ELSE @.breached]]
    <3> DEFINE stored == hist[i].stored + (minutes - timer[i].elapsed)
               approaching == IF warns THEN hist[i].announced.approaching + 1
                                       ELSE hist[i].announced.approaching
               breached == IF breaches THEN hist[i].announced.breached + 1
                                       ELSE hist[i].announced.breached
    <3>1. hist' = [hist EXCEPT ![i].stored = stored, ![i].announced.approaching = approaching,
                               ![i].announced.breached = breached]
      BY <1>2
    <3> HIDE DEF stored, approaching, breached
    <3>2. hist'[i] = [hist[i] EXCEPT !.stored = stored, !.announced.approaching = approaching,
                                     !.announced.breached = breached]
      BY <2>1, <3>1 DEF TimerTyped
    <3>3. [hist[i].announced EXCEPT !.approaching = approaching, !.breached = breached]
            = [approaching |-> approaching, breached |-> breached]
      <4>1. hist[i].announced \in [approaching : Nat, breached : Nat]  BY <2>1 DEF HistRow
      <4> DEFINE a == [hist[i].announced EXCEPT !.approaching = approaching]
      <4>2. a.breached = hist[i].announced.breached /\ a.approaching = approaching
            /\ DOMAIN a = {"approaching", "breached"}
        BY <4>1
      <4>3. a = [approaching |-> approaching, breached |-> hist[i].announced.breached]
        BY <4>1, <4>2
      <4> HIDE DEF a
      <4>4. [a EXCEPT !.breached = breached] = [approaching |-> approaching, breached |-> breached]
        BY <4>3
      <4> QED  BY <4>4 DEF a
    <3>4. hist'[i] = [hist[i] EXCEPT !.stored = stored,
            !.announced = [hist[i].announced EXCEPT !.approaching = approaching, !.breached = breached]]
      BY <2>1, <3>2 DEF HistRow
    <3> QED  BY <3>3, <3>4 DEF stored, approaching, breached
  <2> QED  BY <1>4, <2>2, <2>3 DEF Evaluates, minutes, warns, breaches
<1> QED  BY <1>3, <1>4

\* A step writes the rows of all kinds, or of none.
Rows == timer' = [k \in Kinds |-> timer'[k]] /\ hist' = [k \in Kinds |-> hist'[k]]

LEMMA HeadTyped ==
  ASSUME QueueTyped, queue # <<>>
  PROVE  /\ Head(queue) \in Events /\ Head(queue).at \in Minutes
         /\ Head(queue) = queue[1] /\ Len(queue) \in Nat \ {0}
<1>1. queue \in Seq(Events) /\ queue # <<>>  BY DEF QueueTyped
<1>2. Head(queue) \in Events /\ Head(queue) = queue[1] /\ Len(queue) \in Nat \ {0}  BY <1>1
<1> QED  BY <1>2 DEF Events

LEMMA EffectChanges ==
  ASSUME QueueTyped, TimerTyped, queue # <<>>, Effect(Head(queue))
  PROVE  Rows /\ \A k \in Kinds : Changes(k, Head(queue).at)
<1> DEFINE e == Head(queue)
<1>0. e.at \in Minutes  BY HeadTyped
<1>1. CASE EnsureConversation(e.at)
  <2>1. Rows  BY <1>1 DEF EnsureConversation, Rows
  <2> QED  BY <1>0, <1>1, <2>1, EnsureChanges DEF Changes
<1>2. CASE StartOrResetNext(e.at)
  <2>1. Rows  BY <1>2 DEF StartOrResetNext, timers, Rows, TimerTyped
  <2> QED  BY <1>0, <1>2, <2>1, StartOrResetChanges DEF Changes
<1>3. CASE AgentResponded
  <2>1. Rows  BY <1>3 DEF AgentResponded, Rows, TimerTyped
  <2> QED  BY <1>0, <1>3, <2>1, RespondedChanges DEF Changes
<1>4. CASE SetSubjectState(e.arg, e.at)
  <2>1. Rows  BY <1>4 DEF SetSubjectState, Rows
  <2> HIDE DEF e
  <2>2. \A k \in Kinds : Keeps(k) \/ Meets(k) \/ Pauses(k, e.at) \/ Resumes(k, e.at)
    BY <1>0, <1>4, StateChanges
  <2> QED  BY <2>1, <2>2 DEF Changes, e
<1> QED  BY <1>1, <1>2, <1>3, <1>4 DEF Effect

\* What each actor leaves alone.
LEMMA StepChanges ==
  ASSUME SlaTyped, Step
  PROVE  /\ target' = target /\ Rows
         /\ \E now \in Minutes : \A k \in Kinds : Changes(k, now)
<1>0. SubjectTyped /\ QueueTyped /\ TimerTyped /\ BatchTyped /\ 0 \in Minutes
  BY NumbersAreSome DEF SlaTyped
<1>1. ASSUME UNCHANGED <<target, timers>>
      PROVE  /\ target' = target /\ Rows
             /\ \E now \in Minutes : \A k \in Kinds : Changes(k, now)
  <2>1. \A k \in Kinds : Changes(k, 0)  BY <1>1 DEF Changes, Keeps, timers
  <2>2. Rows  BY <1>0, <1>1 DEF Rows, timers, TimerTyped
  <2> QED  BY <1>0, <1>1, <2>1, <2>2
<1>2. CASE Post \/ SetState \/ WakeUntold \/ Advance \/ HandleLost \/ Manage
  BY <1>1, <1>2 DEF Post, SetState, WakeUntold, Advance, HandleLost, Manage, subject, timers
<1>3. CASE HandleMessage
  <2>1. target' = target /\ EnsureConversation(Head(queue).at) /\ Head(queue).at \in Minutes
    BY <1>0, <1>3, HeadTyped DEF HandleMessage, subject
  <2>2. Rows  BY <2>1 DEF EnsureConversation, Rows
  <2> QED  BY <1>0, <2>1, <2>2, EnsureChanges DEF Changes
<1>4. CASE Handle
  <2>1. target' = target /\ queue # <<>> /\ Effect(Head(queue)) /\ Head(queue).at \in Minutes
    BY <1>0, <1>4, HeadTyped DEF Handle, subject
  <2> QED  BY <1>0, <2>1, EffectChanges
<1>5. ASSUME NEW j \in Ticks, Start(j) \/ Finish(j) \/ Break(j)
      PROVE  UNCHANGED <<target, timers>>
  BY <1>5 DEF Start, Finish, Break, subject, timers
<1>6. ASSUME NEW j \in Ticks, NEW i \in Kinds, EvaluateOne(j, i), Running(i)
      PROVE  /\ target' = target /\ Rows
             /\ \E now \in Minutes : \A k \in Kinds : Changes(k, now)
  <2>1. target' = target /\ Evaluated(i, batch[j].now) /\ batch[j].now \in Minutes
    BY <1>0, <1>6 DEF EvaluateOne, subject, BatchTyped
  <2>2. Rows  BY <1>0, <2>1 DEF Evaluated, Rows, TimerTyped
  <2>3. \A k \in Kinds : Changes(k, batch[j].now)
    BY <1>0, <1>6, <2>1, EvaluatedChanges DEF Changes
  <2> QED  BY <2>1, <2>2, <2>3
<1>7. ASSUME NEW j \in Ticks, NEW i \in Kinds, EvaluateOne(j, i), ~Running(i)
      PROVE  UNCHANGED <<target, timers>>
  BY <1>7 DEF EvaluateOne, subject, timers
<1> QED  BY <1>1, <1>2, <1>3, <1>4, <1>5, <1>6, <1>7 DEF Step

\* Timers stay sound.
LEMMA TimersStep ==
  ASSUME SlaTyped, \A k \in Kinds : TimerShape(k) /\ Remembered(k), Step
  PROVE  TimerTyped' /\ \A k \in Kinds : TimerShape(k)' /\ Remembered(k)'
<1>0. SubjectTyped /\ TimerTyped /\ again \in BOOLEAN  BY DEF SlaTyped, QueueTyped
<1>1. \A k \in Kinds : Sound(k)  BY <1>0 DEF Sound, TimerTyped
<1>2. PICK now \in Minutes : \A k \in Kinds : Changes(k, now)  BY StepChanges
<1>3. target' = target /\ Rows  BY StepChanges
<1>4. \A k \in Kinds : Sound(k)'  BY <1>0, <1>1, <1>2, <1>3, ChangesKeep
<1>5. TimerTyped'
  <2>1. \A k \in Kinds : timer'[k] \in TimerRow /\ hist'[k] \in HistRow  BY <1>4 DEF Sound
  <2> QED  BY <1>3, <2>1 DEF TimerTyped, Rows
<1> QED  BY <1>4, <1>5 DEF Sound

-------------------------------------------------------------------------------
(* Subject, queue and batches                                                *)

LEMMA SubjectStep ==
  ASSUME SlaTyped, Step
  PROVE  SubjectTyped'
<1>0. SubjectTyped /\ MaxTime \in Nat  BY SlaAssumption DEF SlaTyped
<1>1. CASE Post  BY <1>0, <1>1 DEF Post, Tell, SubjectTyped
<1>2. CASE SetState  BY <1>0, <1>2 DEF SetState, Tell, SubjectTyped
<1>3. CASE WakeUntold  BY <1>0, <1>3, SlaAssumption DEF WakeUntold, SubjectTyped
<1>4. CASE Advance  BY <1>0, <1>4 DEF Advance, SubjectTyped, Minutes
<1>5. ASSUME UNCHANGED subject PROVE SubjectTyped'  BY <1>0, <1>5 DEF subject, SubjectTyped
<1> QED  BY <1>1, <1>2, <1>3, <1>4, <1>5
         DEF Step, HandleMessage, Handle, HandleLost, Start, Finish, Break, EvaluateOne, Manage

LEMMA QueueStep ==
  ASSUME SlaTyped, Step
  PROVE  QueueTyped'
<1>0. SubjectTyped /\ QueueTyped /\ queue \in Seq(Events)  BY DEF SlaTyped, QueueTyped
<1>1. ASSUME NEW type \in {"message", "state"}, NEW arg \in States \cup {"customer", "agent"},
             Tell(Event(type, arg)), UNCHANGED <<ensured, again>>
      PROVE  QueueTyped'
  <2>1. Event(type, arg) \in Events  BY <1>0 DEF Event, Events, SubjectTyped
  <2>2. queue' = Append(queue, Event(type, arg))  BY <1>1 DEF Tell
  <2> HIDE DEF Events
  <2>3. queue' \in Seq(Events)  BY <1>0, <2>1, <2>2
  <2> QED  BY <1>0, <1>1, <2>3 DEF QueueTyped
<1>2. CASE Post
  <2>1. PICK author \in {"customer", "agent"} : Tell(Event("message", author))  BY <1>2 DEF Post
  <2> QED  BY <1>1, <1>2, <2>1 DEF Post
<1>3. CASE SetState
  <2>1. PICK to \in States : Tell(Event("state", to))  BY <1>3 DEF SetState
  <2> QED  BY <1>1, <1>3, <2>1 DEF SetState
<1>4. CASE Handle
  <2>1. Tail(queue) \in Seq(Events)  BY <1>0, <1>4 DEF Handle
  <2> QED  BY <1>0, <1>4, <2>1 DEF Handle, QueueTyped
<1>5. CASE HandleMessage \/ HandleLost
  BY <1>0, <1>5 DEF HandleMessage, HandleLost, QueueTyped
<1>6. ASSUME UNCHANGED consumer PROVE QueueTyped'  BY <1>0, <1>6 DEF consumer, QueueTyped
<1> QED  BY <1>2, <1>3, <1>4, <1>5, <1>6
         DEF Step, WakeUntold, Advance, Start, Finish, Break, EvaluateOne, Manage

\* Steps of the schedule that leave batches alone leave running ticks alone too.
LEMMA BatchStep ==
  ASSUME SlaTyped, TickTyped, BatchShape, Step
  PROVE  BatchTyped' /\ BatchShape'
<1>0. SubjectTyped /\ BatchTyped /\ TickTyped /\ NoBatch \in [now : Minutes, left : SUBSET Kinds]
  BY NumbersAreSome DEF SlaTyped, NoBatch
<1>1. ASSUME UNCHANGED batch,
             \A i \in Ticks : tick[i].st = "running" => tick'[i].st = "running" \/ batch[i] = NoBatch
      PROVE  BatchTyped' /\ BatchShape'
  BY <1>0, <1>1 DEF BatchTyped, BatchShape
<1>2. CASE Post \/ SetState \/ WakeUntold \/ Advance \/ HandleMessage \/ Handle \/ HandleLost
  BY <1>1, <1>2 DEF Post, SetState, WakeUntold, Advance, HandleMessage, Handle, HandleLost,
     scheduleVars
<1>3. ASSUME NEW j \in Ticks, Start(j) PROVE BatchTyped' /\ BatchShape'
  <2>1. \A i \in Ticks \ {j} : tick'[i] = tick[i] /\ batch'[i] = batch[i]
    BY <1>0, <1>3 DEF Start, StartTick, TickTyped, BatchTyped
  <2>2. PICK b \in Batches :
          batch' = [batch EXCEPT ![j] = IF b = {} THEN NoBatch ELSE [now |-> clock, left |-> b]]
    BY <1>3 DEF Start
  <2>3. tick'[j].st = "running"  BY <1>0, <1>3 DEF Start, StartTick, TickTyped, TickRow
  <2>4. b \subseteq Kinds  BY DEF Batches, Selected
  <2>5. BatchTyped'
    <3>1. [now |-> clock, left |-> b] \in [now : Minutes, left : SUBSET Kinds]
      BY <1>0, <2>4 DEF SubjectTyped
    <3> QED  BY <1>0, <2>2, <3>1 DEF BatchTyped
  <2>6. BatchShape'  BY <2>1, <2>2, <2>3 DEF BatchShape
  <2> QED  BY <2>5, <2>6
<1>4. ASSUME NEW j \in Ticks, Finish(j) PROVE BatchTyped' /\ BatchShape'
  <2>1. batch[j] = NoBatch  BY <1>4 DEF Finish, BatchShape
  <2>2. \A i \in Ticks \ {j} : tick'[i].st = tick[i].st
    <3>1. CASE KeyTaken(j)
      BY <1>0, <1>4, <3>1 DEF Finish, FinishTick, Forget, TickTyped, TickRow
    <3>2. CASE ~KeyTaken(j)
      BY <1>0, <1>4, <3>2 DEF Finish, FinishTick, TickTyped
    <3> QED  BY <3>1, <3>2
  <2> QED  BY <1>1, <1>4, <2>1, <2>2 DEF Finish
<1>5. ASSUME NEW j \in Ticks, Break(j) PROVE BatchTyped' /\ BatchShape'
  <2>1. batch' = [batch EXCEPT ![j] = NoBatch]  BY <1>5 DEF Break
  <2>2. BatchTyped'  BY <1>0, <2>1 DEF BatchTyped
  <2>3. \A i \in Ticks \ {j} : tick[i].st = "running" => tick'[i].st = "running"
    <3>1. CASE TickFails(j)  BY <1>0, <3>1 DEF TickFails, TickTyped
    <3>2. CASE TickLost(j)
      <4>1. ASSUME tick' = [tick EXCEPT ![j].st = "pending"]
            PROVE  \A i \in Ticks \ {j} : tick'[i] = tick[i]
        BY <1>0, <4>1 DEF TickTyped
      <4>2. ASSUME NEW n \in Ticks, NewTick(n),
                   tick' = [tick EXCEPT ![j].st = "pending", ![j].spawned = TRUE, ![n] = Row(j)]
            PROVE  \A i \in Ticks \ {j} : tick[i].st = "running" => tick'[i] = tick[i]
        BY <1>0, <4>2 DEF TickTyped, NewTick
      <4> QED  BY <3>2, <4>1, <4>2 DEF TickLost
    <3> QED  BY <1>5, <3>1, <3>2 DEF Break
  <2>4. \A i \in Ticks : batch'[i] = IF i = j THEN NoBatch ELSE batch[i]
    BY <1>0, <2>1 DEF BatchTyped
  <2>5. BatchShape'  BY <2>3, <2>4 DEF BatchShape
  <2> QED  BY <2>2, <2>5
<1>6. ASSUME NEW j \in Ticks, NEW k \in Kinds, EvaluateOne(j, k) PROVE BatchTyped' /\ BatchShape'
  <2>1. tick' = tick /\ batch' = [batch EXCEPT ![j] = Remaining(batch[j], k)]
    BY <1>6 DEF EvaluateOne, scheduleVars
  <2>2. /\ Remaining(batch[j], k) \in [now : Minutes, left : SUBSET Kinds]
        /\ Remaining(batch[j], k).left = {} => Remaining(batch[j], k) = NoBatch
    <3>1. batch[j] \in [now : Minutes, left : SUBSET Kinds] /\ k \in batch[j].left
      BY <1>0, <1>6 DEF BatchTyped, EvaluateOne
    <3>2. CASE batch[j].left = {k}  BY <1>0, <3>2 DEF Remaining
    <3>3. CASE batch[j].left # {k}
      <4>1. Remaining(batch[j], k) = [batch[j] EXCEPT !.left = @ \ {k}]  BY <3>3 DEF Remaining
      <4>2. batch[j].left \ {k} # {}  BY <3>1, <3>3
      <4> QED  BY <3>1, <4>1, <4>2
    <3> QED  BY <3>2, <3>3
  <2>3. BatchTyped'  BY <1>0, <2>1, <2>2 DEF BatchTyped
  <2>4. tick[j].st = "running"  BY <1>6 DEF EvaluateOne
  <2>5. \A i \in Ticks : batch'[i] = IF i = j THEN Remaining(batch[j], k) ELSE batch[i]
    BY <1>0, <2>1 DEF BatchTyped
  <2>6. BatchShape'  BY <2>1, <2>2, <2>4, <2>5 DEF BatchShape
  <2> QED  BY <2>3, <2>6
<1>7. CASE Manage
  <2>1. \A i \in Ticks : tick[i].st = "running" => tick'[i] = tick[i]
    BY <1>0, <1>7 DEF Manage, Prime, CancelTick, RetryTick, NewTick, TickTyped
  <2> QED  BY <1>1, <1>7, <2>1 DEF Manage
<1> QED  BY <1>2, <1>3, <1>4, <1>5, <1>6, <1>7 DEF Step

-------------------------------------------------------------------------------
(* Timers follow the state                                                   *)

\* A timer starts as the conversation's row says, and is met or breached at any time.
LEMMA OthersFollow ==
  ASSUME TimerTyped, NEW k \in Kinds, live' = live, Follows(k), NEW now,
         Keeps(k) \/ Starts(k, now) \/ Restarts(k, now) \/ Meets(k) \/ Evaluates(k, now)
  PROVE  Follows(k)'
<1>0. timer[k] \in TimerRow  BY DEF TimerTyped
<1>1. CASE Keeps(k)  BY <1>1 DEF Keeps, Follows, Unfinished
<1>2. CASE Starts(k, now) \/ Restarts(k, now)
  <2>1. PICK from : timer'[k] = StartTimer(k, from, now, live \in PauseStates)
    BY <1>2 DEF Starts, Restarts
  <2>2. CASE live \in PauseStates
    <3>1. timer'[k].st = "paused"  BY <2>1, <2>2 DEF StartTimer, NoTimer
    <3> QED  BY <2>2, <3>1 DEF Follows
  <2>3. CASE live \notin PauseStates
    <3>1. timer'[k].st = "active"  BY <2>1, <2>3 DEF StartTimer, NoTimer
    <3> QED  BY <2>3, <3>1 DEF Follows
  <2> QED  BY <2>2, <2>3
<1>3. CASE Meets(k)
  <2>1. timer'[k].st = "met"  BY <1>0, <1>3 DEF Meets, Met, TimerRow
  <2> QED  BY <2>1 DEF Follows, Unfinished
<1>4. CASE Evaluates(k, now)
  <2>1. timer'[k].st \in {"breached", "active"} /\ timer[k].st = "active"
    BY <1>0, <1>4 DEF Evaluates, Running, TimerRow
  <2> QED  BY <2>1 DEF Follows, Unfinished
<1> QED  BY <1>1, <1>2, <1>3, <1>4

\* A state event makes every timer that is not over follow it.
LEMMA StateFollows ==
  ASSUME TimerTyped, NEW k \in Kinds, NEW now, live' = live, SetSubjectState(live, now)
  PROVE  Follows(k)'
<1> DEFINE over == live \in {"resolved", "closed"}
           pausing == {i \in Kinds : ~over /\ live \in PauseStates /\ timer[i].st = "active"}
           resuming == {i \in Kinds : ~over /\ live \notin PauseStates /\ timer[i].st = "paused"}
<1>0. timer[k] \in TimerRow  BY DEF TimerTyped
<1>1. timer'[k] = IF over /\ Unfinished(k) THEN Met(k)
                  ELSE IF k \in pausing THEN Paused(k, now)
                  ELSE IF k \in resuming THEN Resumed(k, now)
                  ELSE timer[k]
  BY DEF SetSubjectState
<1>2. CASE over /\ Unfinished(k)
  <2>1. timer'[k].st = "met"  BY <1>0, <1>1, <1>2 DEF Met, TimerRow
  <2> QED  BY <2>1 DEF Follows, Unfinished
<1>3. CASE ~over /\ k \in pausing
  <2>1. timer'[k].st = "paused"  BY <1>0, <1>1, <1>3 DEF Paused, TimerRow
  <2> QED  BY <1>3, <2>1 DEF Follows
<1>4. CASE ~over /\ k \notin pausing /\ k \in resuming
  <2>1. timer'[k].st = "active"  BY <1>0, <1>1, <1>4 DEF Resumed, TimerRow
  <2> QED  BY <1>4, <2>1 DEF Follows
<1>5. CASE ~(over /\ Unfinished(k)) /\ k \notin pausing /\ k \notin resuming
  <2>1. timer'[k] = timer[k]  BY <1>1, <1>5
  <2> QED  BY <1>5, <2>1 DEF Follows, Unfinished
<1>6. over => k \notin pausing /\ k \notin resuming  OBVIOUS
<1> QED  BY <1>2, <1>3, <1>4, <1>5, <1>6

LEMMA StateStep ==
  ASSUME SlaTyped, StateInv, Step
  PROVE  StateInv'
<1>0. /\ QueueTyped /\ TimerTyped /\ BatchTyped /\ queue \in Seq(Events)
      /\ LastTold /\ ToldOrWoken /\ AllFollow
  BY DEF SlaTyped, QueueTyped, StateInv
<1>1. SUFFICES LastTold' /\ ToldOrWoken' /\ AllFollow'
  BY DEF StateInv
\* whatever is appended goes behind the events that wait
<1>2. ASSUME NEW type \in {"message", "state"}, NEW arg, Tell(Event(type, arg))
      PROVE  /\ Len(queue') = Len(queue) + 1
             /\ \A i \in 1..Len(queue) : queue'[i] = queue[i]
             /\ queue'[Len(queue')].type = type /\ queue'[Len(queue')].arg = arg
             /\ Len(queue) \in Nat
  BY <1>0, <1>2 DEF Tell, Event
<1>3. ASSUME UNCHANGED <<queue, told, live>>,
             \E now : \A k \in Kinds : Keeps(k) \/ Starts(k, now) \/ Evaluates(k, now)
      PROVE  LastTold' /\ ToldOrWoken' /\ AllFollow'
  <2>1. ASSUME NoStateEvent', told = live, NEW k \in Kinds PROVE Follows(k)'
    BY <1>0, <1>3, <2>1, OthersFollow DEF AllFollow, NoStateEvent
  <2> QED  BY <1>0, <1>3, <2>1 DEF LastTold, ToldOrWoken, AllFollow
<1>4. CASE Post
  <2>1. PICK author \in {"customer", "agent"} : Tell(Event("message", author))  BY <1>4 DEF Post
  <2>2. UNCHANGED <<told, live, timer, hist>>  BY <1>4 DEF Post, timers
  <2>3. LastTold'  BY <1>0, <1>2, <2>1, <2>2 DEF LastTold
  <2>4. NoStateEvent' => NoStateEvent  BY <1>2, <2>1 DEF NoStateEvent
  <2> QED  BY <1>0, <2>2, <2>3, <2>4 DEF ToldOrWoken, AllFollow, Follows, Unfinished
<1>5. CASE SetState
  <2>1. PICK to \in States : Tell(Event("state", to)) /\ live' = to /\ told' = to  BY <1>5 DEF SetState
  <2>2. LastTold'
    <3>1. ASSUME NEW i \in 1..Len(queue'), queue'[i].type = "state",
                 \A j \in 1..Len(queue') : i < j => queue'[j].type # "state"
          PROVE  queue'[i].arg = told'
      <4>1. i = Len(queue')  BY <1>2, <2>1, <3>1
      <4> QED  BY <1>2, <2>1, <4>1
    <3> QED  BY <3>1 DEF LastTold
  <2>3. ~NoStateEvent'  BY <1>2, <2>1 DEF NoStateEvent
  <2> QED  BY <2>1, <2>2, <2>3 DEF ToldOrWoken, AllFollow
<1>6. CASE WakeUntold
  BY <1>0, <1>6 DEF WakeUntold, consumer, LastTold, ToldOrWoken, AllFollow
<1>7. CASE Advance \/ HandleLost \/ Manage
  BY <1>3, <1>7 DEF Advance, HandleLost, Manage, subject, consumer, timers, Keeps
<1>8. ASSUME NEW j \in Ticks, Start(j) \/ Finish(j) \/ Break(j)
      PROVE  LastTold' /\ ToldOrWoken' /\ AllFollow'
  BY <1>3, <1>8 DEF Start, Finish, Break, subject, consumer, timers, Keeps
<1>9. ASSUME NEW j \in Ticks, NEW i \in Kinds, EvaluateOne(j, i)
      PROVE  LastTold' /\ ToldOrWoken' /\ AllFollow'
  <2>1. UNCHANGED <<queue, told, live>>  BY <1>9 DEF EvaluateOne, subject, consumer
  <2>2. CASE Running(i)
    <3>1. Evaluated(i, batch[j].now) /\ batch[j].now \in Minutes
      BY <1>0, <1>9, <2>2 DEF EvaluateOne, BatchTyped
    <3> QED  BY <1>0, <1>3, <2>1, <2>2, <3>1, EvaluatedChanges
  <2>3. CASE ~Running(i)  BY <1>3, <1>9, <2>1, <2>3 DEF EvaluateOne, timers, Keeps
  <2> QED  BY <2>2, <2>3
<1>10. CASE HandleMessage
  <2>1. /\ UNCHANGED <<queue, told, live>> /\ EnsureConversation(Head(queue).at)
        /\ Head(queue).at \in Minutes
    BY <1>0, <1>10, HeadTyped DEF HandleMessage, subject
  <2> QED  BY <1>0, <1>3, <2>1, EnsureChanges
<1>11. CASE Handle
  <2>1. /\ UNCHANGED <<told, live>> /\ queue # <<>> /\ Effect(Head(queue))
        /\ queue' \in {queue, Tail(queue)}
    BY <1>11 DEF Handle, subject
  <2>2. /\ Head(queue).at \in Minutes /\ Head(queue) = queue[1] /\ Len(queue) \in Nat \ {0}
    BY <1>0, <2>1, HeadTyped
  <2>3. /\ Len(Tail(queue)) = Len(queue) - 1
        /\ \A i \in 1..(Len(queue) - 1) : Tail(queue)[i] = queue[i + 1]
    BY <1>0, <2>1
  <2>4. LastTold'
    <3>1. CASE queue' = queue  BY <1>0, <2>1, <3>1 DEF LastTold
    <3>2. CASE queue' = Tail(queue)
      <4>1. ASSUME NEW i \in 1..Len(queue'), queue'[i].type = "state",
                   \A j \in 1..Len(queue') : i < j => queue'[j].type # "state"
            PROVE  queue'[i].arg = told'
        <5>1. i + 1 \in 1..Len(queue) /\ queue'[i] = queue[i + 1]  BY <2>2, <2>3, <3>2
        <5>2. ASSUME NEW j \in 1..Len(queue), i + 1 < j PROVE queue[j].type # "state"
          <6>1. j - 1 \in 1..Len(queue') /\ i < j - 1 /\ queue'[j - 1] = queue[j]
            BY <2>2, <2>3, <3>2, <5>2
          <6> QED  BY <4>1, <6>1
        <5> QED  BY <1>0, <2>1, <4>1, <5>1, <5>2 DEF LastTold
      <4> QED  BY <4>1 DEF LastTold
    <3> QED  BY <2>1, <3>1, <3>2
  <2>5. ASSUME NoStateEvent', told' = live', NEW k \in Kinds PROVE Follows(k)'
    <3>1. \A i \in 2..Len(queue) : queue[i].type # "state"
      <4>1. CASE queue' = queue  BY <2>2, <2>5, <4>1 DEF NoStateEvent
      <4>2. CASE queue' = Tail(queue)
        <5>1. ASSUME NEW i \in 2..Len(queue) PROVE queue[i].type # "state"
          <6>1. i - 1 \in 1..Len(queue') /\ queue'[i - 1] = queue[i]
            BY <2>2, <2>3, <4>2
          <6> QED  BY <2>5, <6>1 DEF NoStateEvent
        <5> QED  BY <5>1
      <4> QED  BY <2>1, <4>1, <4>2
    <3>2. CASE queue[1].type = "state"
      <4>1. queue[1].arg = told
        <5>1. 1 \in 1..Len(queue) /\ \A j \in 1..Len(queue) : 1 < j => queue[j].type # "state"
          BY <2>2, <3>1
        <5> QED  BY <1>0, <3>2, <5>1 DEF LastTold
      <4>2. SetSubjectState(Head(queue).arg, Head(queue).at)  BY <2>1, <2>2, <3>2 DEF Effect
      <4>3. SetSubjectState(live, Head(queue).at)  BY <2>1, <2>2, <2>5, <4>1, <4>2
      <4> QED  BY <1>0, <2>1, <4>3, StateFollows
    <3>3. CASE queue[1].type # "state"
      <4>1. NoStateEvent  BY <2>2, <3>1, <3>3 DEF NoStateEvent
      <4>2. Follows(k)  BY <1>0, <2>1, <2>5, <4>1 DEF AllFollow
      <4>3. EnsureConversation(Head(queue).at) \/ StartOrResetNext(Head(queue).at) \/ AgentResponded
        BY <2>1, <2>2, <3>3 DEF Effect
      <4>4. Keeps(k) \/ Starts(k, Head(queue).at) \/ Restarts(k, Head(queue).at) \/ Meets(k)
        BY <1>0, <2>2, <4>3, EnsureChanges, StartOrResetChanges, RespondedChanges
      <4> QED  BY <1>0, <2>1, <4>2, <4>4, OthersFollow
    <3> QED  BY <3>2, <3>3
  <2> QED  BY <1>0, <2>1, <2>4, <2>5 DEF ToldOrWoken, AllFollow
<1> QED  BY <1>4, <1>5, <1>6, <1>7, <1>8, <1>9, <1>10, <1>11 DEF Step

-------------------------------------------------------------------------------
(* A breach is earned                                                        *)

\* A timer's row has no more than has been worked, and what was counted again; its
\* deadline leaves out no more than there was of both when it was started or resumed.
Paid(k) ==
  /\ timer[k].st = "paused" => timer[k].elapsed <= hist[k].worked + hist[k].recounted
  /\ timer[k].st = "active" =>
       /\ hist[k].from <= timer[k].since
       /\ timer[k].elapsed <= hist[k].worked + hist[k].recounted + hist[k].stored
       /\ \E e \in 0..target[k] : /\ e <= hist[k].worked + hist[k].recounted
                                  /\ timer[k].deadline = Add(Calendar, hist[k].from, target[k] - e)

\* A batch was read in the past.
BatchRead == \A j \in Ticks : batch[j].now <= clock

PaidInv == BatchRead /\ \A k \in Kinds : Paid(k)

LEMMA TimerIs ==
  ASSUME SubjectTyped, NEW k \in Kinds, Sound(k), timer[k].st # "none"
  PROVE  /\ target[k] \in Nat /\ timer[k].elapsed \in 0..target[k] /\ hist[k].worked \in Nat
         /\ hist[k].stored \in Nat /\ hist[k].recounted \in Nat
         /\ timer[k].st = "active" => /\ timer[k].since \in Nat /\ hist[k].from \in Nat
                                      /\ timer[k].since # None
<1>1. timer[k] \in TimerRow /\ hist[k] \in HistRow /\ TimerShape(k)  BY DEF Sound
<1>2. target[k] \in Nat  BY <1>1, TargetNat DEF TimerShape, SubjectTyped
<1>3. timer[k].since \in Minutes \cup {None} /\ hist[k].from \in Minutes \cup {None}
  BY <1>1 DEF TimerRow, HistRow
<1>4. /\ timer[k].elapsed \in Nat /\ hist[k].worked \in Nat /\ target[k] \in Nat
      /\ hist[k].stored \in Nat /\ hist[k].recounted \in Nat /\ timer[k].elapsed <= target[k]
  BY <1>1, <1>2 DEF TimerRow, HistRow, TimerShape
<1>5. timer[k].st = "active" => timer[k].since # None /\ hist[k].from # None  BY <1>1 DEF TimerShape
<1>6. timer[k].elapsed \in 0..target[k]  BY <1>4
<1> QED  BY <1>3, <1>4, <1>5, <1>6, NumbersAreSome

LEMMA ElapsedTyped ==
  ASSUME SubjectTyped, NEW k \in Kinds, Sound(k), timer[k].st = "active", NEW now \in Minutes
  PROVE  ElapsedAt(k, now) \in Nat
<1>1. timer[k].since \in Minutes /\ timer[k].elapsed \in Nat /\ target[k] \in Nat
  BY TimerIs DEF Sound, TimerRow, TimerShape
<1>2. Elapsed(Calendar, timer[k].since, now) \in Nat  BY <1>1, CalendarsAssumption, ElapsedNat, NumbersAreSome
<1> QED  BY <1>1, <1>2 DEF ElapsedAt, Capped

\* What elapsedAt adds to the stored minutes has been worked since the start.
LEMMA ElapsedIsWorked ==
  ASSUME Disjoint(Calendar), SubjectTyped, NEW k \in Kinds, Sound(k), timer[k].st = "active",
         hist[k].from <= timer[k].since, NEW now \in Minutes
  PROVE  /\ Open(Calendar, hist[k].from, now) \in Nat
         /\ ElapsedAt(k, now) <= timer[k].elapsed + Open(Calendar, hist[k].from, now)
<1> DEFINE since == timer[k].since  from == hist[k].from
<1>1. /\ since \in Nat /\ from \in Nat /\ since # None /\ from <= since /\ now \in Nat
      /\ timer[k].elapsed \in Nat /\ target[k] \in Nat
  BY TimerIs, NumbersAreSome
<1>2. WellFormed(Calendar)  BY CalendarsAssumption
<1> HIDE DEF since, from
<1>3. Open(Calendar, from, now) \in Nat /\ Elapsed(Calendar, since, now) \in Nat
  <2>1. Open(Calendar, from, now) \in Nat  BY <1>1, OpenIs
  <2>2. Elapsed(Calendar, since, now) \in Nat  BY <1>1, <1>2, ElapsedAtMost
  <2> QED  BY <2>1, <2>2
<1>4. Elapsed(Calendar, since, now) <= Open(Calendar, from, now)
  <2>1. CASE since <= now
    <3>1. Elapsed(Calendar, since, now) <= Open(Calendar, since, now) /\ Open(Calendar, since, now) \in Nat
      BY <1>1, <1>2, <2>1, ElapsedAtMost, OpenIs
    <3>2. Open(Calendar, from, now) = Open(Calendar, from, since) + Open(Calendar, since, now)
      BY <1>1, <2>1, OpenSplits
    <3>3. Open(Calendar, from, since) \in Nat  BY <1>1, OpenIs
    <3> QED  BY <1>3, <3>1, <3>2, <3>3
  <2>2. CASE now < since
    <3>1. Elapsed(Calendar, since, now) = 0  BY <1>1, <2>2 DEF Elapsed
    <3> QED  BY <1>3, <3>1
  <2> QED  BY <1>1, <2>1, <2>2
<1>5. ElapsedAt(k, now) = Capped(k, timer[k].elapsed + Elapsed(Calendar, since, now))
  BY <1>1 DEF ElapsedAt, since
<1>6. ElapsedAt(k, now) <= timer[k].elapsed + Elapsed(Calendar, since, now)
  <2> DEFINE sum == timer[k].elapsed + Elapsed(Calendar, since, now)
  <2>1. sum \in Nat  BY <1>1, <1>3
  <2> HIDE DEF sum
  <2>2. Capped(k, sum) <= sum  BY <1>1, <2>1 DEF Capped
  <2> QED  BY <1>5, <2>2 DEF sum
<1>7. ElapsedAt(k, now) <= timer[k].elapsed + Open(Calendar, from, now)
  <2>1. ElapsedAt(k, now) \in Nat
    <3>1. \A x \in Nat : Capped(k, x) \in Nat  BY <1>1 DEF Capped
    <3> QED  BY <1>1, <1>3, <1>5, <3>1
  <2> QED  BY <1>1, <1>3, <1>4, <1>6, <2>1
<1> QED  BY <1>3, <1>7 DEF from

LEMMA StartPays ==
  ASSUME SubjectTyped, target' = target, NEW k \in Kinds, Sound(k), NEW now \in Minutes,
         Starts(k, now) \/ Restarts(k, now)
  PROVE  Paid(k)'
<1>1. PICK from \in {0, now} :
        /\ timer'[k] = StartTimer(k, from, now, live \in PauseStates)
        /\ live \notin PauseStates => hist'[k].from = from
        /\ hist'[k].worked \in Nat /\ hist'[k].recounted \in Nat /\ hist'[k].stored \in Nat
  <2>1. hist[k] \in HistRow  BY DEF Sound
  <2>2. CASE Starts(k, now)  BY <2>1, <2>2 DEF Starts, HistRow
  <2>3. CASE Restarts(k, now)
    <3>1. hist'[k].from = (IF live \in PauseStates THEN None ELSE now)
          /\ hist'[k].worked = 0 /\ hist'[k].recounted = 0 /\ hist'[k].stored = 0
      BY <2>3 DEF Restarts, NoHistory
    <3> QED  BY <2>3, <3>1 DEF Restarts
  <2> QED  BY <2>2, <2>3
<1>2. target[k] \in Nat /\ from \in Nat /\ from <= now /\ now \in Nat
  BY TargetNat, NumbersAreSome DEF Starts, Restarts, SubjectTyped
<1>3. CASE live \in PauseStates
  <2>1. timer'[k].st = "paused" /\ timer'[k].elapsed = 0  BY <1>1, <1>3 DEF StartTimer, NoTimer
  <2> QED  BY <1>1, <2>1 DEF Paid
<1>4. CASE live \notin PauseStates
  <2>1. /\ timer'[k].st = "active" /\ timer'[k].elapsed = 0 /\ timer'[k].since = now
        /\ timer'[k].deadline = Add(Calendar, from, target[k]) /\ hist'[k].from = from
    BY <1>1, <1>4 DEF StartTimer, NoTimer
  <2>2. 0 \in 0..target[k] /\ target[k] - 0 = target[k]  BY <1>2
  <2>3. \E e \in 0..target[k] : e <= hist'[k].worked + hist'[k].recounted /\ timer'[k].deadline = Add(Calendar, hist'[k].from, target[k] - e)
    BY <1>1, <2>1, <2>2
  <2> QED  BY <1>1, <1>2, <2>1, <2>3 DEF Paid
<1> QED  BY <1>3, <1>4

LEMMA PausePays ==
  ASSUME Disjoint(Calendar), SubjectTyped, target' = target, NEW k \in Kinds, Sound(k), Paid(k),
         NEW now \in Minutes, Pauses(k, now)
  PROVE  Paid(k)'
<1>1. timer[k].st = "active" /\ timer[k] \in TimerRow /\ hist[k] \in HistRow  BY DEF Pauses, Sound
<1>2. timer'[k].st = "paused" /\ timer'[k].elapsed = ElapsedAt(k, now)
  BY <1>1 DEF Pauses, Paused, TimerRow
<1>3. /\ hist'[k].worked = hist[k].worked + Open(Calendar, hist[k].from, now)
      /\ hist'[k].recounted = hist[k].recounted + hist[k].stored
  BY <1>1 DEF Pauses, HistRow
<1>4. /\ hist[k].from <= timer[k].since
      /\ timer[k].elapsed <= hist[k].worked + hist[k].recounted + hist[k].stored
  BY <1>1 DEF Paid
<1>5. /\ Open(Calendar, hist[k].from, now) \in Nat
      /\ ElapsedAt(k, now) <= timer[k].elapsed + Open(Calendar, hist[k].from, now)
  BY <1>1, <1>4, ElapsedIsWorked
<1>6. /\ timer[k].elapsed \in Nat /\ hist[k].worked \in Nat /\ hist[k].recounted \in Nat /\ hist[k].stored \in Nat
      /\ ElapsedAt(k, now) \in Nat
  BY <1>1, ElapsedTyped DEF TimerRow, HistRow
<1>7. timer'[k].elapsed <= hist'[k].worked + hist'[k].recounted
  <2>1. PICK x \in Nat : x = Open(Calendar, hist[k].from, now)  BY <1>5
  <2>2. ElapsedAt(k, now) <= hist[k].worked + x + (hist[k].recounted + hist[k].stored)
    BY <1>4, <1>5, <1>6, <2>1
  <2> QED  BY <1>2, <1>3, <2>1, <2>2
<1> QED  BY <1>2, <1>7 DEF Paid

LEMMA ResumePays ==
  ASSUME SubjectTyped, target' = target, NEW k \in Kinds, Sound(k), Paid(k), NEW now \in Minutes,
         Resumes(k, now)
  PROVE  Paid(k)'
<1>1. timer[k].st = "paused" /\ timer[k] \in TimerRow /\ hist[k] \in HistRow  BY DEF Resumes, Sound
<1>2. target[k] \in Nat /\ timer[k].elapsed \in 0..target[k]  BY <1>1, TimerIs
<1>3. /\ timer'[k].st = "active" /\ timer'[k].elapsed = timer[k].elapsed /\ timer'[k].since = now
      /\ timer'[k].deadline = Add(Calendar, now, target[k] - timer[k].elapsed)
  BY <1>1 DEF Resumes, Resumed, TimerRow
<1>4. /\ hist'[k].from = now /\ hist'[k].worked = hist[k].worked /\ hist'[k].recounted = hist[k].recounted
      /\ hist'[k].stored = 0 /\ hist[k].worked + hist[k].recounted \in Nat
  BY <1>1 DEF Resumes, HistRow
<1>5. timer[k].elapsed <= hist[k].worked + hist[k].recounted  BY <1>1 DEF Paid
<1>6. now <= now  BY NumbersAreSome
<1> QED  BY <1>2, <1>3, <1>4, <1>5, <1>6 DEF Paid

LEMMA EvaluatePays ==
  ASSUME SubjectTyped, target' = target, NEW k \in Kinds, Sound(k), Paid(k), NEW now \in Minutes,
         Evaluates(k, now)
  PROVE  Paid(k)'
<1> DEFINE minutes == ElapsedAt(k, now)
<1>1. timer[k].st = "active" /\ timer[k] \in TimerRow /\ hist[k] \in HistRow
  BY DEF Evaluates, Running, Sound
<1>2. /\ timer'[k].elapsed = minutes /\ timer'[k].deadline = timer[k].deadline
      /\ \/ timer'[k].st = "breached"
         \/ timer'[k].st = "active" /\ timer'[k].since = timer[k].since
  BY <1>1 DEF Evaluates, TimerRow
<1>3. /\ hist'[k].from = hist[k].from /\ hist'[k].worked = hist[k].worked
      /\ hist'[k].recounted = hist[k].recounted
      /\ hist'[k].stored = hist[k].stored + (minutes - timer[k].elapsed)
  BY <1>1 DEF Evaluates, HistRow
<1>4. CASE timer'[k].st = "breached"  BY <1>4 DEF Paid
<1>5. CASE timer'[k].st = "active" /\ timer'[k].since = timer[k].since
  <2>1. /\ timer[k].elapsed \in Nat /\ minutes \in Nat
        /\ hist[k].worked \in Nat /\ hist[k].recounted \in Nat /\ hist[k].stored \in Nat
    BY <1>1, ElapsedTyped DEF TimerRow, HistRow
  <2> HIDE DEF minutes
  <2>2. /\ hist[k].from <= timer[k].since
        /\ timer[k].elapsed <= hist[k].worked + hist[k].recounted + hist[k].stored
        /\ \E e \in 0..target[k] : /\ e <= hist[k].worked + hist[k].recounted
                                   /\ timer[k].deadline = Add(Calendar, hist[k].from, target[k] - e)
    BY <1>1 DEF Paid
  <2>3. minutes <= hist[k].worked + hist[k].recounted + (hist[k].stored + (minutes - timer[k].elapsed))
    BY <2>1, <2>2
  <2> QED  BY <1>2, <1>3, <1>5, <2>2, <2>3 DEF Paid
<1> QED  BY <1>2, <1>4, <1>5

LEMMA ChangesPay ==
  ASSUME Disjoint(Calendar), SubjectTyped, target' = target, NEW k \in Kinds, Sound(k), Paid(k),
         NEW now \in Minutes, Changes(k, now)
  PROVE  Paid(k)'
<1>1. CASE Keeps(k)  BY <1>1 DEF Keeps, Paid
<1>2. CASE Meets(k)
  <2>1. timer'[k].st = "met"  BY <1>2 DEF Meets, Met, Sound, TimerRow
  <2> QED  BY <2>1 DEF Paid
<1> QED  BY <1>1, <1>2, StartPays, PausePays, ResumePays, EvaluatePays DEF Changes

\* No batch is read ahead of time.
LEMMA BatchReadStep ==
  ASSUME SlaTyped, BatchRead, Step
  PROVE  BatchRead'
<1>0. /\ BatchTyped /\ clock \in Nat /\ \A j \in Ticks : batch[j].now \in Nat /\ batch[j].now <= clock
  BY NumbersAreSome DEF SlaTyped, SubjectTyped, BatchTyped, BatchRead
<1>1. ASSUME \A j \in Ticks : batch'[j].now \in {0, batch[j].now, clock}, clock' \in {clock, clock + 1}
      PROVE  BatchRead'
  BY <1>0, <1>1 DEF BatchRead
<1>2. CASE Post \/ SetState \/ WakeUntold \/ Advance \/ HandleMessage \/ Handle \/ HandleLost \/ Manage
  <2>1. batch' = batch /\ clock' \in {clock, clock + 1}
    BY <1>2 DEF Post, SetState, WakeUntold, Advance, HandleMessage, Handle, HandleLost, Manage, subject
  <2> QED  BY <1>1, <2>1
<1>3. ASSUME NEW j \in Ticks, Start(j) \/ Finish(j) \/ Break(j) \/ \E k \in Kinds : EvaluateOne(j, k)
      PROVE  BatchRead'
  <2>1. clock' = clock  BY <1>3 DEF Start, Finish, Break, EvaluateOne, subject
  <2>2. \A i \in Ticks : batch'[i].now \in {0, batch[i].now, clock}
    <3>1. CASE Start(j)
      <4>1. PICK b \in Batches :
              batch' = [batch EXCEPT ![j] = IF b = {} THEN NoBatch ELSE [now |-> clock, left |-> b]]
        BY <3>1 DEF Start
      <4> QED  BY <1>0, <4>1 DEF NoBatch, BatchTyped
    <3>2. CASE ~Start(j)
      BY <1>0, <1>3, <3>2 DEF Finish, Break, EvaluateOne, Remaining, NoBatch, BatchTyped
    <3> QED  BY <3>1, <3>2
  <2> QED  BY <1>1, <2>1, <2>2
<1> QED  BY <1>2, <1>3 DEF Step

LEMMA PaidStep ==
  ASSUME Disjoint(Calendar), SlaInv, PaidInv, [Next]_vars
  PROVE  PaidInv'
<1>0. /\ SlaTyped /\ SubjectTyped /\ TimerTyped /\ BatchRead /\ \A k \in Kinds : Sound(k) /\ Paid(k)
  BY DEF SlaInv, SlaTyped, SlaShape, TimerTyped, Sound, PaidInv
<1>1. CASE Next
  <2>1. Step  BY <1>1 DEF Next
  <2>2. PICK now \in Minutes : \A k \in Kinds : Changes(k, now)  BY <1>0, <2>1, StepChanges
  <2>3. target' = target  BY <1>0, <2>1, StepChanges
  <2>4. \A k \in Kinds : Paid(k)'  BY <1>0, <2>2, <2>3, ChangesPay
  <2>5. BatchRead'  BY <1>0, <2>1, BatchReadStep
  <2> QED  BY <2>4, <2>5 DEF PaidInv
<1>2. CASE UNCHANGED vars
  <2>1. UNCHANGED <<clock, target, timer, hist, batch>>
    BY <1>2 DEF vars, subject, timers
  <2> QED  BY <1>0, <2>1 DEF PaidInv, BatchRead, Paid
<1> QED  BY <1>1, <1>2

LEMMA PaidInit == Init => PaidInv
<1> SUFFICES ASSUME Init PROVE PaidInv  OBVIOUS
<1>1. \A k \in Kinds : timer[k].st = "none"  BY DEF Init, NoTimer
<1>2. BatchRead  BY DEF Init, BatchRead, NoBatch
<1> QED  BY <1>1, <1>2 DEF PaidInv, Paid

\* A running timer is only breached by a tick, which finds its deadline past.
LEMMA BreachIsDue ==
  ASSUME SlaTyped, BatchRead, Step, NEW k \in Kinds, Running(k), timer'[k].st = "breached"
  PROVE  timer[k].deadline # None /\ timer[k].deadline \in Nat /\ timer[k].deadline <= clock /\ clock \in Nat
<1>0. QueueTyped /\ TimerTyped /\ BatchTyped /\ timer[k] \in TimerRow /\ timer[k].st = "active"
  BY DEF SlaTyped, TimerTyped, Running
<1>1. ASSUME NEW now, Keeps(k) \/ Starts(k, now) \/ Restarts(k, now) \/ Meets(k) \/ Pauses(k, now) \/ Resumes(k, now)
      PROVE  FALSE
  <2>1. CASE Keeps(k) \/ Starts(k, now) \/ Resumes(k, now)
    BY <1>0, <2>1 DEF Keeps, Starts, Resumes
  <2>2. CASE Restarts(k, now)
    <3>1. timer'[k].st \in {"paused", "active"}  BY <2>2 DEF Restarts, StartTimer, NoTimer
    <3> QED  BY <3>1
  <2>3. CASE Meets(k)
    <3>1. timer'[k].st = "met"  BY <1>0, <2>3 DEF Meets, Met, TimerRow
    <3> QED  BY <3>1
  <2>4. CASE Pauses(k, now)
    <3>1. timer'[k].st = "paused"  BY <1>0, <2>4 DEF Pauses, Paused, TimerRow
    <3> QED  BY <3>1
  <2> QED  BY <1>1, <2>1, <2>2, <2>3, <2>4
<1>2. ASSUME timer' = timer PROVE FALSE  BY <1>0, <1>2
<1>3. CASE Post \/ SetState \/ WakeUntold \/ Advance \/ HandleLost \/ Manage
  BY <1>2, <1>3 DEF Post, SetState, WakeUntold, Advance, HandleLost, Manage, timers
<1>4. CASE HandleMessage \/ Handle
  <2>1. /\ queue # <<>> /\ Head(queue).at \in Minutes
        /\ EnsureConversation(Head(queue).at) \/ Effect(Head(queue))
    BY <1>0, <1>4, HeadTyped DEF HandleMessage, Handle
  <2>2. \/ EnsureConversation(Head(queue).at) \/ StartOrResetNext(Head(queue).at) \/ AgentResponded
        \/ SetSubjectState(Head(queue).arg, Head(queue).at)
    BY <2>1 DEF Effect
  <2> QED  BY <1>0, <1>1, <2>1, <2>2, EnsureChanges, StartOrResetChanges, RespondedChanges, StateChanges
<1>5. ASSUME NEW j \in Ticks, Start(j) \/ Finish(j) \/ Break(j)
      PROVE  FALSE
  BY <1>2, <1>5 DEF Start, Finish, Break, timers
<1>6. ASSUME NEW j \in Ticks, NEW i \in Kinds, EvaluateOne(j, i)
      PROVE  timer[k].deadline # None /\ timer[k].deadline \in Nat /\ timer[k].deadline <= clock /\ clock \in Nat
  <2>1. Running(i) /\ Evaluated(i, batch[j].now) /\ batch[j].now \in Minutes
    BY <1>0, <1>2, <1>6 DEF EvaluateOne, timers, BatchTyped
  <2>2. Evaluates(k, batch[j].now)  BY <1>0, <1>1, <2>1, EvaluatedChanges
  <2>3. Breaches(k, batch[j].now)
    <3> SUFFICES ASSUME ~Breaches(k, batch[j].now) PROVE FALSE  OBVIOUS
    <3>1. timer'[k].st = timer[k].st  BY <1>0, <2>2 DEF Evaluates, TimerRow
    <3> QED  BY <1>0, <3>1
  <2>4. timer[k].deadline # None /\ timer[k].deadline \in Nat /\ timer[k].deadline <= batch[j].now
    BY <1>0, <2>3 DEF Breaches, TimerRow
  <2>5. batch[j].now <= clock /\ batch[j].now \in Nat /\ clock \in Nat
    BY <2>1, NumbersAreSome DEF BatchRead, SlaTyped, SubjectTyped
  <2> QED  BY <2>4, <2>5
<1> QED  BY <1>3, <1>4, <1>5, <1>6 DEF Step

\* What passes between a start or a resume and the deadline it set has been worked.
LEMMA DeadlineIsWorked ==
  ASSUME NEW from \in Nat, NEW d \in Nat, NEW now \in Nat, Add(Calendar, from, d) <= now
  PROVE  Open(Calendar, from, now) >= d
<1>1. WellFormed(Calendar)  BY CalendarsAssumption
<1> DEFINE t == Add(Calendar, from, d)
<1>2. t \in Nat /\ Open(Calendar, from, t) >= d /\ Open(Calendar, from, t) \in Nat
  BY <1>1, AddIsEnough, OpenIs
<1> HIDE DEF t
<1>3. t <= now  BY DEF t
<1>4. Open(Calendar, from, t) <= Open(Calendar, from, now) /\ Open(Calendar, from, now) \in Nat
  BY <1>2, <1>3, OpenGrows, OpenIs
<1> QED  BY <1>2, <1>4

LEMMA BreachPays ==
  ASSUME SlaInv, PaidInv, Step, NEW k \in Kinds, Running(k), timer'[k].st = "breached"
  PROVE  hist[k].worked + hist[k].recounted + Open(Calendar, hist[k].from, clock) >= target[k]
<1>0. /\ SlaTyped /\ SubjectTyped /\ BatchRead /\ Sound(k) /\ Paid(k) /\ timer[k].st = "active"
  BY DEF SlaInv, SlaTyped, SlaShape, TimerTyped, Sound, PaidInv, Running
<1>1. timer[k].deadline \in Nat /\ timer[k].deadline <= clock /\ clock \in Nat  BY <1>0, BreachIsDue
<1>2. hist[k].from \in Nat /\ hist[k].worked \in Nat /\ hist[k].recounted \in Nat /\ target[k] \in Nat
  BY <1>0, TimerIs
<1>3. PICK e \in 0..target[k] : /\ e <= hist[k].worked + hist[k].recounted
                                /\ timer[k].deadline = Add(Calendar, hist[k].from, target[k] - e)
  BY <1>0 DEF Paid
<1>4. target[k] - e \in Nat /\ e \in Nat  BY <1>2
<1>5. Open(Calendar, hist[k].from, clock) >= target[k] - e  BY <1>1, <1>2, <1>3, <1>4, DeadlineIsWorked
<1>6. Open(Calendar, hist[k].from, clock) \in Nat  BY <1>1, <1>2, OpenIs
<1> QED  BY <1>2, <1>3, <1>4, <1>5, <1>6

-------------------------------------------------------------------------------
(* The theorems                                                              *)

LEMMA InvInit == Init => SlaInv
<1> SUFFICES ASSUME Init PROVE SlaInv  OBVIOUS
<1>1. ChainInv  BY ChainInit DEF Init
<1>2. \A k \in Kinds : timer[k] = NoTimer /\ hist[k] = NoHistory  BY DEF Init
<1>3. SlaTyped
  <2>1. SubjectTyped  BY NumbersAreSome, SlaAssumption DEF Init, SubjectTyped
  <2>2. QueueTyped
    <3>1. Event("created", None) \in Events  BY NumbersAreSome DEF Init, Event, Events
    <3> HIDE DEF Events
    <3> DEFINE e == Event("created", None)
    <3>2. queue \in {<<>>, <<e>>}  BY DEF Init
    <3>3. e \in Events  BY <3>1
    <3> HIDE DEF e
    <3>4. <<>> \in Seq(Events) /\ <<e>> \in Seq(Events)  BY <3>3
    <3>5. queue \in Seq(Events)  BY <3>2, <3>4
    <3> QED  BY <3>5 DEF Init, QueueTyped
  <2>3. NoTimer \in TimerRow /\ NoHistory \in HistRow
    BY DEF NoTimer, TimerRow, TimerStates, NoHistory, HistRow
  <2>4. TimerTyped  BY <2>3 DEF Init, TimerTyped
  <2>5. BatchTyped  BY NumbersAreSome DEF Init, BatchTyped, NoBatch
  <2> QED  BY <2>1, <2>2, <2>4, <2>5 DEF SlaTyped
<1>4. SlaShape
  <2>1. BatchShape  BY DEF Init, BatchShape
  <2>2. \A k \in Kinds : TimerShape(k)  BY <1>2 DEF TimerShape, NoTimer
  <2> QED  BY <2>1, <2>2 DEF SlaShape
<1>5. \A k \in Kinds : Remembered(k)  BY <1>2 DEF Remembered, NoHistory, NoTimer
<1>6. StateInv
  <2>1. LastTold /\ ToldOrWoken
    BY DEF Init, LastTold, ToldOrWoken, Event
  <2>2. AllFollow  BY <1>2 DEF AllFollow, Follows, Unfinished, NoTimer
  <2> QED  BY <2>1, <2>2 DEF StateInv
<1> QED  BY <1>1, <1>3, <1>4, <1>5, <1>6 DEF SlaInv

LEMMA InvStep == SlaInv /\ [Next]_vars => SlaInv'
<1> SUFFICES ASSUME SlaInv, [Next]_vars PROVE SlaInv'  OBVIOUS
<1>0. ChainInv /\ TickTyped /\ SlaTyped /\ BatchShape /\ StateInv
      /\ \A k \in Kinds : TimerShape(k) /\ Remembered(k)
  BY DEF SlaInv, SlaShape, ChainInv
<1>1. ChainInv'  BY <1>0, StepsOfSchedule, ChainStep
<1>2. CASE Next
  <2>1. Step  BY <1>2 DEF Next
  <2>2. SlaTyped' /\ BatchShape'
    BY <1>0, <2>1, SubjectStep, QueueStep, TimersStep, BatchStep DEF SlaTyped
  <2>3. \A k \in Kinds : TimerShape(k)' /\ Remembered(k)'  BY <1>0, <2>1, TimersStep
  <2>4. StateInv'  BY <1>0, <2>1, StateStep
  <2> QED  BY <1>1, <2>2, <2>3, <2>4 DEF SlaInv, SlaShape
<1>3. CASE UNCHANGED vars
  <2>1. UNCHANGED <<clock, live, told, sent, target, queue, ensured, again, timer, hist, batch, tick>>
    BY <1>3 DEF vars, subject, consumer, timers, scheduleVars
  <2>2. SlaTyped' /\ BatchShape'
    BY <1>0, <2>1 DEF SlaTyped, SubjectTyped, QueueTyped, TimerTyped, BatchTyped, BatchShape
  <2>3. \A k \in Kinds : TimerShape(k)' /\ Remembered(k)'
    BY <1>0, <2>1 DEF TimerShape, Remembered, Unfinished
  <2>4. StateInv'
    BY <1>0, <2>1 DEF StateInv, LastTold, ToldOrWoken, AllFollow, NoStateEvent, Follows, Unfinished
  <2> QED  BY <1>1, <2>2, <2>3, <2>4 DEF SlaInv, SlaShape
<1> QED  BY <1>2, <1>3

\* The invariant of schedule, timers, announcements and states holds throughout.
THEOREM SlaInvariant == Spec => []SlaInv
<1> QED  BY InvInit, InvStep, PTL DEF Spec

\* Types: a timer has a start and a deadline exactly when the columns of
\* sla_instances should (insertTimer, SetSubjectState, evaluateOne), and its stored
\* minutes never exceed its target (elapsedAt).
THEOREM SlaTypesHold == Spec => []SlaTypeOK
<1>1. SlaInv => SlaTypeOK
  <2> SUFFICES ASSUME SlaInv PROVE SlaTypeOK  OBVIOUS
  <2>1. SubjectTyped /\ TimerTyped /\ BatchShape /\ \A k \in Kinds : TimerShape(k)
    BY DEF SlaInv, SlaTyped, SlaShape
  <2>2. ASSUME NEW k \in Kinds
        PROVE  /\ timer[k].st \in {"none", "active", "paused", "met", "breached"}
               /\ timer[k].since # None <=> timer[k].st = "active"
               /\ timer[k].deadline # None <=> timer[k].st \in {"active", "breached"}
               /\ timer[k].st # "none" => timer[k].elapsed \in 0..target[k]
    <3>1. timer[k] \in TimerRow /\ TimerShape(k)  BY <2>1 DEF TimerTyped
    <3>2. target[k] # None => target[k] \in Nat  BY <2>1, TargetNat DEF SubjectTyped
    <3> QED  BY <3>1, <3>2 DEF TimerRow, TimerStates, TimerShape
  <2> QED  BY <2>1, <2>2 DEF SlaTypeOK, SubjectTyped, Minutes, BatchShape
<1> QED  BY <1>1, SlaInvariant, PTL

\* Each timer is announced as approaching and as breached at most once, unless a
\* message was handled twice (Evaluate, evaluateOne, StartOrResetNext).
THEOREM AnnouncementsAreSingle == Spec => []AnnouncedOnce
<1>1. SlaInv => AnnouncedOnce  BY DEF SlaInv, Remembered, AnnouncedOnce
<1> QED  BY <1>1, SlaInvariant, PTL

\* Once the consumer has caught up, the unfinished timers are paused exactly in
\* pause states (EnsureConversation, StartOrResetNext, SetSubjectState).
THEOREM PausesFollowState == Spec => []PauseFollowsState
<1>1. SlaInv => PauseFollowsState
  <2> SUFFICES ASSUME SlaInv, queue = <<>>, told = live, NEW k \in Kinds PROVE Follows(k)
    BY DEF PauseFollowsState, Follows
  <2>1. NoStateEvent  BY DEF NoStateEvent
  <2> QED  BY <2>1 DEF SlaInv, StateInv, AllFollow
<1> QED  BY <1>1, SlaInvariant, PTL

\* A schedule has one live chain, and one more at most for every tick that ran again
\* and every admin's retry (EnsureScheduled, and the recurring handlers of main.go).
THEOREM ScheduleStaysSingle == Spec => []OneSchedule
<1>1. SlaInv => OneSchedule
  <2> SUFFICES ASSUME ChainInv PROVE OneSchedule  BY DEF SlaInv
  <2>1. Heads \subseteq LiveTicks  BY DEF Heads
  <2>2. IsFiniteSet(LiveTicks)  BY ScheduleAssumption, FS_Subset DEF LiveTicks
  <2>3. /\ Cardinality(Heads) <= Cardinality(LiveTicks)
        /\ Cardinality(Heads) \in Nat /\ Cardinality(LiveTicks) \in Nat
    BY <2>1, <2>2, FS_Subset, FS_CardinalityType
  <2> QED  BY <2>3 DEF ChainInv, TickTyped, OneSchedule
<1> QED  BY <1>1, SlaInvariant, PTL

\* The searches of Add and Elapsed end, for every calendar that NewCalendar accepts
\* and that has a working minute in its week: overlaps, windows past midnight and
\* holidays included (the loops of business_hours.go, without their bound of a
\* century of days).
THEOREM CalendarIsTotal ==
  ASSUME NEW cal, WellFormed(cal), NEW start \in Nat, NEW end \in Nat, NEW d \in Nat
  PROVE  Add(cal, start, d) \in Nat /\ Elapsed(cal, start, end) \in Nat
BY AddIsEnough, ElapsedNat

\* Add leaves room for the work on every calendar that NewCalendar accepts, windows
\* that overlap or run past midnight included: it never comes before so much has been
\* worked.  If windows do not overlap, Elapsed counts no minute that is not worked,
\* and none twice.
THEOREM CalendarIsNotGenerous ==
  ASSUME NEW cal, WellFormed(cal), NEW start \in Nat, NEW end \in Nat, NEW d \in Nat, start <= end
  PROVE  /\ start <= Add(cal, start, d) /\ Open(cal, start, Add(cal, start, d)) >= d
         /\ Disjoint(cal) => Elapsed(cal, start, end) <= Open(cal, start, end)
BY AddIsEnough, ElapsedAtMost

\* Add and Elapsed are inverse ("the inverse operation", business_hours.go), for every
\* calendar whose windows do not overlap and end before midnight, and any start and
\* duration: Add gives the first minute by which so much has been worked, and Elapsed
\* finds so much between the two, or between any start and end, unless it leaves out
\* the last day: a later one than the first, less than a day after the start.
THEOREM AddAndElapsedAgree ==
  ASSUME NEW cal, WellFormed(cal), Plain(cal), NEW start \in Nat, NEW d \in Nat
  PROVE  /\ LET t == Add(cal, start, d) IN
              /\ Open(cal, start, t) = d /\ (d > 0 => Open(cal, start, t - 1) = d - 1)
              /\ Day(start) = Day(t) \/ t - start >= DayLength => Elapsed(cal, start, t) = d
         /\ Day(start) = Day(start + d) \/ d >= DayLength =>
              Elapsed(cal, start, start + d) = Open(cal, start, start + d)
<1>1. start + d \in Nat /\ start <= start + d /\ (start + d) - start = d  OBVIOUS
<1>2. (Day(start) = Day(start + d) \/ d >= DayLength) =>
        Elapsed(cal, start, start + d) = Open(cal, start, start + d)
  BY <1>1, ElapsedIs
<1>3. PICK t : t = Add(cal, start, d)  OBVIOUS
<1>4. /\ t \in Nat /\ start <= t /\ Open(cal, start, t) = d
      /\ d > 0 => Open(cal, start, t - 1) = d - 1
  BY <1>3, AddIs
<1>5. Day(start) = Day(t) \/ t - start >= DayLength => Elapsed(cal, start, t) = d
  BY <1>4, ElapsedIs
<1> QED  BY <1>2, <1>3, <1>4, <1>5

\* The same as the runs compare it, for calendars of NewCalendar and two days.
THEOREM CalendarIsExact == Spec => []CalendarExact
<1>1. 0..(2 * DayLength) \subseteq Nat  BY DayAssumption
<1>2. \A cal \in Calendars : WellFormed(cal)  BY CalendarsAssumption
<1>3. ASSUME NEW cal \in Calendars, NEW start \in 0..(2 * DayLength), NEW d \in 0..(2 * DayLength)
      PROVE  LET t == Add(cal, start, d)
                 end == start + d
             IN /\ Open(cal, start, t) >= d
                /\ Disjoint(cal) => Elapsed(cal, start, end) <= Open(cal, start, end)
                /\ Plain(cal) =>
                     /\ Open(cal, start, t) = d /\ (d > 0 => Open(cal, start, t - 1) = d - 1)
                     /\ Day(start) = Day(end) \/ d >= DayLength => Elapsed(cal, start, end) = Open(cal, start, end)
  <2>1. start \in Nat /\ d \in Nat /\ start + d \in Nat /\ start <= start + d  BY <1>1
  <2>2. WellFormed(cal)  BY <1>2
  <2> QED  BY <2>1, <2>2, CalendarIsNotGenerous, AddAndElapsedAgree
<1>4. CalendarExact  BY <1>3 DEF CalendarExact
<1> QED  BY <1>4, PTL

\* If the windows of the calendar do not overlap, no timer breaches before its target
\* has been worked, however ticks, messages and state changes interleave: the deadline
\* that insertTimer and SetSubjectState write leaves out no more than was worked, and
\* the minutes an evaluation had stored before a pause counted them again.
THEOREM BreachesAreEarned == ASSUME Disjoint(Calendar) PROVE Spec => BreachIsEarned
<1> DEFINE Earned == \A k \in Kinds : Running(k) /\ timer'[k].st = "breached" =>
                       hist[k].worked + hist[k].recounted + Open(Calendar, hist[k].from, clock) >= target[k]
<1>1. Init => PaidInv  BY PaidInit
<1>2. SlaInv /\ PaidInv /\ [Next]_vars => PaidInv'  BY PaidStep
<1>3. SlaInv /\ PaidInv /\ [Next]_vars => [Earned]_vars
  <2> SUFFICES ASSUME SlaInv, PaidInv, Next PROVE Earned  OBVIOUS
  <2>1. Step  BY DEF Next
  <2> QED  BY <2>1, BreachPays
<1> QED  BY <1>1, <1>2, <1>3, SlaInvariant, PTL DEF Spec, BreachIsEarned

=============================================================================
