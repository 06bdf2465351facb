-------------------------- MODULE EventQuery_proofs --------------------------
(***************************************************************************)
(* What a query answers, for every table, calendar, zone, period, filter,  *)
(* order and page size.                                                    *)
(*                                                                         *)
(* The windows of QueryWindow are those of the civil days asked for: the   *)
(* days are numbered in their order without gaps, midnights are in the     *)
(* order of the days, and each window is bounded by two of them.           *)
(*                                                                         *)
(* The pages of a walk join without overlap or gap: the id makes the order *)
(* of the rows unique, so that each SELECT slices the same sequence, and   *)
(* the offset of a page that exists fits in an int.  WalkInv is what a     *)
(* walk keeps from one page to the next.                                   *)
(***************************************************************************)
EXTENDS EventQuery, FunctionTheorems, FiniteSetTheorems, SequenceTheorems, TLAPS

-----------------------------------------------------------------------------
(* The calendar.                                                           *)

(* The rows of the table of months.                                        *)
LEMMA MonthTable ==
    /\ DaysBeforeMonth[1] = 0 /\ DaysBeforeMonth[2] = 31
    /\ DaysBeforeMonth[3] = 59 /\ DaysBeforeMonth[4] = 90
    /\ DaysBeforeMonth[5] = 120 /\ DaysBeforeMonth[6] = 151
    /\ DaysBeforeMonth[7] = 181 /\ DaysBeforeMonth[8] = 212
    /\ DaysBeforeMonth[9] = 243 /\ DaysBeforeMonth[10] = 273
    /\ DaysBeforeMonth[11] = 304 /\ DaysBeforeMonth[12] = 334
BY DEF DaysBeforeMonth

(* A year has 365 days, or 366 if it is a leap year.                       *)
LEMMA YearLength ==
    ASSUME NEW y \in Int
    PROVE  /\ DaysBeforeYear(y) \in Int
           /\ DaysBeforeYear(y + 1)
                = DaysBeforeYear(y) + (IF IsLeap(y) THEN 366 ELSE 365)
BY DEF DaysBeforeYear, IsLeap

(* A later year starts later.                                              *)
LEMMA YearsOrdered ==
    ASSUME NEW y \in Int, NEW x \in Int, y <= x
    PROVE  DaysBeforeYear(y) <= DaysBeforeYear(x)
BY DEF DaysBeforeYear

LeapDay(y, m) == IF m > 2 /\ IsLeap(y) THEN 1 ELSE 0

(* The number of the first day of a month.                                 *)
LEMMA FirstOfMonth ==
    ASSUME NEW y \in Int, NEW m \in 1 .. 12
    PROVE  /\ DayNumber(y, m, 1)
                = DaysBeforeYear(y) + DaysBeforeMonth[m] + LeapDay(y, m)
           /\ DayNumber(y, m, 1) \in Int
<1>1. (m - 1) \div 12 = 0 /\ ((m - 1) % 12) + 1 = m
  OBVIOUS
<1>2. DayNumber(y, m, 1) =
         DaysBeforeYear(y) + DaysBeforeMonth[m] + LeapDay(y, m) + 1 - 1
  BY <1>1 DEF DayNumber, LeapDay
<1>3. /\ DaysBeforeYear(y) \in Int /\ DaysBeforeMonth[m] \in Int
      /\ LeapDay(y, m) \in Int
  BY YearLength, MonthTable DEF LeapDay
<1> QED
  BY <1>2, <1>3

(* The days of a month are numbered on from its first.                     *)
LEMMA DaysOfMonth ==
    ASSUME NEW y \in Int, NEW m \in 1 .. 12, NEW d \in Int
    PROVE  DayNumber(y, m, d) = DayNumber(y, m, 1) + d - 1
<1>1. (m - 1) \div 12 = 0 /\ ((m - 1) % 12) + 1 = m
  OBVIOUS
<1>2. DayNumber(y, m, d) =
         DaysBeforeYear(y) + DaysBeforeMonth[m] + LeapDay(y, m) + d - 1
  BY <1>1 DEF DayNumber, LeapDay
<1>3. /\ DaysBeforeYear(y) \in Int /\ DaysBeforeMonth[m] \in Int
      /\ LeapDay(y, m) \in Int
  BY YearLength, MonthTable DEF LeapDay
<1> QED
  BY <1>2, <1>3, FirstOfMonth

(* A month has at least 28 days.                                           *)
LEMMA MonthDays ==
    ASSUME NEW y \in Int, NEW m \in 1 .. 12
    PROVE  DaysIn(y, m) \in Int /\ 28 <= DaysIn(y, m)
BY DEF DaysIn

(* The first of January, and the day after the last of December.           *)
LEMMA YearStarts ==
    ASSUME NEW y \in Int
    PROVE  /\ DayNumber(y, 1, 1) = DaysBeforeYear(y)
           /\ DayNumber(y, 13, 1) = DaysBeforeYear(y + 1)
<1>1. (13 - 1) \div 12 = 1 /\ ((13 - 1) % 12) + 1 = 1
  OBVIOUS
<1>2. DayNumber(y, 13, 1) = DaysBeforeYear(y + 1) + DaysBeforeMonth[1]
         + (IF 1 > 2 /\ IsLeap(y + 1) THEN 1 ELSE 0) + 1 - 1
  BY <1>1 DEF DayNumber
<1>3. DayNumber(y, 1, 1) = DaysBeforeYear(y) + DaysBeforeMonth[1]
         + (IF 1 > 2 /\ IsLeap(y) THEN 1 ELSE 0) + 1 - 1
  BY DEF DayNumber
<1> QED
  BY <1>2, <1>3, YearLength, MonthTable

(* A month is as long as the calendar says.                                *)
LEMMA MonthLength ==
    ASSUME NEW y \in Int, NEW m \in 1 .. 12
    PROVE  /\ DayNumber(y, m + 1, 1) \in Int
           /\ DayNumber(y, m + 1, 1) = DayNumber(y, m, 1) + DaysIn(y, m)
<1>1. DaysBeforeYear(y) \in Int /\ DaysBeforeMonth[m] \in Int
  BY YearLength, MonthTable
<1>2. DayNumber(y, m, 1) =
         DaysBeforeYear(y) + DaysBeforeMonth[m] + LeapDay(y, m)
  BY FirstOfMonth
<1>3. CASE m < 12
  <2>1. DayNumber(y, m + 1, 1) =
            DaysBeforeYear(y) + DaysBeforeMonth[m + 1] + LeapDay(y, m + 1)
    <3>1. PICK k \in 1 .. 12 : k = m + 1
      BY <1>3
    <3>2. DayNumber(y, k, 1)
             = DaysBeforeYear(y) + DaysBeforeMonth[k] + LeapDay(y, k)
      BY FirstOfMonth
    <3> QED
      BY <3>1, <3>2
  <2>2. DaysBeforeMonth[m + 1] =
            DaysBeforeMonth[m] + (IF m = 2 THEN 28 ELSE DaysIn(y, m))
    BY <1>3, MonthTable DEF DaysIn
  <2> QED
    BY <1>1, <1>2, <1>3, <2>1, <2>2 DEF DaysIn, LeapDay
<1>4. CASE m = 12
  <2>1. DaysIn(y, m) = 31 /\ DaysBeforeMonth[m] = 334
    BY <1>4, MonthTable DEF DaysIn
  <2> QED
    BY <1>1, <1>2, <1>4, <2>1, YearLength, YearStarts DEF LeapDay
<1> QED
  BY <1>3, <1>4

(* The months of a year follow each other.                                 *)
LEMMA MonthsOrdered ==
    ASSUME NEW y \in Int, NEW m \in 1 .. 12, NEW k \in 1 .. 12, m <= k
    PROVE  DayNumber(y, m, 1) <= DayNumber(y, k, 1)
<1>1. DayNumber(y, m, 1) =
         DaysBeforeYear(y) + DaysBeforeMonth[m] + LeapDay(y, m)
  BY FirstOfMonth
<1>2. DayNumber(y, k, 1) =
         DaysBeforeYear(y) + DaysBeforeMonth[k] + LeapDay(y, k)
  BY FirstOfMonth
<1>3. /\ DaysBeforeMonth[m] \in Int /\ DaysBeforeMonth[k] \in Int
      /\ DaysBeforeMonth[m] <= DaysBeforeMonth[k]
  BY MonthTable
<1> QED
  BY <1>1, <1>2, <1>3, YearLength DEF LeapDay

-----------------------------------------------------------------------------
(* Civil days are numbered in their order, without gaps.                   *)

Number(c) == DayNumber(c.y, c.m, c.d)

(* A day lies in its month, and its month in its year.                     *)
LEMMA InItsMonth ==
    ASSUME NEW y \in Int, NEW m \in 1 .. 12, NEW d \in 1 .. 31,
           d <= DaysIn(y, m)
    PROVE  /\ DayNumber(y, m, 1) \in Int
           /\ DayNumber(y, m, d) \in Int
           /\ DayNumber(y, m + 1, 1) \in Int
           /\ DayNumber(y, m, 1) <= DayNumber(y, m, d)
           /\ DayNumber(y, m, d) + 1 <= DayNumber(y, m + 1, 1)
<1>1. DayNumber(y, m, d) = DayNumber(y, m, 1) + d - 1
  BY DaysOfMonth
<1>4. DayNumber(y, m, 1) \in Int
  BY FirstOfMonth
<1>2. /\ DayNumber(y, m + 1, 1) = DayNumber(y, m, 1) + DaysIn(y, m)
      /\ DayNumber(y, m + 1, 1) \in Int
  BY MonthLength
<1>3. DaysIn(y, m) \in Int
  BY MonthDays
<1> QED
  BY <1>1, <1>2, <1>3, <1>4

(* A date lies between the starts of its year and of the next.             *)
LEMMA InItsYear ==
    ASSUME NEW y \in Int, NEW m \in 1 .. 12
    PROVE  /\ DayNumber(y, 1, 1) \in Int /\ DayNumber(y + 1, 1, 1) \in Int
           /\ DayNumber(y, 1, 1) <= DayNumber(y, m, 1)
           /\ DayNumber(y, m + 1, 1) <= DayNumber(y + 1, 1, 1)
<1>1. DayNumber(y, 1, 1) \in Int /\ DayNumber(y + 1, 1, 1) \in Int
  BY FirstOfMonth
<1>2. DayNumber(y, 1, 1) <= DayNumber(y, m, 1)
  BY MonthsOrdered
<1>3. DayNumber(y, 12 + 1, 1) = DayNumber(y + 1, 1, 1)
  BY YearStarts
<1>4. CASE m = 12
  BY <1>1, <1>2, <1>3, <1>4
<1>5. CASE m < 12
  <2>1. DayNumber(y, m + 1, 1) <= DayNumber(y, 12, 1)
    BY <1>5, MonthsOrdered
  <2>2. DayNumber(y, m + 1, 1) \in Int /\ DayNumber(y, 12, 1) \in Int
    <3>1. PICK k \in 1 .. 12 : k = m + 1
      BY <1>5
    <3>2. DayNumber(y, k, 1) \in Int
      BY FirstOfMonth
    <3>3. DayNumber(y, 12, 1) \in Int
      BY FirstOfMonth
    <3> QED
      BY <3>1, <3>2, <3>3
  <2>3. DayNumber(y, 12 + 1, 1) = DayNumber(y, 12, 1) + DaysIn(y, 12)
    BY MonthLength
  <2>4. DaysIn(y, 12) \in Int /\ 28 <= DaysIn(y, 12)
    BY MonthDays
  <2> QED
    BY <1>1, <1>2, <1>3, <2>1, <2>2, <2>3, <2>4
<1> QED
  BY <1>4, <1>5

(* A later date has a larger number.                                       *)
LEMMA DaysOrdered ==
    ASSUME NEW y \in Int, NEW m \in 1 .. 12, NEW d \in 1 .. 31,
           d <= DaysIn(y, m),
           NEW x \in Int, NEW k \in 1 .. 12, NEW e \in 1 .. 31,
           e <= DaysIn(x, k),
           \/ y < x
           \/ y = x /\ m < k
           \/ y = x /\ m = k /\ d < e
    PROVE  DayNumber(y, m, d) + 1 <= DayNumber(x, k, e)
<1>1. /\ DayNumber(y, m, d) \in Int /\ DayNumber(y, m + 1, 1) \in Int
      /\ DayNumber(y, m, d) + 1 <= DayNumber(y, m + 1, 1)
  BY InItsMonth
<1>2. /\ DayNumber(x, k, e) \in Int /\ DayNumber(x, k, 1) \in Int
      /\ DayNumber(x, k, 1) <= DayNumber(x, k, e)
  BY InItsMonth
<1>3. CASE y < x
  <2>1. DayNumber(y + 1, 1, 1) <= DayNumber(x, 1, 1)
    BY <1>3, YearsOrdered, YearStarts
  <2>2. /\ DayNumber(y, m + 1, 1) <= DayNumber(y + 1, 1, 1)
        /\ DayNumber(y + 1, 1, 1) \in Int
    BY InItsYear
  <2>3. /\ DayNumber(x, 1, 1) <= DayNumber(x, k, 1)
        /\ DayNumber(x, 1, 1) \in Int
    BY InItsYear
  <2> QED
    BY <1>1, <1>2, <2>1, <2>2, <2>3
<1>4. CASE y = x /\ m < k
  <2>1. DayNumber(y, m + 1, 1) <= DayNumber(y, k, 1)
    BY <1>4, MonthsOrdered
  <2> QED
    BY <1>1, <1>2, <1>4, <2>1
<1>5. CASE y = x /\ m = k /\ d < e
  <2>1. DayNumber(y, m, d) = DayNumber(y, m, 1) + d - 1
    BY DaysOfMonth
  <2>2. DayNumber(y, m, e) = DayNumber(y, m, 1) + e - 1
    BY DaysOfMonth
  <2>3. DayNumber(y, m, 1) \in Int
    BY FirstOfMonth
  <2> QED
    BY <1>5, <2>1, <2>2, <2>3
<1> QED
  BY <1>3, <1>4, <1>5

(* Of two days one is before the other.                                    *)
LEMMA DaysCompare ==
    ASSUME NEW c, NEW o, IsDate(c), IsDate(o)
    PROVE  c = o \/ Before(c, o) \/ Before(o, c)
BY DEF IsDate, Before

(* The day after a day has the next number.                                *)
LEMMA NextDayIsNext ==
    ASSUME NEW c, IsDate(c)
    PROVE  Number(NextDay(c)) = Number(c) + 1
<1>1. PICK y \in Int, m \in 1 .. 12, d \in 1 .. 31 :
         y = c.y /\ m = c.m /\ d = c.d /\ d <= DaysIn(y, m)
  BY DEF IsDate
<1>2. /\ DaysIn(y, m) \in Int /\ DayNumber(y, m, 1) \in Int
      /\ DayNumber(y, m, d) = DayNumber(y, m, 1) + d - 1
      /\ DayNumber(y, m, d + 1) = DayNumber(y, m, 1) + (d + 1) - 1
      /\ DayNumber(y, m + 1, 1) = DayNumber(y, m, 1) + DaysIn(y, m)
  <2>1. DaysIn(y, m) \in Int
    BY MonthDays
  <2>2. DayNumber(y, m, 1) \in Int
    BY FirstOfMonth
  <2>3. DayNumber(y, m, d) = DayNumber(y, m, 1) + d - 1
    BY DaysOfMonth
  <2>4. DayNumber(y, m, d + 1) = DayNumber(y, m, 1) + (d + 1) - 1
    BY DaysOfMonth
  <2>5. DayNumber(y, m + 1, 1) = DayNumber(y, m, 1) + DaysIn(y, m)
    BY MonthLength
  <2> QED
    BY <2>1, <2>2, <2>3, <2>4, <2>5
<1>3. Number(c) = DayNumber(y, m, d)
  BY <1>1 DEF Number
<1>4. CASE d < DaysIn(y, m)
  <2>1. NextDay(c) = [c EXCEPT !.d = d + 1]
    BY <1>1, <1>4 DEF NextDay
  <2>2. NextDay(c).y = y /\ NextDay(c).m = m /\ NextDay(c).d = d + 1
    BY <1>1, <2>1 DEF IsDate
  <2> QED
    BY <1>2, <1>3, <2>2 DEF Number
<1>5. CASE d = DaysIn(y, m) /\ m < 12
  <2>1. NextDay(c) = Date(y, m + 1, 1)
    BY <1>1, <1>5 DEF NextDay
  <2>2. NextDay(c).y = y /\ NextDay(c).m = m + 1 /\ NextDay(c).d = 1
    BY <2>1 DEF Date
  <2> QED
    BY <1>2, <1>3, <1>5, <2>2 DEF Number
<1>6. CASE d = DaysIn(y, m) /\ m = 12
  <2>1. NextDay(c) = Date(y + 1, 1, 1)
    BY <1>1, <1>6 DEF NextDay
  <2>2. NextDay(c).y = y + 1 /\ NextDay(c).m = 1 /\ NextDay(c).d = 1
    BY <2>1 DEF Date
  <2>3. DayNumber(y + 1, 1, 1) = DayNumber(y, 12 + 1, 1)
    BY YearStarts
  <2> QED
    BY <1>2, <1>3, <1>6, <2>2, <2>3 DEF Number
<1> QED
  BY <1>1, <1>2, <1>4, <1>5, <1>6

-----------------------------------------------------------------------------
(* Midnights follow each other, whatever the transitions between them.     *)
LEMMA MidnightsOrdered ==
    ASSUME NEW z \in Zone, NEW n \in Int, NEW k \in Int
    PROVE  /\ Midnight(z, n) \in Int
           /\ n <= k => Midnight(z, n) <= Midnight(z, k)
<1>1. \A i \in Int : UTCOffset(z, i) \in {z.std, z.dst}
  BY DEF UTCOffset
<1> QED
  BY <1>1, ZoneAssumption DEF Midnight

(* A window from the midnight of day a to that of day b has the days from  *)
(* a to b - 1 whole, and none of the others.                               *)
LEMMA WindowOfDays ==
    ASSUME NEW z \in Zone, NEW a \in Int, NEW b \in Int, NEW n \in Int
    PROVE  /\ a <= n /\ n + 1 <= b
                => /\ Midnight(z, a) <= Midnight(z, n)
                   /\ Midnight(z, n + 1) <= Midnight(z, b)
           /\ n + 1 <= a => Midnight(z, n + 1) <= Midnight(z, a)
           /\ b <= n => Midnight(z, b) <= Midnight(z, n)
BY MidnightsOrdered

-----------------------------------------------------------------------------
(* The windows of resolveWindow.                                           *)

(* A date has a number.                                                    *)
LEMMA NumberIsInt ==
    ASSUME NEW c, IsDate(c)
    PROVE  Number(c) \in Int
<1>1. PICK y \in Int, m \in 1 .. 12, d \in 1 .. 31 :
         y = c.y /\ m = c.m /\ d = c.d /\ d <= DaysIn(y, m)
  BY DEF IsDate
<1>2. DayNumber(y, m, d) \in Int
  BY <1>1, InItsMonth
<1> QED
  BY <1>1, <1>2 DEF Number

(* A date before another one is numbered at least a day less.              *)
LEMMA BeforeIsLess ==
    ASSUME NEW c, NEW o, IsDate(c), IsDate(o), Before(c, o)
    PROVE  Number(c) + 1 <= Number(o)
<1>1. PICK y \in Int, m \in 1 .. 12, d \in 1 .. 31 :
         y = c.y /\ m = c.m /\ d = c.d /\ d <= DaysIn(y, m)
  BY DEF IsDate
<1>2. PICK x \in Int, k \in 1 .. 12, e \in 1 .. 31 :
         x = o.y /\ k = o.m /\ e = o.d /\ e <= DaysIn(x, k)
  BY DEF IsDate
<1>3. \/ y < x
      \/ y = x /\ m < k
      \/ y = x /\ m = k /\ d < e
  BY <1>1, <1>2 DEF Before
<1>4. DayNumber(y, m, d) + 1 <= DayNumber(x, k, e)
  BY <1>1, <1>2, <1>3, DaysOrdered
<1> QED
  BY <1>1, <1>2, <1>4 DEF Number

(* Day c is inside the window if the query asks for it, and outside if not.*)
Covers(in, window, c) ==
    LET midnight == Midnight(in.tz, Number(c))
        next == Midnight(in.tz, Number(c) + 1) IN
    /\ window.start \in Int /\ window.end \in Int
    /\ IF AskedFor(in, c)
       THEN window.start <= midnight /\ next <= window.end
       ELSE next <= window.start \/ window.end <= midnight

(* A window between two midnights is the days between them.                *)
LEMMA WindowCovers ==
    ASSUME NEW in, in.tz \in Zone, NEW a \in Int, NEW b \in Int,
           NEW c, IsDate(c),
           AskedFor(in, c) => a <= Number(c) /\ Number(c) + 1 <= b,
           ~ AskedFor(in, c) => Number(c) + 1 <= a \/ b <= Number(c)
    PROVE  Covers(in, UtcWindow(Midnight(in.tz, a), Midnight(in.tz, b)), c)
<1>1. Number(c) \in Int
  BY NumberIsInt
<1>2. PICK z \in Zone, n \in Int : z = in.tz /\ n = Number(c)
  BY <1>1
<1>3. /\ a <= n /\ n + 1 <= b
           => /\ Midnight(z, a) <= Midnight(z, n)
              /\ Midnight(z, n + 1) <= Midnight(z, b)
      /\ n + 1 <= a => Midnight(z, n + 1) <= Midnight(z, a)
      /\ b <= n => Midnight(z, b) <= Midnight(z, n)
  BY WindowOfDays
<1>4. PICK w : w = UtcWindow(Midnight(z, a), Midnight(z, b))
  OBVIOUS
<1>5. w.start = Midnight(z, a) /\ w.end = Midnight(z, b)
  BY <1>4 DEF UtcWindow
<1>6. Midnight(z, a) \in Int /\ Midnight(z, b) \in Int
  BY MidnightsOrdered
<1> QED
  BY <1>2, <1>3, <1>4, <1>5, <1>6 DEF Covers

(* por_dia and por_rango.                                                  *)
LEMMA RangeWindow ==
    ASSUME NEW z \in Zone, NEW from, NEW to, IsDate(from), IsDate(to),
           NEW in, in.tz = z, NEW c, IsDate(c),
           AskedFor(in, c) <=> ~ Before(c, from) /\ ~ Before(to, c)
    PROVE  Covers(in, UtcWindow(TimeDate(from.y, from.m, from.d, z),
                                TimeDate(to.y, to.m, to.d + 1, z)), c)
<1>1. /\ Number(c) \in Int /\ Number(from) \in Int /\ Number(to) \in Int
  BY NumberIsInt
<1>2. DayNumber(to.y, to.m, to.d + 1) = Number(to) + 1
  <2>1. PICK y \in Int, m \in 1 .. 12, d \in Int : y = to.y /\ m = to.m /\ d = to.d
    BY DEF IsDate
  <2>2. DayNumber(y, m, d) = DayNumber(y, m, 1) + d - 1
    BY DaysOfMonth
  <2>3. DayNumber(y, m, d + 1) = DayNumber(y, m, 1) + (d + 1) - 1
    BY DaysOfMonth
  <2>4. DayNumber(y, m, 1) \in Int
    BY FirstOfMonth
  <2> QED
    BY <2>1, <2>2, <2>3, <2>4 DEF Number
<1>3. ASSUME AskedFor(in, c)
      PROVE  Number(from) <= Number(c) /\ Number(c) + 1 <= Number(to) + 1
  <2>1. c = from \/ Number(from) + 1 <= Number(c)
    BY <1>3, DaysCompare, BeforeIsLess
  <2>2. c = to \/ Number(c) + 1 <= Number(to)
    BY <1>3, DaysCompare, BeforeIsLess
  <2> QED
    BY <1>1, <2>1, <2>2
<1>4. ASSUME ~ AskedFor(in, c)
      PROVE  Number(c) + 1 <= Number(from) \/ Number(to) + 1 <= Number(c)
  BY <1>4, BeforeIsLess
<1>5. PICK a \in Int, b \in Int : a = Number(from) /\ b = Number(to) + 1
  BY <1>1
<1>6. Covers(in, UtcWindow(Midnight(in.tz, a), Midnight(in.tz, b)), c)
  BY <1>3, <1>4, <1>5, WindowCovers
<1> QED
  BY <1>2, <1>5, <1>6 DEF TimeDate, Number

(* por_mes.                                                                *)
LEMMA MonthWindow ==
    ASSUME NEW z \in Zone, NEW y \in Int, NEW m \in 1 .. 12,
           NEW in, in.tz = z, NEW c, IsDate(c),
           AskedFor(in, c) <=> c.y = y /\ c.m = m
    PROVE  Covers(in, UtcWindow(TimeDate(y, m, 1, z), TimeDate(y, m + 1, 1, z)), c)
<1>1. PICK x \in Int, k \in 1 .. 12, d \in 1 .. 31 :
         x = c.y /\ k = c.m /\ d = c.d /\ d <= DaysIn(x, k)
  BY DEF IsDate
<1>2. PICK last : last = DaysIn(y, m)
  OBVIOUS
<1>3. last \in 1 .. 31 /\ last <= DaysIn(y, m)
  BY <1>2 DEF DaysIn
<1>4. 1 <= DaysIn(y, m)
  BY <1>2, <1>3
<1>5. /\ DayNumber(y, m, 1) \in Int /\ DayNumber(y, m + 1, 1) \in Int
      /\ DayNumber(y, m, last) + 1 = DayNumber(y, m + 1, 1)
  <2>1. DayNumber(y, m + 1, 1) = DayNumber(y, m, 1) + DaysIn(y, m)
    BY MonthLength
  <2>2. DayNumber(y, m, 1) \in Int
    BY FirstOfMonth
  <2>3. DayNumber(y, m, last) = DayNumber(y, m, 1) + last - 1
    BY <1>3, DaysOfMonth
  <2>4. DayNumber(y, m + 1, 1) \in Int
    BY MonthLength
  <2> QED
    BY <1>2, <1>3, <2>1, <2>2, <2>3, <2>4
<1>6. PICK n \in Int : n = DayNumber(x, k, d) /\ n = Number(c)
  BY <1>1, NumberIsInt DEF Number
<1>7. CASE x = y /\ k = m
  <2>1. /\ DayNumber(x, k, 1) <= DayNumber(x, k, d)
        /\ DayNumber(x, k, d) + 1 <= DayNumber(x, k + 1, 1)
    BY <1>1, InItsMonth
  <2>2. PICK a \in Int, b \in Int :
           a = DayNumber(y, m, 1) /\ b = DayNumber(y, m + 1, 1)
    BY <1>5
  <2>3. AskedFor(in, c) /\ a <= n /\ n + 1 <= b
    BY <1>1, <1>6, <1>7, <2>1, <2>2
  <2>4. Covers(in, UtcWindow(Midnight(in.tz, a), Midnight(in.tz, b)), c)
    BY <1>6, <2>3, WindowCovers
  <2> QED
    BY <2>2, <2>4 DEF TimeDate
<1>8. CASE ~ (x = y /\ k = m)
  <2>1. PICK a \in Int, b \in Int :
           a = DayNumber(y, m, 1) /\ b = DayNumber(y, m + 1, 1)
    BY <1>5
  <2>2. ASSUME x < y \/ (x = y /\ k < m)
        PROVE  n + 1 <= a
    <3>1. PICK one \in 1 .. 31 : one = 1
      OBVIOUS
    <3>2. DayNumber(x, k, d) + 1 <= DayNumber(y, m, one)
      BY <1>1, <1>4, <2>2, <3>1, DaysOrdered
    <3> QED
      BY <1>6, <2>1, <3>1, <3>2
  <2>3. ASSUME y < x \/ (x = y /\ m < k)
        PROVE  b <= n
    <3>1. DayNumber(y, m, last) + 1 <= DayNumber(x, k, d)
      BY <1>1, <1>3, <2>3, DaysOrdered
    <3> QED
      BY <1>5, <1>6, <2>1, <3>1
  <2>4. n + 1 <= a \/ b <= n
    BY <1>8, <2>2, <2>3
  <2>5. Covers(in, UtcWindow(Midnight(in.tz, a), Midnight(in.tz, b)), c)
    BY <1>1, <1>6, <1>8, <2>4, WindowCovers
  <2> QED
    BY <2>1, <2>5 DEF TimeDate
<1> QED
  BY <1>7, <1>8

(* por_anio.                                                               *)
LEMMA YearWindow ==
    ASSUME NEW z \in Zone, NEW y \in Int,
           NEW in, in.tz = z, NEW c, IsDate(c),
           AskedFor(in, c) <=> c.y = y
    PROVE  Covers(in, UtcWindow(TimeDate(y, 1, 1, z), TimeDate(y + 1, 1, 1, z)), c)
<1>1. PICK x \in Int, k \in 1 .. 12, d \in 1 .. 31 :
         x = c.y /\ k = c.m /\ d = c.d /\ d <= DaysIn(x, k)
  BY DEF IsDate
<1>2. PICK n \in Int : n = DayNumber(x, k, d) /\ n = Number(c)
  BY <1>1, NumberIsInt DEF Number
<1>3. /\ DayNumber(x, k, 1) \in Int /\ DayNumber(x, k + 1, 1) \in Int
      /\ DayNumber(x, k, 1) <= n /\ n + 1 <= DayNumber(x, k + 1, 1)
  BY <1>1, <1>2, InItsMonth
<1>4. /\ DayNumber(x, 1, 1) <= DayNumber(x, k, 1)
      /\ DayNumber(x, k + 1, 1) <= DayNumber(x + 1, 1, 1)
      /\ DayNumber(x, 1, 1) \in Int /\ DayNumber(x + 1, 1, 1) \in Int
  BY InItsYear
<1>5. DayNumber(x, 1, 1) <= n /\ n + 1 <= DayNumber(x + 1, 1, 1)
  BY <1>3, <1>4
<1>6. PICK a \in Int, b \in Int :
         a = DayNumber(y, 1, 1) /\ b = DayNumber(y + 1, 1, 1)
  BY InItsYear
<1>7. x = y => a <= n /\ n + 1 <= b
  BY <1>5, <1>6
<1>8. x < y => n + 1 <= a
  <2>1. x < y => DayNumber(x + 1, 1, 1) <= DayNumber(y, 1, 1)
    BY YearsOrdered, YearStarts
  <2> QED
    BY <1>4, <1>5, <1>6, <2>1
<1>9. y < x => b <= n
  <2>1. y < x => DayNumber(y + 1, 1, 1) <= DayNumber(x, 1, 1)
    BY YearsOrdered, YearStarts
  <2> QED
    BY <1>4, <1>5, <1>6, <2>1
<1>10. /\ AskedFor(in, c) => a <= n /\ n + 1 <= b
       /\ ~ AskedFor(in, c) => n + 1 <= a \/ b <= n
  BY <1>1, <1>7, <1>8, <1>9
<1>11. Covers(in, UtcWindow(Midnight(in.tz, a), Midnight(in.tz, b)), c)
  BY <1>2, <1>10, WindowCovers
<1> QED
  BY <1>6, <1>11 DEF TimeDate

(* Every window is of whole days, those asked for.                         *)
LEMMA WindowsAreWhole ==
    ASSUME NEW in \in Period, ResolveWindow(in).code = "ok",
           ResolveWindow(in).has, NEW c, IsDate(c)
    PROVE  Covers(in, ResolveWindow(in), c)
<1>1. in.tz # UnknownZone
  BY DEF ResolveWindow, Invalid, NoWindow
<1>2. Invalid.code # "ok" /\ ~ NoWindow.has
  BY DEF Invalid, NoWindow
<1>3. ASSUME in.mode = "" \/ in.mode = "semanal"
      PROVE  FALSE
  BY <1>1, <1>2, <1>3 DEF ResolveWindow
<1>4. ASSUME NEW z \in Zone \cup {UnknownZone}, NEW o \in DateIn \cup {BadDate},
             in = [mode |-> "por_dia", tz |-> z, date |-> o]
      PROVE  Covers(in, ResolveWindow(in), c)
  <2>1. in.mode = "por_dia" /\ in.tz = z /\ in.date = o /\ z \in Zone
    BY <1>1, <1>4
  <2>2. ResolveWindow(in) = PorDia(in)
    BY <1>1, <2>1 DEF ResolveWindow
  <2>3. o # BadDate
    BY <1>2, <2>1, <2>2 DEF PorDia
  <2>4. IsDate(o)
    BY <2>3, InputDateAssumption
  <2>5. AskedFor(in, c) <=> ~ Before(c, o) /\ ~ Before(o, c)
    <3>1. AskedFor(in, c) <=> c = o
      BY <2>1 DEF AskedFor
    <3>2. ~ Before(o, o)
      BY <2>4 DEF IsDate, Before
    <3> QED
      BY <2>4, <3>1, <3>2, DaysCompare
  <2>6. Covers(in, UtcWindow(TimeDate(o.y, o.m, o.d, z),
                             TimeDate(o.y, o.m, o.d + 1, z)), c)
    BY <2>1, <2>4, <2>5, RangeWindow
  <2> QED
    BY <2>1, <2>2, <2>3, <2>6 DEF PorDia
<1>5. ASSUME NEW z \in Zone \cup {UnknownZone}, NEW from \in DateIn \cup {BadDate},
             NEW to \in DateIn \cup {BadDate},
             in = [mode |-> "por_rango", tz |-> z, from |-> from, to |-> to]
      PROVE  Covers(in, ResolveWindow(in), c)
  <2>1. /\ in.mode = "por_rango" /\ in.tz = z /\ in.from = from /\ in.to = to
        /\ z \in Zone
    BY <1>1, <1>5
  <2>2. ResolveWindow(in) = PorRango(in)
    BY <1>1, <2>1 DEF ResolveWindow
  <2>3. from # BadDate /\ to # BadDate
    BY <1>2, <2>1, <2>2 DEF PorRango
  <2>4. ~ Before(to, from)
    BY <1>2, <2>1, <2>2 DEF PorRango
  <2>5. IsDate(from) /\ IsDate(to)
    BY <2>3, InputDateAssumption
  <2>6. AskedFor(in, c) <=> ~ Before(c, from) /\ ~ Before(to, c)
    BY <2>1 DEF AskedFor
  <2>7. Covers(in, UtcWindow(TimeDate(from.y, from.m, from.d, z),
                             TimeDate(to.y, to.m, to.d + 1, z)), c)
    BY <2>1, <2>5, <2>6, RangeWindow
  <2> QED
    BY <2>1, <2>2, <2>3, <2>4, <2>7 DEF PorRango
<1>6. ASSUME NEW z \in Zone \cup {UnknownZone}, NEW y \in YearIn,
             NEW m \in MonthIn,
             in = [mode |-> "por_mes", tz |-> z, year |-> y, month |-> m]
      PROVE  Covers(in, ResolveWindow(in), c)
  <2>1. /\ in.mode = "por_mes" /\ in.tz = z /\ in.year = y /\ in.month = m
        /\ z \in Zone /\ y \in Int
    BY <1>1, <1>6, InputDateAssumption
  <2>2. ResolveWindow(in) = PorMes(in)
    BY <1>1, <2>1 DEF ResolveWindow
  <2>3. ~ (in.year < 1) /\ m \in 1 .. 12
    BY <1>2, <2>1, <2>2 DEF PorMes
  <2>4. AskedFor(in, c) <=> c.y = y /\ c.m = m
    BY <2>1 DEF AskedFor
  <2>5. Covers(in, UtcWindow(TimeDate(y, m, 1, z), TimeDate(y, m + 1, 1, z)), c)
    BY <2>1, <2>3, <2>4, MonthWindow
  <2> QED
    BY <2>1, <2>2, <2>3, <2>5 DEF PorMes
<1>7. ASSUME NEW z \in Zone \cup {UnknownZone}, NEW y \in YearIn,
             in = [mode |-> "por_anio", tz |-> z, year |-> y]
      PROVE  Covers(in, ResolveWindow(in), c)
  <2>1. in.mode = "por_anio" /\ in.tz = z /\ in.year = y /\ z \in Zone /\ y \in Int
    BY <1>1, <1>7, InputDateAssumption
  <2>2. ResolveWindow(in) = PorAnio(in)
    BY <1>1, <2>1 DEF ResolveWindow
  <2>3. ~ (in.year < 1)
    BY <1>2, <2>1, <2>2 DEF PorAnio
  <2>4. AskedFor(in, c) <=> c.y = y
    BY <2>1 DEF AskedFor
  <2>5. Covers(in, UtcWindow(TimeDate(y, 1, 1, z), TimeDate(y + 1, 1, 1, z)), c)
    BY <2>1, <2>4, YearWindow
  <2> QED
    BY <2>1, <2>2, <2>3, <2>5 DEF PorAnio
<1>8. in.mode # "" /\ in.mode # "semanal"
  BY <1>3
<1> QED
  BY <1>4, <1>5, <1>6, <1>7, <1>8 DEF Period

-----------------------------------------------------------------------------
(* The windows of the queries that are answered.                           *)

(* The period of the request that was answered last, if it was let         *)
(* through, is one of those a request can bring.                           *)
AskedOK ==
    /\ asked = [page |-> asked.page, size |-> asked.size, sort |-> asked.sort,
                period |-> asked.period, filter |-> asked.filter]
    /\ reply.code = "ok" =>
          asked.period \in Period /\ ResolveWindow(asked.period).code = "ok"

(* A response without an error is to a query that parses, whose window     *)
(* resolves.                                                               *)
LEMMA OnlyValidIsAnswered ==
    ASSUME NEW in, NEW r, r.code = "ok",
           r \in QueryEvents(in) \/ r \in ExportEvents(in)
    PROVE  ParsesOK(in) /\ ResolveWindow(in.period).code = "ok"
<1>1. \A code : Fail(code).code = code
  BY DEF Fail, NoReply
<1>2. CASE r \in QueryEvents(in)
  BY <1>1, <1>2 DEF QueryEvents
<1>3. CASE r \in ExportEvents(in)
  BY <1>1, <1>3 DEF ExportEvents
<1> QED
  BY <1>2, <1>3

(* It holds at the start.                                                  *)
LEMMA AskedOKInit == QueryInit => AskedOK
<1>1. NoReply.code # "ok"
  BY DEF NoReply
<1>2. NoInput = [page |-> NoInput.page, size |-> NoInput.size,
                 sort |-> NoInput.sort, period |-> NoInput.period,
                 filter |-> NoInput.filter]
  BY DEF NoInput
<1> QED
  BY <1>1, <1>2, Zenon DEF QueryInit, AskedOK

(* Every query keeps it.                                                   *)
LEMMA AskedOKNext == AskedOK /\ [QueryNext]_queryVars => AskedOK'
<1> SUFFICES ASSUME AskedOK, [QueryNext]_queryVars
             PROVE  AskedOK'
  OBVIOUS
<1>1. CASE UNCHANGED queryVars
  BY <1>1 DEF queryVars, AskedOK
<1>2. CASE Ask \/ Export
  <2>1. PICK in \in Input : asked' = in /\ (reply' \in QueryEvents(in)
                                              \/ reply' \in ExportEvents(in))
    BY <1>2 DEF Ask, Export
  <2>2. in = [page |-> in.page, size |-> in.size, sort |-> in.sort,
              period |-> in.period, filter |-> in.filter]
    BY InputAssumption
  <2>3. reply'.code = "ok"
           => ParsesOK(in) /\ ResolveWindow(in.period).code = "ok"
    BY <2>1, OnlyValidIsAnswered
  <2> QED
    BY <2>1, <2>2, <2>3, InputAssumption DEF AskedOK
<1>3. CASE NextPage
  <2>1. PICK in : in = [asked EXCEPT !.page = reply.page + 1]
    OBVIOUS
  <2>2. /\ in.period = asked.period
        /\ in = [page |-> in.page, size |-> in.size, sort |-> in.sort,
                 period |-> in.period, filter |-> in.filter]
    BY <2>1 DEF AskedOK
  <2>3. asked' = in /\ reply.code = "ok"
    BY <1>3, <2>1 DEF NextPage
  <2> QED
    BY <2>2, <2>3 DEF AskedOK
<1> QED
  BY <1>1, <1>2, <1>3 DEF QueryNext

(* An answered query takes its events from the days it asks for: each day  *)
(* of the calendar, of 23, 24 or 25 hours, is in the window as a whole or  *)
(* not at all, for every zone and every date, month and year.              *)
THEOREM WindowsAreDaysAskedFor == QuerySpec => []WholeDaysAskedFor
<1>1. AskedOK => WholeDaysAskedFor
  <2> SUFFICES ASSUME AskedOK, reply.code = "ok", NEW c \in Days
               PROVE  /\ Number(NextDay(c)) = Number(c) + 1
                      /\ ResolveWindow(asked.period).has
                            => Covers(asked.period, ResolveWindow(asked.period), c)
    BY DEF WholeDaysAskedFor, Number, Covers
  <2>1. IsDate(c)
    BY DEF Days
  <2>2. PICK in \in Period : in = asked.period
    BY DEF AskedOK
  <2>3. ResolveWindow(in).code = "ok"
    BY <2>2 DEF AskedOK
  <2> QED
    BY <2>1, <2>2, <2>3, NextDayIsNext, WindowsAreWhole
<1> QED
  BY <1>1, AskedOKInit, AskedOKNext, PTL DEF QuerySpec
-----------------------------------------------------------------------------
(* ORDER BY: a set of rows has one order.                                  *)

TableOK ==
    /\ DOMAIN table \subseteq RowId
    /\ \A i \in DOMAIN table : table[i] \in Row

Sortable(sort) == sort[1] \in DOMAIN SortColumns

(* The id decides between equal keys: of two rows one precedes the other.  *)
LEMMA PrecedesIsTotalOrder ==
    ASSUME TableOK, NEW sort, Sortable(sort),
           NEW i \in DOMAIN table, NEW j \in DOMAIN table,
           NEW k \in DOMAIN table
    PROVE  /\ ~ Precedes(sort, i, i)
           /\ Precedes(sort, i, j) => ~ Precedes(sort, j, i)
           /\ Precedes(sort, i, j) /\ Precedes(sort, j, k) => Precedes(sort, i, k)
           /\ i = j \/ Precedes(sort, i, j) \/ Precedes(sort, j, i)
<1>1. i \in Int /\ j \in Int /\ k \in Int
  BY QueryAssumption DEF TableOK
<1>2. PICK col : col = SortColumns[sort[1]]
  OBVIOUS
<1>3. table[i][col] \in Int /\ table[j][col] \in Int /\ table[k][col] \in Int
  BY <1>2, RowAssumption DEF TableOK, Sortable
<1>4. \A a, b : Precedes(sort, a, b) <=>
         \/ IF sort[2] = "asc" THEN table[a][col] < table[b][col]
                               ELSE table[a][col] > table[b][col]
         \/ table[a][col] = table[b][col] /\ a < b
  BY <1>2 DEF Precedes
<1> QED
  BY <1>1, <1>3, <1>4

(* An ordered result has every matching row once.                          *)
LEMMA OrderEnumerates ==
    ASSUME NEW I, IsFiniteSet(I), NEW sort, NEW s \in Orders(I, sort)
    PROVE  /\ Cardinality(I) \in Nat
           /\ s \in [1 .. Cardinality(I) -> I]
           /\ s \in Seq(I) /\ Len(s) = Cardinality(I)
           /\ \A m, n \in 1 .. Cardinality(I) : s[m] = s[n] => m = n
           /\ \A i \in I : \E m \in 1 .. Cardinality(I) : s[m] = i
           /\ \A m, n \in 1 .. Cardinality(I) :
                 m < n => Precedes(sort, s[m], s[n])
<1>1. PICK n \in Nat : n = Cardinality(I)
  BY FS_CardinalityType
<1>2. /\ s \in [1 .. n -> I]
      /\ \A a, b \in 1 .. n : a # b => s[a] # s[b]
      /\ \A a, b \in DOMAIN s : a < b => Precedes(sort, s[a], s[b])
  BY <1>1 DEF Orders, SetToSeqs
<1>3. s \in Injection(1 .. n, I)
  BY <1>2, Fun_IsInj
<1>4. IsFiniteSet(1 .. n) /\ Cardinality(1 .. n) = n
  <2>1. IsFiniteSet(1 .. n) /\ Cardinality(1 .. n) = IF 1 > n THEN 0 ELSE n - 1 + 1
    BY FS_Interval
  <2> QED
    BY <2>1
<1>5. s \in Surjection(1 .. n, I)
  BY <1>1, <1>3, <1>4, FS_Injection
<1>6. \A i \in I : \E m \in 1 .. n : s[m] = i
  BY <1>5, Fun_SurjectionProperties
<1>7. s \in Seq(I) /\ Len(s) = n
  BY <1>2
<1> QED
  BY <1>1, <1>2, <1>6, <1>7

(* As many rows precede the one in the m-th place as there are places.     *)
LEMMA PlaceIsRank ==
    ASSUME TableOK, NEW sort, Sortable(sort),
           NEW I \in SUBSET DOMAIN table, IsFiniteSet(I),
           NEW s \in Orders(I, sort), NEW m \in 1 .. Cardinality(I)
    PROVE  Cardinality({j \in I : Precedes(sort, j, s[m])}) = m - 1
<1>1. PICK n \in Nat : n = Cardinality(I)
  BY OrderEnumerates
<1>2. /\ s \in [1 .. n -> I]
      /\ \A a, b \in 1 .. n : s[a] = s[b] => a = b
      /\ \A i \in I : \E a \in 1 .. n : s[a] = i
      /\ \A a, b \in 1 .. n : a < b => Precedes(sort, s[a], s[b])
  BY <1>1, OrderEnumerates
<1> DEFINE P == {j \in I : Precedes(sort, j, s[m])}
           f == [k \in 1 .. m - 1 |-> s[k]]
<1>3. f \in [1 .. m - 1 -> P]
  <2> SUFFICES ASSUME NEW k \in 1 .. m - 1
               PROVE  s[k] \in P
    OBVIOUS
  <2>1. k \in 1 .. n /\ m \in 1 .. n /\ k < m
    BY <1>1
  <2> QED
    BY <1>2, <2>1
<1>4. \A a, b \in 1 .. m - 1 : f[a] = f[b] => a = b
  BY <1>1, <1>2
<1>5. \A j \in P : \E k \in 1 .. m - 1 : f[k] = j
  <2> SUFFICES ASSUME NEW j \in P
               PROVE  \E k \in 1 .. m - 1 : s[k] = j
    OBVIOUS
  <2>1. PICK k \in 1 .. n : s[k] = j
    BY <1>2
  <2>2. s[m] \in DOMAIN table /\ j \in DOMAIN table
    BY <1>1, <1>2
  <2>3. ~ Precedes(sort, s[m], s[k]) /\ k # m
    BY <2>1, <2>2, PrecedesIsTotalOrder
  <2>4. k < m
    BY <1>1, <1>2, <2>3
  <2> QED
    BY <2>1, <2>4
<1>6. f \in Bijection(1 .. m - 1, P)
  BY <1>3, <1>4, <1>5, Fun_IsBij
<1>7. PICK p \in Nat : p = m - 1
  OBVIOUS
<1>8. Cardinality(P) = p
  BY <1>6, <1>7, FS_CountingElements DEF ExistsBijection
<1> QED
  BY <1>7, <1>8

(* Every SELECT returns the rows in the same order.                        *)
LEMMA OrderIsUnique ==
    ASSUME TableOK, NEW sort, Sortable(sort),
           NEW I \in SUBSET DOMAIN table, IsFiniteSet(I),
           NEW s \in Orders(I, sort), NEW t \in Orders(I, sort)
    PROVE  s = t
<1>1. PICK n \in Nat : n = Cardinality(I)
  BY OrderEnumerates
<1>2. s \in [1 .. n -> I] /\ t \in [1 .. n -> I]
  BY <1>1, OrderEnumerates
<1>3. \A i \in I : \E a \in 1 .. n : t[a] = i
  BY <1>1, OrderEnumerates
<1>4. ASSUME NEW m \in 1 .. n
      PROVE  s[m] = t[m]
  <2>1. PICK k \in 1 .. n : t[k] = s[m]
    BY <1>2, <1>3
  <2>2. Cardinality({j \in I : Precedes(sort, j, s[m])}) = m - 1
    BY <1>1, PlaceIsRank
  <2>3. Cardinality({j \in I : Precedes(sort, j, t[k])}) = k - 1
    BY <1>1, PlaceIsRank
  <2>4. k = m
    BY <2>1, <2>2, <2>3
  <2> QED
    BY <2>1, <2>4
<1> QED
  BY <1>2, <1>4

-----------------------------------------------------------------------------
(* Pages.                                                                  *)

(* Powers of two, counted as the subsets of an interval.                   *)
LEMMA PowersOfTwo ==
    ASSUME NEW n \in Nat
    PROVE  2^n \in Nat /\ 2^n >= 1 /\ 2^(n + 1) >= 2 * 2^n
<1> DEFINE D == 1 .. n
           A == SUBSET D
           B == {T \cup {n + 1} : T \in A}
<1>1. /\ IsFiniteSet(D) /\ Cardinality(D) = n
      /\ IsFiniteSet(1 .. n + 1) /\ Cardinality(1 .. n + 1) = n + 1
  <2>1. PICK k \in Nat : k = n + 1
    OBVIOUS
  <2>2. IsFiniteSet(D) /\ Cardinality(D) = IF 1 > n THEN 0 ELSE n - 1 + 1
    BY FS_Interval
  <2>3. IsFiniteSet(1 .. k) /\ Cardinality(1 .. k) = IF 1 > k THEN 0 ELSE k - 1 + 1
    BY FS_Interval
  <2> QED
    BY <2>1, <2>2, <2>3
<1>2. IsFiniteSet(A) /\ Cardinality(A) = 2^n
  BY <1>1, FS_SUBSET
<1>3. /\ IsFiniteSet(SUBSET (1 .. n + 1))
      /\ Cardinality(SUBSET (1 .. n + 1)) = 2^(n + 1)
  BY <1>1, FS_SUBSET
<1>4. Cardinality(A) \in Nat /\ Cardinality(A) >= 1
  <2>1. Cardinality(A) \in Nat
    BY <1>2, FS_CardinalityType
  <2>2. {} \in A
    OBVIOUS
  <2>3. Cardinality(A) # 0
    BY <1>2, <2>2, FS_EmptySet
  <2> QED
    BY <2>1, <2>3
<1>5. IsFiniteSet(B) /\ Cardinality(B) = Cardinality(A)
  <2> DEFINE f == [T \in A |-> T \cup {n + 1}]
  <2>1. f \in [A -> B]
    OBVIOUS
  <2>2. \A S, T \in A : f[S] = f[T] => S = T
    <3> SUFFICES ASSUME NEW S \in A, NEW T \in A, f[S] = f[T], NEW x
                 PROVE  x \in S <=> x \in T
      OBVIOUS
    <3>1. S \cup {n + 1} = T \cup {n + 1}
      OBVIOUS
    <3>2. n + 1 \notin S /\ n + 1 \notin T
      OBVIOUS
    <3> QED
      BY <3>1, <3>2
  <2>3. \A y \in B : \E T \in A : f[T] = y
    OBVIOUS
  <2>4. f \in Bijection(A, B)
    BY <2>1, <2>2, <2>3, Fun_IsBij
  <2> QED
    BY <1>2, <2>4, FS_Bijection DEF ExistsBijection
<1>6. A \cap B = {}
  <2> SUFFICES ASSUME NEW S \in A, NEW T \in A, S = T \cup {n + 1}
               PROVE  FALSE
    OBVIOUS
  <2>1. n + 1 \in S
    OBVIOUS
  <2> QED
    BY <2>1
<1>7. IsFiniteSet(A \cup B) /\ Cardinality(A \cup B) = 2 * Cardinality(A)
  <2>1. Cardinality(A \cup B)
          = Cardinality(A) + Cardinality(B) - Cardinality(A \cap B)
    BY <1>2, <1>5, FS_Union
  <2>2. Cardinality(A \cap B) = 0
    BY <1>6, FS_EmptySet
  <2>3. IsFiniteSet(A \cup B)
    BY <1>2, <1>5, FS_Union
  <2>4. PICK k \in Nat : k = Cardinality(A)
    BY <1>4
  <2>5. Cardinality(A \cup B) = k + k - 0
    BY <1>5, <2>1, <2>2, <2>4
  <2> QED
    BY <2>3, <2>4, <2>5
<1>8. A \cup B \subseteq SUBSET (1 .. n + 1)
  <2>1. D \cup {n + 1} \subseteq 1 .. n + 1
    OBVIOUS
  <2> QED
    BY <2>1
<1>9. Cardinality(A \cup B) <= Cardinality(SUBSET (1 .. n + 1))
  BY <1>3, <1>8, FS_Subset
<1> QED
  BY <1>2, <1>3, <1>4, <1>7, <1>9

(* The number of pages is the least that holds all the rows.               *)
LEMMA PagesHoldAll ==
    ASSUME NEW total \in Nat, NEW size \in Nat \ {0}, NEW page \in Nat
    PROVE  /\ page < CeilDiv(total, size) => page * size < total
           /\ page >= CeilDiv(total, size) => page * size >= total
<1>1. CASE total = 0
  <2>1. CeilDiv(total, size) = 0
    BY <1>1 DEF CeilDiv
  <2>2. page * size \in Nat
    OBVIOUS
  <2> QED
    BY <1>1, <2>1, <2>2
<1>2. CASE total > 0
  <2>1. PICK q \in Nat : q = CeilDiv(total, size)
    <3>1. (total + size - 1) \div size \in Nat
      OBVIOUS
    <3> QED
      BY <1>2, <3>1 DEF CeilDiv
  <2>2. q = (total + size - 1) \div size
    BY <1>2, <2>1 DEF CeilDiv
  <2>3. q * size <= total + size - 1 /\ total + size - 1 < q * size + size
    BY <2>2
  <2>4. ASSUME page < q
        PROVE  page * size + size <= q * size
    <3>1. PICK d \in Nat : q = page + 1 + d
      <4>1. q - page - 1 \in Nat /\ q = page + 1 + (q - page - 1)
        BY <2>4
      <4> QED
        BY <4>1
    <3>2. q * size = page * size + size + d * size /\ d * size >= 0
      BY <3>1
    <3>3. page * size \in Nat /\ d * size \in Nat
      OBVIOUS
    <3> QED
      BY <3>2, <3>3
  <2>5. ASSUME page >= q
        PROVE  q * size <= page * size
    <3>1. PICK d \in Nat : page = q + d
      <4>1. page - q \in Nat /\ page = q + (page - q)
        BY <2>5
      <4> QED
        BY <4>1
    <3>2. page * size = q * size + d * size /\ d * size >= 0
      BY <3>1
    <3>3. q * size \in Nat /\ d * size \in Nat
      OBVIOUS
    <3> QED
      BY <3>2, <3>3
  <2>6. page * size \in Nat /\ q * size \in Nat
    OBVIOUS
  <2> QED
    BY <2>1, <2>3, <2>4, <2>5, <2>6
<1> QED
  BY <1>1, <1>2

(* An int holds the numbers up to the number of rows.                      *)
LEMMA IntHoldsOffset ==
    ASSUME NEW x \in Nat, x < 2^(IntBits - 1)
    PROVE  Wrap(x) = x
<1>1. PICK b \in Nat : b = IntBits - 1
  BY QueryAssumption
<1>2. 2^b \in Nat /\ 2^b >= 1 /\ 2^(b + 1) >= 2 * 2^b
  BY PowersOfTwo
<1>3. b + 1 \in Nat /\ b + 1 = IntBits
  BY <1>1, QueryAssumption
<1>4. PICK k \in Nat : k = b + 1
  BY <1>3
<1>5. 2^k \in Nat
  BY PowersOfTwo
<1>6. PICK h \in Nat, m \in Nat : h = 2^b /\ m = 2^k /\ m >= 2 * h /\ h >= 1
  BY <1>2, <1>4, <1>5
<1>7. Wrap(x) = ((x + h) % m) - h
  BY <1>1, <1>3, <1>4, <1>6 DEF Wrap
<1>8. x < h
  BY <1>1, <1>6
<1>9. (x + h) % m = x + h
  BY <1>6, <1>8
<1> QED
  BY <1>6, <1>7, <1>9

(* An int that wraps is one.                                               *)
LEMMA WrapIsInt ==
    ASSUME NEW x \in Int
    PROVE  Wrap(x) \in Int
<1>1. PICK b \in Nat : b = IntBits - 1
  BY QueryAssumption
<1>2. PICK k \in Nat : k = IntBits
  BY QueryAssumption
<1>3. 2^b \in Nat /\ 2^k \in Nat /\ 2^k >= 1
  BY PowersOfTwo
<1>4. PICK h \in Nat, m \in Nat \ {0} : h = 2^b /\ m = 2^k
  BY <1>3
<1>5. Wrap(x) = ((x + h) % m) - h
  BY <1>1, <1>2, <1>4 DEF Wrap
<1>6. (x + h) % m \in Int
  OBVIOUS
<1> QED
  BY <1>4, <1>5, <1>6

(* A page is a part of the rows in their order.                            *)
LEMMA PageIsPart ==
    ASSUME NEW I, NEW s \in Seq(I), NEW offset \in Nat, NEW size \in Nat
    PROVE  \E from \in 0 .. Len(s), to \in 0 .. Len(s) :
              /\ from <= to
              /\ Slice(s, offset, size) = SubSeq(s, from + 1, to)
              /\ offset <= Len(s) => from = offset
              /\ offset <= Len(s) /\ offset + size < Len(s) => to = offset + size
              /\ offset + size >= Len(s) => to = Len(s)
<1>1. PICK n \in Nat : n = Len(s)
  OBVIOUS
<1>2. CASE offset <= n
  <2>1. PICK to \in 0 .. n :
           to = IF offset + size < n THEN offset + size ELSE n
    OBVIOUS
  <2>2. Slice(s, offset, size) = SubSeq(s, offset + 1, to)
    BY <1>1, <2>1 DEF Slice
  <2>3. offset \in 0 .. n /\ offset <= to
    BY <1>2, <2>1
  <2> QED
    BY <1>1, <2>1, <2>2, <2>3
<1>3. CASE offset > n
  <2>1. Slice(s, offset, size) = SubSeq(s, offset + 1, n)
    BY <1>1, <1>3 DEF Slice
  <2>2. SubSeq(s, offset + 1, n) = << >>
    <3>1. PICK k \in Int : k = offset + 1 /\ n < k
      BY <1>3
    <3>2. SubSeq(s, k, n) = << >>
      BY <3>1, SubSeqEmpty
    <3> QED
      BY <3>1, <3>2
  <2>3. SubSeq(s, n + 1, n) = << >>
    <3>1. PICK k \in Int : k = n + 1 /\ n < k
      OBVIOUS
    <3>2. SubSeq(s, k, n) = << >>
      BY <3>1, SubSeqEmpty
    <3> QED
      BY <3>1, <3>2
  <2>4. Slice(s, offset, size) = SubSeq(s, n + 1, n)
    BY <2>1, <2>2, <2>3, Zenon
  <2>5. n \in 0 .. n
    OBVIOUS
  <2> QED
    BY <1>1, <1>3, <2>4, <2>5
<1> QED
  BY <1>1, <1>2, <1>3

(* A piece of a sequence.                                                  *)
LEMMA PartType ==
    ASSUME NEW I, NEW s \in Seq(I),
           NEW from \in 0 .. Len(s), NEW to \in 0 .. Len(s), from <= to
    PROVE  /\ SubSeq(s, from + 1, to) \in Seq(I)
           /\ Len(SubSeq(s, from + 1, to)) = to - from
           /\ \A k \in 1 .. to - from : SubSeq(s, from + 1, to)[k] = s[from + k]
<1>1. PICK m \in Int : m = from + 1
  OBVIOUS
<1>2. \A i \in m .. to : s[i] \in I
  BY <1>1
<1>3. /\ SubSeq(s, m, to) \in Seq(I)
      /\ Len(SubSeq(s, m, to)) = IF m <= to THEN to - m + 1 ELSE 0
      /\ \A i \in 1 .. to - m + 1 : SubSeq(s, m, to)[i] = s[m + i - 1]
  BY <1>2, SubSeqProperties
<1>4. Len(s) \in Nat
  OBVIOUS
<1>5. Len(SubSeq(s, m, to)) = to - from
  BY <1>1, <1>3, <1>4
<1>6. \A k \in 1 .. to - from : m + k - 1 = from + k
  BY <1>1, <1>4
<1>7. \A k \in 1 .. to - from : SubSeq(s, m, to)[k] = s[from + k]
  BY <1>1, <1>3, <1>4, <1>6
<1> QED
  BY <1>1, <1>3, <1>5, <1>7

(* The next page goes on where the last one ended.                         *)
LEMMA PagesJoin ==
    ASSUME NEW I, NEW s \in Seq(I), NEW from \in 0 .. Len(s),
           NEW mid \in 0 .. Len(s), NEW to \in 0 .. Len(s),
           from <= mid, mid <= to
    PROVE  SubSeq(s, from + 1, mid) \o SubSeq(s, mid + 1, to)
              = SubSeq(s, from + 1, to)
<1>1. Len(s) \in Nat /\ from <= to
  OBVIOUS
<1>2. PICK a \in Seq(I) : a = SubSeq(s, from + 1, mid)
  BY PartType
<1>3. PICK b \in Seq(I) : b = SubSeq(s, mid + 1, to)
  BY PartType
<1>4. PICK c \in Seq(I) : c = SubSeq(s, from + 1, to)
  BY <1>1, PartType
<1>5. Len(a) = mid - from /\ \A k \in 1 .. mid - from : a[k] = s[from + k]
  BY <1>2, PartType
<1>6. Len(b) = to - mid /\ \A k \in 1 .. to - mid : b[k] = s[mid + k]
  BY <1>3, PartType
<1>7. Len(c) = to - from /\ \A k \in 1 .. to - from : c[k] = s[from + k]
  BY <1>1, <1>4, PartType
<1>8. /\ a \o b \in Seq(I) /\ Len(a \o b) = Len(a) + Len(b)
      /\ \A i \in 1 .. Len(a) + Len(b) : (a \o b)[i] =
            IF i <= Len(a) THEN a[i] ELSE b[i - Len(a)]
  BY ConcatProperties
<1>9. Len(a \o b) = Len(c)
  BY <1>1, <1>5, <1>6, <1>7, <1>8
<1>10. ASSUME NEW i \in 1 .. to - from
       PROVE  (a \o b)[i] = c[i]
  <2>1. CASE i <= mid - from
    BY <1>1, <1>5, <1>6, <1>7, <1>8, <2>1
  <2>2. CASE i > mid - from
    <3>1. i - (mid - from) \in 1 .. to - mid /\ mid + (i - (mid - from)) = from + i
      BY <1>1, <2>2
    <3>2. (a \o b)[i] = b[i - (mid - from)]
      BY <1>1, <1>5, <1>6, <1>8, <2>2
    <3> QED
      BY <1>6, <1>7, <3>1, <3>2
  <2>3. i <= mid - from \/ i > mid - from
    BY <1>1
  <2> QED
    BY <2>1, <2>2, <2>3, Zenon
<1>11. a \o b = c
  BY <1>7, <1>8, <1>9, <1>10, SeqEqual
<1> QED
  BY <1>2, <1>3, <1>4, <1>11

-----------------------------------------------------------------------------
(* The walk.                                                               *)

(* What a query that is answered asks for.                                 *)
ValidInput(in) ==
    /\ in.page \in Int /\ in.size \in Int /\ PagingOK(in)
    /\ Sortable(SortOf(in))
    /\ DOMAIN in.filter \subseteq {"event_type", "event_status"}
    /\ in.period \in Period /\ ResolveWindow(in.period).code = "ok"

(* What has been shown is the part of the rows in their order that begins  *)
(* where the client began, at the first row if that was page 1, and ends   *)
(* with the last page.                                                     *)
Collected ==
    reply.code = "ok" =>
        /\ ValidInput(asked)
        /\ \E s \in Orders(Matching(asked), SortOf(asked)) :
           \E from \in 0 .. Len(s), to \in 0 .. Len(s) :
              /\ from <= to
              /\ shown = SubSeq(s, from + 1, to)
              /\ first = 1 => from = 0
              /\ first = 1 /\ reply.page >= reply.pages => to = Len(s)
              /\ reply.page < reply.pages =>
                    /\ reply.page \in Nat \ {0}
                    /\ to = reply.page * PageSize(asked)

WalkInv ==
    /\ TableOK
    /\ AskedOK
    /\ Collected

(* The rows and their order depend on the table only.                      *)
LEMMA SameTableSameOrder ==
    ASSUME table' = table, NEW in, asked' = in
    PROVE  Orders(Matching(asked), SortOf(asked))' = Orders(Matching(in), SortOf(in))
<1>1. Matching(asked)' = Matching(in)
  BY DEF Matching
<1>2. SortOf(asked)' = SortOf(in)
  BY DEF SortOf
<1>3. \A sort, i, j : Precedes(sort, i, j)' <=> Precedes(sort, i, j)
  BY DEF Precedes
<1>4. \A I, sort : Orders(I, sort)' = Orders(I, sort)
  BY <1>3 DEF Orders
<1> QED
  BY <1>1, <1>2, <1>4 DEF Orders, Precedes, Matching, SortOf

(* The rows that match are finitely many of the table.                     *)
LEMMA MatchingIsFinite ==
    ASSUME TableOK, NEW in
    PROVE  /\ Matching(in) \in SUBSET DOMAIN table
           /\ IsFiniteSet(Matching(in))
           /\ Cardinality(Matching(in)) \in Nat
           /\ Cardinality(Matching(in)) < 2^(IntBits - 1)
<1>1. Matching(in) \in SUBSET DOMAIN table
  BY DEF Matching
<1>2. Matching(in) \in SUBSET RowId
  BY <1>1 DEF TableOK
<1>3. /\ IsFiniteSet(Matching(in))
      /\ Cardinality(Matching(in)) <= Cardinality(RowId)
  BY <1>2, QueryAssumption, FS_Subset
<1>4. PICK c \in Nat, r \in Nat : c = Cardinality(Matching(in)) /\ r = Cardinality(RowId)
  BY <1>3, QueryAssumption, FS_CardinalityType
<1>5. PICK b \in Nat : b = IntBits - 1
  BY QueryAssumption
<1>6. PICK h \in Nat : h = 2^b
  BY PowersOfTwo
<1>7. c < 2^(IntBits - 1)
  BY <1>3, <1>4, <1>5, <1>6, QueryAssumption
<1> QED
  BY <1>1, <1>3, <1>4, <1>7

(* A page has a positive size and number.                                  *)
LEMMA PageSizeType ==
    ASSUME NEW in, ValidInput(in)
    PROVE  PageSize(in) \in Nat \ {0} /\ PageNumber(in) \in Nat \ {0}
BY DEF ValidInput, PagingOK, PageSize, PageNumber, DefaultPageSize, MaxPageSize

(* A response without an error is a page of the rows in their order.       *)
LEMMA AnswerIsPage ==
    ASSUME TableOK, NEW in, NEW r \in QueryEvents(in), r.code = "ok",
           ParsesOK(in) => /\ in.page \in Int /\ in.size \in Int
                           /\ in.period \in Period,
           DOMAIN in.filter \subseteq {"event_type", "event_status"}
    PROVE  /\ ValidInput(in)
           /\ Offset(in) \in Nat
           /\ \E s \in Orders(Matching(in), SortOf(in)) :
                 /\ Len(s) = Cardinality(Matching(in))
                 /\ r.page = PageNumber(in)
                 /\ r.pages = CeilDiv(Len(s), PageSize(in))
                 /\ r.data = Slice(s, Offset(in), PageSize(in))
<1>1. \A code : Fail(code).code = code
  BY DEF Fail, NoReply
<1>2. ParsesOK(in)
  BY <1>1 DEF QueryEvents
<1>3. /\ FiltersOK(in) /\ PagingOK(in) /\ SortOK(in)
      /\ ResolveWindow(in.period).code = "ok"
  BY <1>1, <1>2 DEF QueryEvents
<1>4. ~ (Offset(in) < 0)
  BY <1>1, <1>2, <1>3 DEF QueryEvents
<1>5. PICK s \in Orders(Matching(in), SortOf(in)) :
         r = [code |-> "ok", page |-> PageNumber(in),
              total |-> Cardinality(Matching(in)),
              pages |-> CeilDiv(Cardinality(Matching(in)), PageSize(in)),
              data |-> Slice(s, Offset(in), PageSize(in))]
  BY <1>2, <1>3, <1>4 DEF QueryEvents
<1>6. Sortable(SortOf(in))
  BY <1>3 DEF SortOK, SortOf, Sortable, DefaultSort, SortColumns
<1>7. ValidInput(in)
  BY <1>2, <1>3, <1>6 DEF ValidInput
<1>8. Offset(in) \in Nat
  <2>1. PageSize(in) \in Nat \ {0} /\ PageNumber(in) \in Nat \ {0}
    BY <1>7, PageSizeType
  <2>2. PICK x \in Int : x = (PageNumber(in) - 1) * PageSize(in)
    BY <2>1
  <2>3. Wrap(x) \in Int
    BY WrapIsInt
  <2> QED
    BY <1>4, <2>2, <2>3 DEF Offset
<1>9. Len(s) = Cardinality(Matching(in))
  <2>1. IsFiniteSet(Matching(in))
    BY MatchingIsFinite
  <2> QED
    BY <2>1, OrderEnumerates
<1> QED
  BY <1>5, <1>7, <1>8, <1>9

(* It holds at the start.                                                  *)
LEMMA WalkInvInit == QueryInit => WalkInv
<1> SUFFICES ASSUME QueryInit
             PROVE  WalkInv
  OBVIOUS
<1>1. PICK I \in SUBSET RowId : table \in [I -> Row]
  BY DEF QueryInit
<1>2. TableOK
  BY <1>1 DEF TableOK
<1>3. reply.code # "ok"
  BY DEF QueryInit, NoReply
<1> QED
  BY <1>2, <1>3, AskedOKInit, Zenon DEF WalkInv, Collected

(* A client that begins, at whatever page it begins.                       *)
LEMMA AskCollects ==
    ASSUME TableOK, Ask
    PROVE  Collected'
<1> SUFFICES ASSUME reply'.code = "ok"
             PROVE  /\ ValidInput(asked)'
                    /\ \E s \in Orders(Matching(asked), SortOf(asked))' :
                       \E from \in 0 .. Len(s), to \in 0 .. Len(s) :
                          /\ from <= to
                          /\ shown' = SubSeq(s, from + 1, to)
                          /\ first' = 1 => from = 0
                          /\ first' = 1 /\ reply'.page >= reply'.pages => to = Len(s)
                          /\ reply'.page < reply'.pages =>
                                /\ reply'.page \in Nat \ {0}
                                /\ to = reply'.page * PageSize(asked)'
  BY DEF Collected
<1>1. PICK in, r :
         /\ in \in Input /\ r \in QueryEvents(in)
         /\ asked' = in /\ reply' = r /\ first' = r.page /\ shown' = r.data
         /\ table' = table
  BY DEF Ask
<1>2. /\ ValidInput(in) /\ Offset(in) \in Nat
      /\ \E s \in Orders(Matching(in), SortOf(in)) :
            /\ Len(s) = Cardinality(Matching(in))
            /\ r.page = PageNumber(in)
            /\ r.pages = CeilDiv(Len(s), PageSize(in))
            /\ r.data = Slice(s, Offset(in), PageSize(in))
  BY <1>1, InputAssumption, AnswerIsPage
<1>3. PICK s \in Orders(Matching(in), SortOf(in)) :
         /\ Len(s) = Cardinality(Matching(in))
         /\ r.page = PageNumber(in)
         /\ r.pages = CeilDiv(Len(s), PageSize(in))
         /\ r.data = Slice(s, Offset(in), PageSize(in))
  BY <1>2
<1>4. PICK size \in Nat \ {0}, page \in Nat \ {0} :
         size = PageSize(in) /\ page = PageNumber(in)
  BY <1>2, PageSizeType
<1>5. PICK n \in Nat : n = Len(s) /\ n < 2^(IntBits - 1) /\ s \in Seq(Matching(in))
  BY <1>3, MatchingIsFinite, OrderEnumerates
<1>6. PICK offset \in Nat : offset = Offset(in) /\ offset = Wrap((page - 1) * size)
  BY <1>2, <1>4 DEF Offset
<1>7. PICK from \in 0 .. n, to \in 0 .. n :
         /\ from <= to
         /\ r.data = SubSeq(s, from + 1, to)
         /\ offset <= n => from = offset
         /\ offset <= n /\ offset + size < n => to = offset + size
         /\ offset + size >= n => to = n
  <2>1. \E from \in 0 .. Len(s), to \in 0 .. Len(s) :
           /\ from <= to
           /\ Slice(s, offset, size) = SubSeq(s, from + 1, to)
           /\ offset <= Len(s) => from = offset
           /\ offset <= Len(s) /\ offset + size < Len(s) => to = offset + size
           /\ offset + size >= Len(s) => to = Len(s)
    BY <1>5, PageIsPart
  <2>2. r.data = Slice(s, offset, size) /\ n = Len(s)
    BY <1>3, <1>4, <1>5, <1>6
  <2> QED
    BY <2>1, <2>2
<1>8. PICK before \in Nat, upto \in Nat :
         before = (page - 1) * size /\ upto = page * size /\ upto = before + size
  <2>1. (page - 1) * size \in Nat /\ page * size \in Nat
    BY <1>4
  <2>2. page * size = (page - 1) * size + size
    BY <1>4
  <2> QED
    BY <2>1, <2>2
<1>9. /\ page < CeilDiv(n, size) => upto < n
      /\ page >= CeilDiv(n, size) => upto >= n
  BY <1>8, PagesHoldAll
<1>10. before < n => offset = before
  <2>1. PICK b \in Nat : b = IntBits - 1
    BY QueryAssumption
  <2>2. PICK h \in Nat : h = 2^b /\ n < h
    BY <1>5, <2>1, PowersOfTwo
  <2>3. before < n => before < 2^(IntBits - 1)
    BY <2>1, <2>2
  <2> QED
    BY <1>6, <1>8, <2>3, IntHoldsOffset
<1>11. page = 1 => offset = 0 /\ before = 0
  <2>1. PICK b \in Nat : b = IntBits - 1
    BY QueryAssumption
  <2>2. PICK h \in Nat, zero \in Nat : h = 2^b /\ zero = 0 /\ zero < h
    BY <2>1, PowersOfTwo
  <2>3. Wrap(zero) = zero
    BY <2>1, <2>2, IntHoldsOffset
  <2>4. page = 1 => (page - 1) * size = 0
    OBVIOUS
  <2> QED
    BY <1>6, <1>8, <2>2, <2>3, <2>4
<1>12. page = 1 => from = 0
  BY <1>7, <1>11
<1>13. page = 1 /\ page >= CeilDiv(n, size) => to = n
  BY <1>7, <1>8, <1>9, <1>11
<1>14. page < CeilDiv(n, size) => to = upto
  BY <1>7, <1>8, <1>9, <1>10
<1>15. Orders(Matching(asked), SortOf(asked))' = Orders(Matching(in), SortOf(in))
  BY <1>1, SameTableSameOrder
<1>16. /\ s \in Orders(Matching(asked), SortOf(asked))'
       /\ from \in 0 .. Len(s) /\ to \in 0 .. Len(s)
       /\ from <= to
       /\ shown' = SubSeq(s, from + 1, to)
  BY <1>1, <1>5, <1>7, <1>15
<1>17. ValidInput(asked)' /\ PageSize(asked)' = size
  BY <1>1, <1>2, <1>4 DEF ValidInput, PagingOK, SortOf, Sortable, PageSize
<1>18. reply'.page = page /\ first' = page /\ reply'.pages = CeilDiv(n, size)
  BY <1>1, <1>3, <1>4, <1>5
<1>19. /\ first' = 1 => from = 0
       /\ first' = 1 /\ reply'.page >= reply'.pages => to = Len(s)
       /\ reply'.page < reply'.pages =>
             /\ reply'.page \in Nat \ {0}
             /\ to = reply'.page * PageSize(asked)'
  BY <1>5, <1>8, <1>12, <1>13, <1>14, <1>17, <1>18
<1> QED
  BY <1>16, <1>17, <1>19

(* A client that goes on.                                                  *)
LEMMA NextPageCollects ==
    ASSUME WalkInv, NextPage
    PROVE  Collected'
<1> SUFFICES ASSUME reply'.code = "ok"
             PROVE  /\ ValidInput(asked)'
                    /\ \E s \in Orders(Matching(asked), SortOf(asked))' :
                       \E from \in 0 .. Len(s), to \in 0 .. Len(s) :
                          /\ from <= to
                          /\ shown' = SubSeq(s, from + 1, to)
                          /\ first' = 1 => from = 0
                          /\ first' = 1 /\ reply'.page >= reply'.pages => to = Len(s)
                          /\ reply'.page < reply'.pages =>
                                /\ reply'.page \in Nat \ {0}
                                /\ to = reply'.page * PageSize(asked)'
  BY DEF Collected
<1>1. PICK in : in = [asked EXCEPT !.page = reply.page + 1]
  OBVIOUS
<1>2. PICK r \in QueryEvents(in) :
         /\ asked' = in /\ reply' = r /\ shown' = shown \o r.data
         /\ table' = table /\ first' = first
         /\ reply.code = "ok" /\ reply.page < reply.pages
  BY <1>1 DEF NextPage
<1>3. TableOK /\ ValidInput(asked)
  BY <1>2 DEF WalkInv, Collected
<1>4. PICK old \in Orders(Matching(asked), SortOf(asked)) :
      \E from \in 0 .. Len(old), to \in 0 .. Len(old) :
         /\ from <= to
         /\ shown = SubSeq(old, from + 1, to)
         /\ first = 1 => from = 0
         /\ reply.page \in Nat \ {0}
         /\ to = reply.page * PageSize(asked)
  BY <1>2 DEF WalkInv, Collected
<1>5. /\ in.page = reply.page + 1 /\ in.size = asked.size /\ in.sort = asked.sort
      /\ in.period = asked.period /\ in.filter = asked.filter
  BY <1>1 DEF WalkInv, AskedOK
<1>6. /\ Matching(in) = Matching(asked) /\ SortOf(in) = SortOf(asked)
      /\ PageSize(in) = PageSize(asked)
  BY <1>5 DEF Matching, SortOf, PageSize
<1>7. reply.page \in Nat \ {0} /\ in.page \in Int /\ in.size \in Int
  BY <1>3, <1>4, <1>5 DEF ValidInput
<1>8. /\ in.period \in Period
      /\ DOMAIN in.filter \subseteq {"event_type", "event_status"}
  BY <1>3, <1>5 DEF ValidInput
<1>9. /\ ValidInput(in) /\ Offset(in) \in Nat
      /\ \E s \in Orders(Matching(in), SortOf(in)) :
            /\ Len(s) = Cardinality(Matching(in))
            /\ r.page = PageNumber(in)
            /\ r.pages = CeilDiv(Len(s), PageSize(in))
            /\ r.data = Slice(s, Offset(in), PageSize(in))
  BY <1>2, <1>3, <1>7, <1>8, AnswerIsPage
<1>10. PICK s \in Orders(Matching(in), SortOf(in)) :
         /\ Len(s) = Cardinality(Matching(in))
         /\ r.page = PageNumber(in)
         /\ r.pages = CeilDiv(Len(s), PageSize(in))
         /\ r.data = Slice(s, Offset(in), PageSize(in))
  BY <1>9
<1>11. old = s
  BY <1>3, <1>6, <1>9, <1>10, MatchingIsFinite, OrderIsUnique DEF ValidInput
<1>12. PICK from \in 0 .. Len(s), mid \in 0 .. Len(s) :
         /\ from <= mid
         /\ shown = SubSeq(s, from + 1, mid)
         /\ first = 1 => from = 0
         /\ mid = reply.page * PageSize(asked)
  BY <1>4, <1>11
<1>13. PICK size \in Nat \ {0}, last \in Nat \ {0} :
         size = PageSize(in) /\ last = reply.page
  BY <1>7, <1>9, PageSizeType
<1>14. PICK page \in Nat \ {0} : page = last + 1 /\ page = PageNumber(in)
  BY <1>5, <1>13 DEF PageNumber
<1>15. PICK n \in Nat : n = Len(s) /\ n < 2^(IntBits - 1) /\ s \in Seq(Matching(in))
  BY <1>3, <1>10, MatchingIsFinite, OrderEnumerates
<1>16. mid \in Nat /\ mid = (page - 1) * size /\ page * size = mid + size
  <2>1. mid = last * size
    BY <1>6, <1>12, <1>13
  <2>2. page - 1 = last /\ last * size \in Nat
    BY <1>14
  <2>3. page * size = last * size + size
    BY <1>14
  <2> QED
    BY <2>1, <2>2, <2>3
<1>17. Offset(in) = mid
  <2>1. PICK b \in Nat : b = IntBits - 1
    BY QueryAssumption
  <2>2. PICK h \in Nat : h = 2^b /\ n < h
    BY <1>15, <2>1, PowersOfTwo
  <2>3. mid < 2^(IntBits - 1)
    BY <1>12, <1>15, <2>1, <2>2
  <2>4. Wrap(mid) = mid
    BY <1>16, <2>3, IntHoldsOffset
  <2> QED
    BY <1>13, <1>14, <1>16, <2>4 DEF Offset
<1>18. PICK begin \in 0 .. n, to \in 0 .. n :
         /\ begin <= to
         /\ r.data = SubSeq(s, begin + 1, to)
         /\ mid <= n => begin = mid
         /\ mid <= n /\ mid + size < n => to = mid + size
         /\ mid + size >= n => to = n
  <2>1. \E begin \in 0 .. Len(s), to \in 0 .. Len(s) :
           /\ begin <= to
           /\ Slice(s, mid, size) = SubSeq(s, begin + 1, to)
           /\ mid <= Len(s) => begin = mid
           /\ mid <= Len(s) /\ mid + size < Len(s) => to = mid + size
           /\ mid + size >= Len(s) => to = Len(s)
    <3>1. mid \in Nat /\ s \in Seq(Matching(in))
      BY <1>15, <1>16
    <3> QED
      BY <3>1, PageIsPart
  <2>2. r.data = Slice(s, mid, size) /\ n = Len(s)
    BY <1>10, <1>13, <1>15, <1>17
  <2> QED
    BY <2>1, <2>2
<1>19. begin = mid /\ from <= to
  BY <1>12, <1>15, <1>18
<1>20. shown' = SubSeq(s, from + 1, to)
  <2>1. SubSeq(s, from + 1, mid) \o SubSeq(s, mid + 1, to)
           = SubSeq(s, from + 1, to)
    BY <1>12, <1>15, <1>18, <1>19, PagesJoin
  <2> QED
    BY <1>2, <1>12, <1>18, <1>19, <2>1
<1>21. /\ page < CeilDiv(n, size) => to = page * size
       /\ page >= CeilDiv(n, size) => to = n
  <2>1. /\ page < CeilDiv(n, size) => page * size < n
        /\ page >= CeilDiv(n, size) => page * size >= n
    BY PagesHoldAll
  <2>2. PICK upto \in Nat : upto = page * size /\ upto = mid + size
    BY <1>16
  <2>3. mid <= n
    BY <1>12, <1>15
  <2>4. /\ mid <= n /\ mid + size < n => to = mid + size
        /\ mid + size >= n => to = n
    BY <1>18
  <2>5. upto < n => to = upto
    BY <2>2, <2>3, <2>4
  <2>6. upto >= n => to = n
    BY <2>2, <2>4
  <2> QED
    BY <2>1, <2>2, <2>5, <2>6
<1>22. reply'.page = page /\ reply'.pages = CeilDiv(n, size) /\ first' = first
  BY <1>2, <1>10, <1>13, <1>14, <1>15
<1>23. Orders(Matching(asked), SortOf(asked))' = Orders(Matching(in), SortOf(in))
  BY <1>2, SameTableSameOrder
<1>24. ValidInput(asked)' /\ PageSize(asked)' = size
  BY <1>2, <1>9, <1>13 DEF ValidInput, PagingOK, SortOf, Sortable, PageSize
<1>25. /\ s \in Orders(Matching(asked), SortOf(asked))'
       /\ from \in 0 .. Len(s) /\ to \in 0 .. Len(s)
  BY <1>12, <1>15, <1>18, <1>23
<1>26. /\ first' = 1 => from = 0
       /\ first' = 1 /\ reply'.page >= reply'.pages => to = Len(s)
       /\ reply'.page < reply'.pages =>
             /\ reply'.page \in Nat \ {0}
             /\ to = reply'.page * PageSize(asked)'
  BY <1>12, <1>15, <1>21, <1>22, <1>24
<1> QED
  BY <1>19, <1>20, <1>24, <1>25, <1>26

(* An export is a page that has all the rows.                              *)
LEMMA ExportCollects ==
    ASSUME TableOK, Export
    PROVE  Collected'
<1> SUFFICES ASSUME reply'.code = "ok"
             PROVE  /\ ValidInput(asked)'
                    /\ \E s \in Orders(Matching(asked), SortOf(asked))' :
                       \E from \in 0 .. Len(s), to \in 0 .. Len(s) :
                          /\ from <= to
                          /\ shown' = SubSeq(s, from + 1, to)
                          /\ first' = 1 => from = 0
                          /\ first' = 1 /\ reply'.page >= reply'.pages => to = Len(s)
                          /\ reply'.page < reply'.pages =>
                                /\ reply'.page \in Nat \ {0}
                                /\ to = reply'.page * PageSize(asked)'
  BY DEF Collected
<1>1. PICK in, r :
         /\ in \in Input /\ r \in ExportEvents(in)
         /\ in.sort = NoSort /\ in.page = 0 /\ in.size = 0
         /\ asked' = in /\ reply' = r /\ shown' = r.data
         /\ table' = table
  BY DEF Export
<1>2. ParsesOK(in) /\ ResolveWindow(in.period).code = "ok"
  BY <1>1, OnlyValidIsAnswered
<1>3. \A code : Fail(code).code = code
  BY DEF Fail, NoReply
<1>4. PICK s \in Orders(Matching(in), DefaultSort) :
         r = [code |-> "ok", page |-> 1, total |-> Len(s), pages |-> 1, data |-> s]
  BY <1>1, <1>2, <1>3 DEF ExportEvents
<1>5. SortOf(in) = DefaultSort /\ Sortable(DefaultSort)
  BY <1>1 DEF SortOf, Sortable, DefaultSort, SortColumns
<1>6. ValidInput(in)
  BY <1>1, <1>2, <1>5, InputAssumption DEF ValidInput, PagingOK
<1>7. s \in Seq(Matching(in)) /\ Len(s) \in Nat
  BY <1>4, MatchingIsFinite, OrderEnumerates
<1>8. SubSeq(s, 1, Len(s)) = s
  BY <1>7, SubSeqFull
<1>9. PICK from \in 0 .. Len(s), to \in 0 .. Len(s) : from = 0 /\ to = Len(s)
  BY <1>7
<1>10. from + 1 = 1 /\ from <= to
  BY <1>7, <1>9
<1>11. shown' = SubSeq(s, from + 1, to)
  BY <1>1, <1>4, <1>8, <1>9, <1>10
<1>12. ValidInput(asked)'
  BY <1>1, <1>6 DEF ValidInput, PagingOK, SortOf, Sortable
<1>13. Orders(Matching(asked), SortOf(asked))' = Orders(Matching(in), SortOf(in))
  BY <1>1, SameTableSameOrder
<1>14. reply'.page = 1 /\ reply'.pages = 1
  BY <1>1, <1>4
<1>15. ~ (reply'.page < reply'.pages)
  BY <1>14
<1>16. s \in Orders(Matching(asked), SortOf(asked))'
  BY <1>4, <1>5, <1>13
<1> QED
  BY <1>9, <1>10, <1>11, <1>12, <1>15, <1>16

(* Every query keeps it.                                                   *)
LEMMA WalkInvNext == WalkInv /\ [QueryNext]_queryVars => WalkInv'
<1> SUFFICES ASSUME WalkInv, [QueryNext]_queryVars
             PROVE  WalkInv'
  OBVIOUS
<1>1. TableOK /\ AskedOK /\ Collected
  BY DEF WalkInv
<1>2. AskedOK'
  BY <1>1, AskedOKNext
<1>3. table' = table
  BY DEF QueryNext, Ask, NextPage, Export, queryVars
<1>4. TableOK'
  BY <1>1, <1>3 DEF TableOK
<1>5. Collected'
  <2>1. CASE UNCHANGED queryVars
    <3>1. /\ table' = table /\ asked' = asked /\ reply' = reply
          /\ first' = first /\ shown' = shown
      BY <2>1 DEF queryVars
    <3>2. Orders(Matching(asked), SortOf(asked))' = Orders(Matching(asked), SortOf(asked))
      <4>1. PICK in : in = asked
        OBVIOUS
      <4> QED
        BY <3>1, <4>1, SameTableSameOrder
    <3>3. ValidInput(asked)' <=> ValidInput(asked)
      BY <3>1 DEF ValidInput, PagingOK, SortOf, Sortable
    <3>4. PageSize(asked)' = PageSize(asked)
      BY <3>1 DEF PageSize
    <3> QED
      BY <1>1, <3>1, <3>2, <3>3, <3>4 DEF Collected
  <2>2. CASE Ask
    BY <1>1, <2>2, AskCollects
  <2>3. CASE NextPage
    BY <2>3, NextPageCollects
  <2>4. CASE Export
    BY <1>1, <2>4, ExportCollects
  <2> QED
    BY <2>1, <2>2, <2>3, <2>4 DEF QueryNext
<1> QED
  BY <1>2, <1>4, <1>5 DEF WalkInv

(* What has been shown is a part of the rows that match in the one order   *)
(* they have, from the first page asked for to the last one answered.      *)
THEOREM WalkInvariance == QuerySpec => []WalkInv
BY WalkInvInit, WalkInvNext, PTL DEF QuerySpec

(* Of two rows one of which precedes the other, as WalkInOrder says it.    *)
LEMMA PrecedingKeys ==
    ASSUME TableOK, NEW sort, Sortable(sort), NEW i \in DOMAIN table,
           NEW j \in DOMAIN table, Precedes(sort, i, j),
           NEW a, a = table[i][SortColumns[sort[1]]],
           NEW b, b = table[j][SortColumns[sort[1]]]
    PROVE  /\ IF sort[2] = "asc" THEN a <= b ELSE a >= b
           /\ a = b => i < j
<1>1. a \in Int /\ b \in Int
  BY RowAssumption DEF TableOK, Sortable
<1>2. \/ IF sort[2] = "asc" THEN a < b ELSE a > b
      \/ a = b /\ i < j
  BY DEF Precedes
<1> QED
  BY <1>1, <1>2

(* Every step of the client keeps what it has been shown in order.         *)
LEMMA ShownInOrder ==
    ASSUME WalkInv
    PROVE  WalkInOrder
<1> SUFFICES ASSUME reply.code = "ok", NEW k \in 1 .. Len(shown) - 1,
                    NEW sort, sort = SortOf(asked),
                    NEW a, a = table[shown[k]][SortColumns[sort[1]]],
                    NEW b, b = table[shown[k + 1]][SortColumns[sort[1]]]
             PROVE  /\ IF sort[2] = "asc" THEN a <= b ELSE a >= b
                    /\ a = b => shown[k] < shown[k + 1]
  BY DEF WalkInOrder
<1>1. TableOK /\ ValidInput(asked) /\ Sortable(sort)
  BY DEF WalkInv, Collected, ValidInput
<1>2. PICK I : I = Matching(asked)
  OBVIOUS
<1>3. I \in SUBSET DOMAIN table /\ IsFiniteSet(I)
  BY <1>1, <1>2, MatchingIsFinite
<1>4. PICK s \in Orders(I, sort) :
      \E from \in 0 .. Len(s), to \in 0 .. Len(s) :
         from <= to /\ shown = SubSeq(s, from + 1, to)
  BY <1>2 DEF WalkInv, Collected
<1>5. PICK n \in Nat : n = Len(s) /\ n = Cardinality(I)
  BY <1>3, OrderEnumerates
<1>6. /\ s \in Seq(I) /\ s \in [1 .. n -> I]
      /\ \A p, q \in 1 .. n : p < q => Precedes(sort, s[p], s[q])
  BY <1>3, <1>5, OrderEnumerates
<1>7. PICK from \in 0 .. n, to \in 0 .. n :
         from <= to /\ shown = SubSeq(s, from + 1, to)
  BY <1>4, <1>5
<1>8. /\ Len(shown) = to - from
      /\ \A x \in 1 .. to - from : shown[x] = s[from + x]
  BY <1>5, <1>6, <1>7, PartType
<1>9. k \in 1 .. to - from /\ k + 1 \in 1 .. to - from
  BY <1>7, <1>8
<1>10. shown[k] = s[from + k] /\ shown[k + 1] = s[from + (k + 1)]
  BY <1>8, <1>9
<1>11. PICK p \in 1 .. n, q \in 1 .. n : p = from + k /\ q = from + (k + 1) /\ p < q
  BY <1>7, <1>9
<1>12. PICK i \in DOMAIN table, j \in DOMAIN table : i = shown[k] /\ j = shown[k + 1]
  BY <1>3, <1>6, <1>10, <1>11
<1>13. Precedes(sort, i, j)
  BY <1>6, <1>10, <1>11, <1>12
<1>14. /\ IF sort[2] = "asc" THEN a <= b ELSE a >= b
       /\ a = b => i < j
  BY <1>1, <1>12, <1>13, PrecedingKeys
<1> QED
  BY <1>12, <1>14

(* What a walk, or an export, shows is in the order asked for, for every   *)
(* table, page size and width of an int, wherever it begins.               *)
THEOREM ShownAsSorted == QuerySpec => []WalkInOrder
<1>1. WalkInv => WalkInOrder
  BY ShownInOrder
<1> QED
  BY <1>1, WalkInvariance, PTL

(* A row is in the window exactly if one of the days asked for has it.     *)
LEMMA InWindow ==
    ASSUME NEW in \in Period, ResolveWindow(in).code = "ok",
           NEW window, window = ResolveWindow(in),
           NEW row \in Row, NEW t, t = row["starts_at"]
    PROVE  (window.has => window.start <= t /\ t < window.end)
              <=> \E c \in RowDay : AskedFor(in, c) /\ IsDayOf(c, in.tz, t)
<1>1. in.tz \in Zone
  <2>1. in.tz # UnknownZone
    BY DEF ResolveWindow, Invalid, NoWindow
  <2>2. in.tz \in Zone \cup {UnknownZone}
    BY DEF Period
  <2> QED
    BY <2>1, <2>2
<1>2. t \in Int
  <2>1. "startsAt" \in DOMAIN SortColumns /\ SortColumns["startsAt"] = "starts_at"
    BY DEF SortColumns
  <2> QED
    BY <2>1, RowAssumption
<1>3. PICK c \in RowDay : IsDayOf(c, in.tz, t)
  BY <1>1, QueryAssumption
<1>4. \A o \in RowDay : IsDate(o)
  BY QueryAssumption
<1>5. ASSUME NEW o \in RowDay, IsDayOf(o, in.tz, t)
      PROVE  \E from, to \in Int : /\ from = Midnight(in.tz, Number(o))
                                   /\ to = Midnight(in.tz, Number(o) + 1)
                                   /\ from <= t /\ t < to
  <2>1. PICK n \in Int, z \in Zone : n = Number(o) /\ z = in.tz
    BY <1>1, <1>4, NumberIsInt
  <2>2. Midnight(z, n) \in Int
    BY MidnightsOrdered
  <2>3. Midnight(z, n + 1) \in Int
    <3>1. PICK k \in Int : k = n + 1
      OBVIOUS
    <3>2. Midnight(z, k) \in Int
      BY MidnightsOrdered
    <3> QED
      BY <3>1, <3>2
  <2>4. Midnight(z, n) <= t /\ t < Midnight(z, n + 1)
    BY <1>5, <2>1 DEF IsDayOf, Number
  <2> QED
    BY <2>1, <2>2, <2>3, <2>4
<1>6. CASE ~ window.has
  <2>1. in.mode = ""
    BY <1>1, <1>6, ZoneAssumption
    DEF ResolveWindow, Invalid, PorDia, PorRango, PorMes, PorAnio, UtcWindow, NoWindow
  <2>2. AskedFor(in, c)
    BY <2>1 DEF AskedFor
  <2> QED
    BY <1>3, <1>6, <2>2
<1>7. CASE window.has
  <2>1. ASSUME NEW o \in RowDay
        PROVE  Covers(in, window, o)
    BY <1>4, <1>7, WindowsAreWhole
  <2>2. ASSUME window.start <= t, t < window.end
        PROVE  AskedFor(in, c)
    <3>1. PICK from, to \in Int : /\ from = Midnight(in.tz, Number(c))
                                  /\ to = Midnight(in.tz, Number(c) + 1)
                                  /\ from <= t /\ t < to
      BY <1>3, <1>5
    <3>2. Covers(in, window, c)
      BY <2>1
    <3> QED
      BY <1>2, <2>2, <3>1, <3>2 DEF Covers
  <2>3. ASSUME NEW o \in RowDay, AskedFor(in, o), IsDayOf(o, in.tz, t)
        PROVE  window.start <= t /\ t < window.end
    <3>1. PICK from, to \in Int : /\ from = Midnight(in.tz, Number(o))
                                  /\ to = Midnight(in.tz, Number(o) + 1)
                                  /\ from <= t /\ t < to
      BY <1>5, <2>3
    <3>2. Covers(in, window, o)
      BY <2>1
    <3> QED
      BY <1>2, <2>3, <3>1, <3>2 DEF Covers
  <2> QED
    BY <1>3, <1>7, <2>2, <2>3
<1> QED
  BY <1>6, <1>7

(* A walk from the first page to the last, or an export, shows the rows of *)
(* the days asked for, each of them once, for every table, page size and   *)
(* width of an int that counts the rows.                                   *)
LEMMA WholeWalk ==
    ASSUME WalkInv
    PROVE  WalkSeesAll
<1> SUFFICES ASSUME reply.code = "ok", first = 1, reply.page >= reply.pages
             PROVE  /\ IsInjective(shown)
                    /\ ToSet(shown) =
                         {i \in DOMAIN table :
                            /\ \E c \in RowDay :
                                  /\ AskedFor(asked.period, c)
                                  /\ IsDayOf(c, asked.period.tz, table[i]["starts_at"])
                            /\ \A col \in {"event_type", "event_status"} :
                                  \/ col \notin DOMAIN asked.filter
                                  \/ asked.filter[col] = table[i][col]}
  BY DEF WalkSeesAll
<1>1. TableOK /\ ValidInput(asked)
  BY DEF WalkInv, Collected
<1>2. PICK I, sort : I = Matching(asked) /\ sort = SortOf(asked)
  OBVIOUS
<1>3. I \in SUBSET DOMAIN table /\ IsFiniteSet(I)
  BY <1>1, <1>2, MatchingIsFinite
<1>4. PICK s \in Orders(I, sort) :
      \E from \in 0 .. Len(s), to \in 0 .. Len(s) :
         shown = SubSeq(s, from + 1, to) /\ from = 0 /\ to = Len(s)
  BY <1>2 DEF WalkInv, Collected
<1>5. PICK n \in Nat : n = Len(s) /\ n = Cardinality(I)
  BY <1>3, OrderEnumerates
<1>6. /\ s \in Seq(I) /\ s \in [1 .. n -> I]
      /\ \A p, q \in 1 .. n : s[p] = s[q] => p = q
      /\ \A i \in I : \E p \in 1 .. n : s[p] = i
  BY <1>3, <1>5, OrderEnumerates
<1>7. shown = s
  <2>1. shown = SubSeq(s, 0 + 1, Len(s))
    BY <1>4
  <2>2. SubSeq(s, 1, Len(s)) = s
    BY <1>6, SubSeqFull
  <2>3. 0 + 1 = 1
    OBVIOUS
  <2> QED
    BY <2>1, <2>2, <2>3
<1>8. IsInjective(shown)
  BY <1>6, <1>7 DEF IsInjective
<1>9. ToSet(shown) = I
  BY <1>6, <1>7 DEF ToSet
<1>10. ASSUME NEW i \in DOMAIN table
       PROVE  i \in I <=>
                 /\ \E c \in RowDay :
                       /\ AskedFor(asked.period, c)
                       /\ IsDayOf(c, asked.period.tz, table[i]["starts_at"])
                 /\ \A col \in {"event_type", "event_status"} :
                       \/ col \notin DOMAIN asked.filter
                       \/ asked.filter[col] = table[i][col]
  <2>1. PICK in \in Period : in = asked.period /\ ResolveWindow(in).code = "ok"
    BY <1>1 DEF ValidInput
  <2>2. PICK row, t : row \in Row /\ row = table[i] /\ t = row["starts_at"]
    BY <1>1 DEF TableOK
  <2>3. PICK window : window = ResolveWindow(in)
    OBVIOUS
  <2>4. (window.has => window.start <= t /\ t < window.end)
           <=> \E c \in RowDay : AskedFor(in, c) /\ IsDayOf(c, in.tz, t)
    BY <2>1, <2>2, <2>3, InWindow
  <2>5. (\A col \in DOMAIN asked.filter : table[i][col] = asked.filter[col])
           <=> \A col \in {"event_type", "event_status"} :
                  \/ col \notin DOMAIN asked.filter
                  \/ asked.filter[col] = table[i][col]
    BY <1>1 DEF ValidInput
  <2>6. i \in I <=> /\ window.has => window.start <= t /\ t < window.end
                    /\ \A col \in DOMAIN asked.filter :
                          table[i][col] = asked.filter[col]
    BY <1>2, <2>1, <2>2, <2>3 DEF Matching
  <2> QED
    BY <2>1, <2>2, <2>4, <2>5, <2>6
<1> QED
  BY <1>3, <1>8, <1>9, <1>10

(* Who walks from the first page to the last sees every event of the days  *)
(* asked for, and no other one, once: for every table, page size, sort key *)
(* and width of an int that can count the rows.                            *)
THEOREM WalksSeeAll == QuerySpec => []WalkSeesAll
<1>1. WalkInv => WalkSeesAll
  BY WholeWalk
<1> QED
  BY <1>1, WalkInvariance, PTL
=============================================================================
