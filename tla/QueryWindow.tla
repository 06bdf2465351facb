---------------------------- MODULE QueryWindow -----------------------------
(***************************************************************************)
(* resolveWindow: from a query by day, range, month or year in a time zone *)
(* to a half-open window of instants.  The code leaves the calendar to     *)
(* time.Date, which takes a month 13 or a day 32 and normalises it; the    *)
(* reference here is a calendar that is walked a day at a time.            *)
(*                                                                         *)
(* An instant is a number of hours.  A zone gives, for each civil day, its *)
(* offset from UTC at midnight; the midnights are unambiguous (the zones   *)
(* with a transition at midnight are out of the code's scope).             *)
(***************************************************************************)
EXTENDS Integers

CONSTANTS
    FirstYear,    \* of the calendar (a bound)
    LastYear,
    Zone,         \* zones; each is [std, dst, from, to]: dst in some months
    YearIn,       \* values of 'year' in requests
    MonthIn,      \* values of 'month' in requests
    DateIn,       \* civil dates in requests
    BadDate,      \* a date that does not parse, or none
    UnknownZone   \* a zone that is not in the database

ASSUME CalendarAssumption ==
    /\ FirstYear \in Nat \ {0}
    /\ LastYear \in Nat
    /\ FirstYear <= LastYear

Date(y, m, d) == [y |-> y, m |-> m, d |-> d]

-----------------------------------------------------------------------------
(* The calendar.                                                           *)

IsLeap(y) == y % 4 = 0 /\ (y % 100 # 0 \/ y % 400 = 0)

DaysIn(y, m) ==
    CASE m = 2 -> IF IsLeap(y) THEN 29 ELSE 28
      [] m \in {4, 6, 9, 11} -> 30
      [] OTHER -> 31

Before(c, o) ==
    \/ c.y < o.y
    \/ c.y = o.y /\ c.m < o.m
    \/ c.y = o.y /\ c.m = o.m /\ c.d < o.d

NextDay(c) ==
    CASE c.d < DaysIn(c.y, c.m) -> [c EXCEPT !.d = @ + 1]
      [] c.d = DaysIn(c.y, c.m) /\ c.m < 12 -> Date(c.y, c.m + 1, 1)
      [] OTHER -> Date(c.y + 1, 1, 1)

IsDate(c) ==
    /\ c \in [y : Int, m : 1 .. 12, d : 1 .. 31]
    /\ c.d <= DaysIn(c.y, c.m)

Days == {c \in [y : FirstYear .. LastYear, m : 1 .. 12, d : 1 .. 31] : IsDate(c)}

(* time.Parse refuses a date the calendar does not have.                   *)
ASSUME InputDateAssumption ==
    /\ \A c \in DateIn : IsDate(c)
    /\ YearIn \subseteq Int /\ MonthIn \subseteq Int

(* Clocks are moved by two hours at most.                                  *)
ASSUME ZoneAssumption ==
    /\ UnknownZone \notin Zone
    /\ \A z \in Zone : z.std \in Int /\ z.dst \in Int /\ z.dst - z.std \in -2 .. 2

-----------------------------------------------------------------------------
(* time.Date: the days before a year, before a month, and the rest added   *)
(* up, after the month is brought into 1..12.                              *)

DaysBeforeYear(y) ==
    365 * (y - 1) + (y - 1) \div 4 - (y - 1) \div 100 + (y - 1) \div 400

DaysBeforeMonth ==
    <<0, 31, 59, 90, 120, 151, 181, 212, 243, 273, 304, 334>>

DayNumber(y, m, d) ==
    LET year == y + (m - 1) \div 12
        month == ((m - 1) % 12) + 1 IN
    DaysBeforeYear(year) + DaysBeforeMonth[month]
        + (IF month > 2 /\ IsLeap(year) THEN 1 ELSE 0) + d - 1

(* A day's place in its year, which decides whether the zone is in summer  *)
(* time at its midnight.                                                   *)
DayOfYear(n) ==
    LET y == CHOOSE y \in FirstYear - 1 .. LastYear + 2 :
                DaysBeforeYear(y) <= n /\ n < DaysBeforeYear(y + 1) IN
    n - DaysBeforeYear(y)

UTCOffset(z, n) ==
    IF z.from <= DayOfYear(n) /\ DayOfYear(n) < z.to THEN z.dst ELSE z.std

(* The instant of the midnight day n begins with.                          *)
Midnight(z, n) == 24 * n - UTCOffset(z, n)

TimeDate(y, m, d, z) == Midnight(z, DayNumber(y, m, d))

-----------------------------------------------------------------------------
(* resolveWindow.                                                          *)

NoWindow == [code |-> "ok", has |-> FALSE, start |-> 0, end |-> 0]

Invalid == [NoWindow EXCEPT !.code = "validation_failed"]

UtcWindow(start, end) == [code |-> "ok", has |-> TRUE, start |-> start, end |-> end]

PorRango(in) ==
    IF BadDate \in {in.from, in.to} \/ Before(in.to, in.from) THEN Invalid
    ELSE UtcWindow(TimeDate(in.from.y, in.from.m, in.from.d, in.tz),
                   TimeDate(in.to.y, in.to.m, in.to.d + 1, in.tz))

(* Mutant: a day is 24 hours.                                              *)
PorDia_24h(in) ==
    LET start == TimeDate(in.date.y, in.date.m, in.date.d, in.tz) IN
    IF in.date = BadDate THEN Invalid
    ELSE UtcWindow(start, start + 24)

PorDia(in) ==
    IF in.date = BadDate THEN Invalid
    ELSE UtcWindow(TimeDate(in.date.y, in.date.m, in.date.d, in.tz),
                   TimeDate(in.date.y, in.date.m, in.date.d + 1, in.tz))

PorMes(in) ==
    IF in.year < 1 \/ in.month \notin 1 .. 12 THEN Invalid
    ELSE UtcWindow(TimeDate(in.year, in.month, 1, in.tz),
                   TimeDate(in.year, in.month + 1, 1, in.tz))

PorAnio(in) ==
    IF in.year < 1 THEN Invalid
    ELSE UtcWindow(TimeDate(in.year, 1, 1, in.tz),
                   TimeDate(in.year + 1, 1, 1, in.tz))

ResolveWindow(in) ==
    IF in.tz = UnknownZone THEN Invalid
    ELSE CASE in.mode = "" -> NoWindow
           [] in.mode = "por_dia" -> PorDia(in)
           [] in.mode = "por_rango" -> PorRango(in)
           [] in.mode = "por_mes" -> PorMes(in)
           [] in.mode = "por_anio" -> PorAnio(in)
           [] OTHER -> Invalid

-----------------------------------------------------------------------------
(* The queries.                                                            *)

Period ==
    LET zones == Zone \cup {UnknownZone}
        dates == DateIn \cup {BadDate} IN
    [mode : {"", "semanal"}, tz : zones]
    \cup [mode : {"por_dia"}, tz : zones, date : dates]
    \cup [mode : {"por_rango"}, tz : zones, from : dates, to : dates]
    \cup [mode : {"por_mes"}, tz : zones, year : YearIn, month : MonthIn]
    \cup [mode : {"por_anio"}, tz : zones, year : YearIn]

(* The days a query asks for.                                              *)
AskedFor(in, c) ==
    CASE in.mode = "por_dia" -> c = in.date
      [] in.mode = "por_rango" -> ~ Before(c, in.from) /\ ~ Before(in.to, c)
      [] in.mode = "por_mes" -> c.y = in.year /\ c.m = in.month
      [] in.mode = "por_anio" -> c.y = in.year
      [] OTHER -> TRUE

(* The civil day of an instant in a zone.                                  *)
IsDayOf(c, z, t) ==
    LET n == DayNumber(c.y, c.m, c.d) IN
    Midnight(z, n) <= t /\ t < Midnight(z, n + 1)
=============================================================================
