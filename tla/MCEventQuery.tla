---------------------------- MODULE MCEventQuery ----------------------------
(* EventQuery on a small instance: every period of a calendar of three     *)
(* years around a leap day, with the default page, and every page, size,   *)
(* order and filter with few periods.  The rows differ in two of the       *)
(* columns a query can sort by, and lie around the midnights of a day of   *)
(* 23 hours.                                                               *)
EXTENDS EventQuery

(* UTC, and a zone that is an hour ahead in summer.                        *)
MCUtc == [std |-> 0, dst |-> 0, from |-> 0, to |-> 0]

MCNewYork == [std |-> -5, dst |-> -4, from |-> 70, to |-> 308]

MCZone == {MCUtc, MCNewYork}

MCYearIn == {-1, 0, 2023, 2024, 2025}

MCMonthIn == 0 .. 13

MCSpringForward == Date(2024, 3, 10)

MCDateIn ==
    {Date(2023, 2, 28), Date(2023, 12, 31), Date(2024, 2, 29),
     MCSpringForward, Date(2024, 3, 31), Date(2024, 12, 31)}

MCRowDay == {Date(2024, 3, 9), MCSpringForward, Date(2024, 3, 11)}

(* The last hour of that day, the hour before it, and the hour after it.   *)
MCLastHour == TimeDate(2024, 3, 11, MCNewYork) - 1

MCRow ==
    {[col \in {SortColumns[field] : field \in DOMAIN SortColumns} |->
        IF col = "starts_at" THEN t ELSE c] :
            t \in {MCLastHour - 23, MCLastHour, MCLastHour + 1}, c \in 0 .. 1}

MCSortIn ==
    {NoSort, <<"startsAt", "desc">>, <<"eventStatus", "asc">>,
     <<"updatedAt", "desc">>, <<"id", "asc">>, <<"startsAt", "up">>}

MCNoFilter == [col \in {} |-> 0]

MCFilterIn ==
    {MCNoFilter, [col \in {"event_status"} |-> 1], [col \in {"event_type"} |-> 7],
     [col \in {"event_type", "event_status"} |-> 0]}

MCFewPeriods ==
    {[mode |-> "", tz |-> MCUtc],
     [mode |-> "por_dia", tz |-> MCNewYork, date |-> MCSpringForward]}

MCBadYear == [mode |-> "por_anio", tz |-> MCUtc, year |-> NotANumber]

MCInput ==
    [page : {0}, size : {0}, sort : {NoSort}, period : Period \cup {MCBadYear},
     filter : {MCNoFilter}]
    \cup [page : -1 .. 3 \cup {NotANumber}, size : {-1, 0, 1, 2, 101},
          sort : MCSortIn, period : MCFewPeriods, filter : MCFilterIn]
=============================================================================
