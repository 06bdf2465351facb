----------------------------- MODULE EventQuery -----------------------------
(***************************************************************************)
(* QueryEvents and ExportEvents as algorithms: how the parameters of the   *)
(* URL are parsed, validated and normalised, what the SELECT returns of    *)
(* the window QueryWindow resolves the period to, and a client             *)
(* that walks the pages of a query while nothing else writes.  The rows    *)
(* are those of one user.                                                  *)
(*                                                                         *)
(* SQL leaves the order of rows with equal keys open, and may choose it    *)
(* anew in every SELECT: a page is a slice of any order that ORDER BY      *)
(* admits.                                                                 *)
(***************************************************************************)
EXTENDS QueryWindow, SequencesExt

CONSTANTS
    RowId,      \* ids of the events, in their order
    Row,        \* rows an event can have: Column -> Int (a bound)
    Input,      \* what requests ask for: page, size (0 stands for none), sort
                \* (a pair <<field, direction>>), period and filter (a function
                \* from columns)
    NotANumber, \* where an int should be: letters, or too many digits
    RowDay,     \* the civil days the rows lie in
    EnumValue,  \* the values of type and status that the domain knows
    IntBits     \* width of an int (64 in the program)

(* The rows of a table can be counted in an int.                           *)
ASSUME QueryAssumption ==
    /\ RowId \subseteq Int
    /\ IntBits \in Nat \ {0}
    /\ IsFiniteSet(RowId) /\ Cardinality(RowId) < 2^(IntBits - 1)
    /\ \A c \in RowDay : IsDate(c)
    /\ \A r \in Row, z \in Zone : \E c \in RowDay : IsDayOf(c, z, r["starts_at"])

VARIABLES
    table,      \* the events of the user: id -> row
    asked,      \* the input of the last request
    reply,      \* and its response
    first,      \* the page the client began at
    shown       \* what it has collected, page after page

queryVars == <<table, asked, reply, first, shown>>

DefaultPageSize == 20

MaxPageSize == 100

DefaultSort == <<"startsAt", "asc">>

NoSort == <<"", "">>

SortColumns ==
    [field \in {"startsAt", "createdAt", "updatedAt", "eventType", "eventStatus"} |->
        CASE field = "startsAt" -> "starts_at"
          [] field = "createdAt" -> "created_at"
          [] field = "updatedAt" -> "updated_at"
          [] field = "eventType" -> "event_type"
          [] field = "eventStatus" -> "event_status"]

ASSUME RowAssumption ==
    \A r \in Row, field \in DOMAIN SortColumns : r[SortColumns[field]] \in Int

-----------------------------------------------------------------------------
(* Parsing, validation and normalisation.                                  *)

(* parseQueryInput: the numbers of the URL.                                *)
ParsesOK(in) ==
    /\ NotANumber \notin {in.page, in.size}
    /\ \A k \in {"year", "month"} \cap DOMAIN in.period : in.period[k] # NotANumber

ASSUME InputAssumption ==
    \A in \in Input :
        /\ in = [page |-> in.page, size |-> in.size, sort |-> in.sort,
                 period |-> in.period, filter |-> in.filter]
        /\ ParsesOK(in) => in.page \in Int /\ in.size \in Int /\ in.period \in Period
        /\ DOMAIN in.filter \subseteq {"event_type", "event_status"}

FiltersOK(in) == \A col \in DOMAIN in.filter : in.filter[col] \in EnumValue

PagingOK(in) == in.page >= 0 /\ in.size >= 0

PageNumber(in) == IF in.page = 0 THEN 1 ELSE in.page

PageSize(in) ==
    CASE in.size = 0 -> DefaultPageSize
      [] in.size > MaxPageSize -> MaxPageSize
      [] OTHER -> in.size

SortOK(in) ==
    \/ in.sort = NoSort
    \/ in.sort[1] \in DOMAIN SortColumns /\ in.sort[2] \in {"asc", "desc"}

SortOf(in) == IF in.sort = NoSort THEN DefaultSort ELSE in.sort

(* Two's complement: what an int holds of x.                               *)
Wrap(x) == ((x + 2^(IntBits - 1)) % 2^IntBits) - 2^(IntBits - 1)

Offset(in) == Wrap((PageNumber(in) - 1) * PageSize(in))

(* Mutant: the last page, unless it is full, is forgotten.                 *)
CeilDiv_Floor(a, b) == a \div b

CeilDiv(a, b) == IF a <= 0 THEN 0 ELSE (a + b - 1) \div b

-----------------------------------------------------------------------------
(* The two statements of the repository.                                   *)

Matching(in) ==
    {i \in DOMAIN table :
        /\ LET window == ResolveWindow(in.period) IN
           window.has => /\ window.start <= table[i]["starts_at"]
                         /\ table[i]["starts_at"] < window.end
        /\ \A col \in DOMAIN in.filter : table[i][col] = in.filter[col]}

(* Mutant: ORDER BY without the id.                                        *)
Precedes_NoId(sort, i, j) ==
    LET key(k) == table[k][SortColumns[sort[1]]] IN
    IF sort[2] = "asc" THEN key(i) <= key(j) ELSE key(i) >= key(j)

(* ORDER BY column direction, id ASC.                                      *)
Precedes(sort, i, j) ==
    LET key(k) == table[k][SortColumns[sort[1]]] IN
    \/ IF sort[2] = "asc" THEN key(i) < key(j) ELSE key(i) > key(j)
    \/ key(i) = key(j) /\ i < j

Orders(I, sort) ==
    {s \in SetToSeqs(I) : \A m, n \in DOMAIN s : m < n => Precedes(sort, s[m], s[n])}

(* LIMIT limit OFFSET offset.                                              *)
Slice(s, offset, limit) ==
    SubSeq(s, offset + 1, IF offset + limit < Len(s) THEN offset + limit ELSE Len(s))

-----------------------------------------------------------------------------
(* The use cases.                                                          *)

NoReply == [code |-> "none", page |-> 0, pages |-> 0, total |-> 0, data |-> <<>>]

Fail(code) == [NoReply EXCEPT !.code = code]

(* Postgres refuses a negative OFFSET.                                     *)
QueryEvents(in) ==
    IF ~ ParsesOK(in)
    THEN {Fail("bad_request")}
    ELSE IF ~ (FiltersOK(in) /\ PagingOK(in) /\ SortOK(in)
                 /\ ResolveWindow(in.period).code = "ok")
    THEN {Fail("validation_failed")}
    ELSE IF Offset(in) < 0
    THEN {Fail("internal_error")}
    ELSE LET total == Cardinality(Matching(in)) IN
         {[code |-> "ok", page |-> PageNumber(in), total |-> total,
           pages |-> CeilDiv(total, PageSize(in)),
           data |-> Slice(s, Offset(in), PageSize(in))] :
             s \in Orders(Matching(in), SortOf(in))}

ExportEvents(in) ==
    IF ~ ParsesOK(in)
    THEN {Fail("bad_request")}
    ELSE IF ~ (FiltersOK(in) /\ ResolveWindow(in.period).code = "ok")
    THEN {Fail("validation_failed")}
    ELSE {[code |-> "ok", page |-> 1, total |-> Len(s), pages |-> 1, data |-> s] :
            s \in Orders(Matching(in), DefaultSort)}

-----------------------------------------------------------------------------
(* A client.                                                               *)

NoInput ==
    [page |-> 0, size |-> 0, sort |-> NoSort,
     period |-> [mode |-> "", tz |-> UnknownZone], filter |-> [col \in {} |-> 0]]

QueryInit ==
    /\ table \in UNION {[I -> Row] : I \in SUBSET RowId}
    /\ asked = NoInput
    /\ reply = NoReply
    /\ first = 0
    /\ shown = <<>>

Ask ==
    /\ reply = NoReply
    /\ asked' \in Input
    /\ reply' \in QueryEvents(asked')
    /\ first' = reply'.page
    /\ shown' = reply'.data
    /\ UNCHANGED table

NextPage ==
    /\ reply.code = "ok"
    /\ reply.page < reply.pages
    /\ asked' = [asked EXCEPT !.page = reply.page + 1]
    /\ reply' \in QueryEvents(asked')
    /\ shown' = shown \o reply'.data
    /\ UNCHANGED <<table, first>>

Export ==
    /\ reply = NoReply
    /\ asked' \in {in \in Input : in.sort = NoSort /\ in.page = 0 /\ in.size = 0}
    /\ reply' \in ExportEvents(asked')
    /\ first' = 1
    /\ shown' = reply'.data
    /\ UNCHANGED table

QueryNext == Ask \/ NextPage \/ Export

QuerySpec == QueryInit /\ [][QueryNext]_queryVars

-----------------------------------------------------------------------------
(* Properties.                                                             *)

(* Who walks from the first page to the last sees every event of the days  *)
(* asked for once: no page overlaps another or leaves a gap, whatever      *)
(* order each SELECT chooses among equal keys, the number of pages is      *)
(* right, and the window is neither short nor long.                        *)
WalkSeesAll ==
    reply.code = "ok" /\ first = 1 /\ reply.page >= reply.pages
      => /\ IsInjective(shown)
         /\ ToSet(shown) =
              {i \in DOMAIN table :
                  /\ \E c \in RowDay :
                        /\ AskedFor(asked.period, c)
                        /\ IsDayOf(c, asked.period.tz, table[i]["starts_at"])
                  /\ \A col \in {"event_type", "event_status"} :
                        \/ col \notin DOMAIN asked.filter
                        \/ asked.filter[col] = table[i][col]}

(* What has been shown, over all the pages, is in the order asked for.     *)
WalkInOrder ==
    reply.code = "ok"
      => LET sort == SortOf(asked)
             key(k) == table[shown[k]][SortColumns[sort[1]]] IN
         \A k \in 1 .. Len(shown) - 1 :
            /\ IF sort[2] = "asc" THEN key(k) <= key(k + 1) ELSE key(k) >= key(k + 1)
            /\ key(k) = key(k + 1) => shown[k] < shown[k + 1]

(* The days of the calendar are numbered one after the other, across       *)
(* months and leap years, and an event of a day is in the window exactly   *)
(* if the query asks for the day: each civil day of the zone, of 23, 24 or *)
(* 25 hours, is inside the window or outside of it as a whole.  The window *)
(* does not depend on the table: it is looked at where that is empty.      *)
WholeDaysAskedFor ==
    table = <<>> /\ reply.code = "ok" =>
        \A c \in Days :
            LET in == asked.period
                window == ResolveWindow(in)
                n == DayNumber(c.y, c.m, c.d)
                midnight == Midnight(in.tz, n)
                next == Midnight(in.tz, n + 1) IN
            /\ DayNumber(NextDay(c).y, NextDay(c).m, NextDay(c).d) = n + 1
            /\ window.has =>
                  IF AskedFor(in, c)
                  THEN window.start <= midnight /\ next <= window.end
                  ELSE next <= window.start \/ window.end <= midnight
=============================================================================
