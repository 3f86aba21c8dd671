------------------------------ MODULE Calendar ------------------------------
(***************************************************************************)
(* The date arithmetic that the services agree on without sharing it: the  *)
(* window a scheduled pull covers, the rollup bucket of a record, the      *)
(* bucket of a manual entry, the chunks of a backfill, the days a          *)
(* connector asks its source for and the windows of the metrics board.     *)
(*                                                                         *)
(*   services/ingestion/src/handlers/pull.ts        resolvePeriodWindow    *)
(*   services/ingestion/src/lib/rollup-debounce.ts  buckets                *)
(*   services/api/src/routes/entries.ts             buckets, granularity   *)
(*   services/api/src/routes/backfill.ts            chunkByDays            *)
(*   services/api/src/routes/metrics.ts             comparison windows     *)
(*   packages/connectors/src/*.ts                   asked days             *)
(*                                                                         *)
(* An instant is a number of hours since 1970-01-01T00Z.  What a Date of   *)
(* JavaScript does (its UTC setters carry a day or a month that overflows  *)
(* over) is modelled from its use.                                         *)
(***************************************************************************)
EXTENDS Integers, Sequences

Granularity       == {"hour", "day", "week", "month", "quarter"}
RollupGranularity == Granularity \ {"hour"}

(***************************************************************************)
(* Date, in UTC.                                                           *)
(***************************************************************************)
DaysBefore == <<0, 31, 59, 90, 120, 151, 181, 212, 243, 273, 304, 334>>

IsLeap(y) == y % 4 = 0 /\ (y % 100 # 0 \/ y % 400 = 0)

\* Date.UTC(y, m, d) in days, for any month m (0 is January) and day d.
UTC(y, m, d) ==
  LET year == y + m \div 12
      mon  == m % 12
  IN  365 * (year - 1970)
        + (year - 1969) \div 4 - (year - 1901) \div 100 + (year - 1601) \div 400
        + DaysBefore[mon + 1] + (IF mon > 1 /\ IsLeap(year) THEN 1 ELSE 0) + d - 1

Day(t)     == t \div 24
Hours(t)   == t % 24
Weekday(t) == (Day(t) + 4) % 7

\* The fields of a day, counted in years that begin on the first of March, so
\* that a leap day comes last, and in eras of 400 of them.
Fields(t) ==
  LET since == Day(t) + 719468
      inEra == since % 146097
      year  == (inEra - inEra \div 1460 + inEra \div 36524 - inEra \div 146096) \div 365
      inYear == inEra - (365 * year + year \div 4 - year \div 100)
      month == (5 * inYear + 2) \div 153
  IN  [year  |-> year + 400 * (since \div 146097) + (IF month < 10 THEN 0 ELSE 1),
       month |-> (month + 2) % 12,
       date  |-> inYear - (153 * month + 2) \div 5 + 1]

Year(t)  == Fields(t).year
Month(t) == Fields(t).month
Date(t)  == Fields(t).date

\* setUTCHours(h, 0, 0, 0), setUTCDate, setUTCMonth, setUTCFullYear.
SetHours(t, h) == 24 * Day(t) + h
SetDate(t, d)  == LET f == Fields(t) IN 24 * UTC(f.year, f.month, d) + Hours(t)
SetMonth(t, m) == LET f == Fields(t) IN 24 * UTC(f.year, m, f.date) + Hours(t)
SetYear(t, y)  == LET f == Fields(t) IN 24 * UTC(y, f.month, f.date) + Hours(t)

Midnight(t) == SetHours(t, 0)
Monday(t)   == SetDate(t, Date(t) - ((Weekday(t) + 6) % 7))
First(t)    == SetDate(t, 1)

(***************************************************************************)
(* resolvePeriodWindow without a period in the job: the last whole hour,   *)
(* day, week, month or quarter before now.                                 *)
(***************************************************************************)
\* A slip: the month is taken from the month before the day is set to the first.
WindowEndUnset(now, g) ==
  CASE g = "hour"    -> now
    [] g = "day"     -> Midnight(now)
    [] g = "week"    -> Monday(Midnight(now))
    [] g = "month"   -> First(Midnight(now))
    [] g = "quarter" -> SetMonth(Midnight(now), Month(now) - (Month(now) % 3))

WindowEnd(now, g) ==
  CASE g = "hour"    -> now
    [] g = "day"     -> Midnight(now)
    [] g = "week"    -> Monday(Midnight(now))
    [] g = "month"   -> First(Midnight(now))
    [] g = "quarter" -> LET e == First(Midnight(now))
                        IN  SetMonth(e, Month(e) - (Month(e) % 3))

Window(now, g) ==
  LET end == WindowEnd(now, g)
      start == CASE g = "hour"    -> end - 1
                 [] g = "day"     -> SetDate(end, Date(end) - 1)
                 [] g = "week"    -> SetDate(end, Date(end) - 7)
                 [] g = "month"   -> SetMonth(end, Month(end) - 1)
                 [] g = "quarter" -> SetMonth(end, Month(end) - 3)
  IN  [start |-> start, end |-> end]

(***************************************************************************)
(* Rollup buckets, in the ingestion and once more in the API.              *)
(***************************************************************************)
MapToRollup(g) == IF g = "hour" THEN "day" ELSE g

BucketStart(t, g) ==
  LET d == Midnight(t)
  IN  CASE g = "day"     -> d
        [] g = "week"    -> Monday(d)
        [] g = "month"   -> First(d)
        [] g = "quarter" -> LET f == First(d) IN SetMonth(f, Month(f) - (Month(f) % 3))

BucketEnd(start, g) ==
  CASE g = "day"     -> SetDate(start, Date(start) + 1)
    [] g = "week"    -> SetDate(start, Date(start) + 7)
    [] g = "month"   -> SetMonth(start, Month(start) + 1)
    [] g = "quarter" -> SetMonth(start, Month(start) + 3)

\* A slip: weeks that begin on the day they contain.
EntryBucketStartRolling(t, g) == IF g = "week" THEN Midnight(t) ELSE BucketStart(t, g)

EntryBucketStart(t, g) ==
  LET d == Midnight(t)
  IN  CASE g = "day"     -> d
        [] g = "week"    -> SetDate(d, Date(d) - ((Weekday(d) + 6) % 7))
        [] g = "month"   -> SetDate(d, 1)
        [] g = "quarter" -> LET f == SetDate(d, 1) IN SetMonth(f, Month(f) - (Month(f) % 3))

EntryBucketEnd(start, g) ==
  CASE g = "day"     -> SetDate(start, Date(start) + 1)
    [] g = "week"    -> SetDate(start, Date(start) + 7)
    [] g = "month"   -> SetMonth(start, Month(start) + 1)
    [] g = "quarter" -> SetMonth(start, Month(start) + 3)

WeekBucketStart(t) == LET x == 24 * UTC(Year(t), Month(t), Date(t))
                      IN  SetDate(x, Date(x) - ((Weekday(x) + 6) % 7))

\* inferManualGranularity: what a manual entry's period is, if anything.
InferGranularity(start, end) ==
  LET week == WeekBucketStart(start)
      midnights == Hours(start) = 0 /\ Hours(end) = 0
  IN  CASE midnights /\ start = week /\ end = SetDate(week, Date(week) + 7) -> "week"
        [] /\ midnights /\ Date(start) = 1 /\ Date(end) = 1
           /\ end = 24 * UTC(Year(start), Month(start) + 1, 1) -> "month"
        [] OTHER -> "none"

(***************************************************************************)
(* Chunks of a backfill, and the days a chunk's pull asks for.             *)
(***************************************************************************)
\* The number of days a range spans, the last one begun or not.
Begun(start, end) == (end - start + 23) \div 24

\* A slip: the last chunk is not cut at the end of the range.
ChunksUncut(start, end, size) ==
  [i \in 1..((Begun(start, end) + size - 1) \div size) |->
     [start |-> SetDate(start, Date(start) + (i - 1) * size),
      end   |-> SetDate(start, Date(start) + i * size)]]

\* chunkByDays: its cursor moves by size days, its last chunk ends with the range.
Chunks(start, end, size) ==
  [i \in 1..((Begun(start, end) + size - 1) \div size) |->
     LET cursor == SetDate(start, Date(start) + (i - 1) * size)
         next   == SetDate(cursor, Date(cursor) + size)
     IN  [start |-> cursor, end |-> IF next > end THEN end ELSE next]]

\* toGa4DateRange names the first and the last day, both included.
Ga4Days(start, end) ==
  LET last == Day(SetDate(end, Date(end) - 1))
  IN  IF end <= start \/ Day(start) = Day(end) \/ last < Day(start)
      THEN {Day(start)} ELSE Day(start) .. last

\* toCloudflareDateWindow names the first day and the first day after.
CloudflareDays(start, end) ==
  LET after == IF Day(start) = Day(end) /\ end > start
               THEN UTC(Year(start), Month(start), Date(start) + 1)
               ELSE Day(end)
  IN  Day(start) .. (after - 1)

AskedDays(source, start, end) ==
  IF source = "ga4" THEN Ga4Days(start, end) ELSE CloudflareDays(start, end)

(***************************************************************************)
(* computeComparisonWindows of the metrics board.                          *)
(***************************************************************************)
Period     == {"week", "month", "quarter", "ytd"}
Comparison == {"yoy", "qoq", "mom", "none"}

BoardStart(end, period) ==
  CASE period = "week"    -> SetDate(end, Date(end) - 7)
    [] period = "month"   -> SetMonth(end, Month(end) - 1)
    [] period = "quarter" -> SetMonth(end, Month(end) - 3)
    [] period = "ytd"     -> First(SetMonth(end, 0))

\* A slip: the month before January is looked for in the same year.
EarlierSameYear(t, comparison) ==
  CASE comparison = "yoy"  -> SetYear(t, Year(t) - 1)
    [] comparison = "qoq"  -> SetMonth(t, (Month(t) + 9) % 12)
    [] comparison = "mom"  -> SetMonth(t, (Month(t) + 11) % 12)
    [] comparison = "none" -> t

Earlier(t, comparison) ==
  CASE comparison = "yoy"  -> SetYear(t, Year(t) - 1)
    [] comparison = "qoq"  -> SetMonth(t, Month(t) - 3)
    [] comparison = "mom"  -> SetMonth(t, Month(t) - 1)
    [] comparison = "none" -> t

BoardWindows(now, period, comparison) ==
  LET end   == 24 * UTC(Year(now), Month(now), Date(now))
      start == BoardStart(end, period)
  IN  [cur  |-> [start |-> start, end |-> end],
       prev |-> [start |-> Earlier(start, comparison), end |-> Earlier(end, comparison)]]

(***************************************************************************)
(* What all of this has to amount to, said without setters.                *)
(***************************************************************************)
\* The instants at which a period of granularity g begins.
Boundary(t, g) ==
  \/ g = "hour"
  \/ /\ Hours(t) = 0
     /\ g = "week" => Weekday(t) = 1
     /\ g \in {"month", "quarter"} => Date(t) = 1
     /\ g = "quarter" => Month(t) \in {0, 3, 6, 9}

\* [start, end) is one period of granularity g.
IsPeriod(start, end, g) ==
  /\ start < end /\ Boundary(start, g) /\ Boundary(end, g)
  /\ IF g = "hour" THEN end = start + 1
     ELSE \A d \in (Day(start) + 1) .. (Day(end) - 1) : ~Boundary(24 * d, g)

\* It is the last one that is over at `now`.
IsLastPeriod(window, now, g) ==
  /\ IsPeriod(window.start, window.end, g)
  /\ window.end <= now
  /\ IF g = "hour" THEN window.end = now
     ELSE \A d \in (Day(window.end) + 1) .. Day(now) : ~Boundary(24 * d, g)

DaysIn(window) == (window.end - window.start) \div 24
WholeDays(start, end)   == {d \in Day(start) .. Day(end) : 24 * d >= start /\ 24 * d + 24 <= end}
TouchedDays(start, end) == {d \in Day(start) .. Day(end) : 24 * d < end /\ 24 * d + 24 > start}
=============================================================================
