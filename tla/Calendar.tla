------------------------------- MODULE Calendar -------------------------------
(***************************************************************************)
(* Dates and hours: which night shift is the last, what "today", a month   *)
(* and a week are, and what a period is compared with.                     *)
(*                                                                         *)
(* An instant is an hour of UTC, a wall time an hour of the calendar in    *)
(* Cairo, and a date the number of a day; day 0 is a Monday.  Minutes      *)
(* decide nothing, since shifts and offsets change at full hours.          *)
(***************************************************************************)
EXTENDS Integers, FiniteSets, Sequences, Sums

CONSTANTS
  MonthLengths,  \* days of each month, a sequence
  Forward,       \* the instant at which summer time begins
  Backward,      \* the instant at which it ends
  FirstHour, LastHour,  \* bounds of the clock
  DailyUpTo,     \* days of a series by day, 90 in the code
  WeeklyUpTo,    \* days of a series by week, 365 in the code
  TrendMonths    \* months of the trend, 6 in the code

VARIABLES
  clock,  \* the instant
  inquiry   \* what somebody asks for at this instant, if anything

calendarVars == <<clock, inquiry>>

HoursOfDay == 24
ShiftStart == 16
ShiftEnd == 6
ShiftHours == 14

\* Cairo: two hours ahead, three in summer.
Offset(i) == IF Forward <= i /\ i < Backward THEN 3 ELSE 2
WallTime(i) == i + Offset(i)

\* Summer time begins at the midnight that it skips, and ends at midnight.
ASSUME OffsetsChangeAtMidnight ==
  /\ Forward \in Int /\ Backward \in Int /\ Forward < Backward
  /\ (Forward + 2) % HoursOfDay = 0
  /\ (Backward + 3) % HoursOfDay = 0

ASSUME ClockHasBounds == FirstHour \in Int /\ LastHour \in Int
ASSUME MonthsHaveDays == MonthLengths \in Seq(Nat \ {0})
ASSUME TrendHasMonths == TrendMonths \in Nat \ {0}

\* dateKeyInTimeZone, hourInTimeZone
DateAt(i) == WallTime(i) \div HoursOfDay
HourAt(i) == WallTime(i) % HoursOfDay

-----------------------------------------------------------------------------
(* Months and weeks *)

Months == DOMAIN MonthLengths

MonthStart == [m \in Months |-> Total(MonthLengths, 1..(m - 1))]

MonthEnd(m) == MonthStart[m] + MonthLengths[m] - 1

MonthOf(d) == CHOOSE m \in Months : MonthStart[m] <= d /\ d <= MonthEnd(m)

\* Summer time begins on the last Friday of April.
ASSUME SummerBeginsWithinMonth ==
  \A m \in Months : (Forward + 2) \div HoursOfDay \notin {MonthStart[m], MonthEnd(m) + 1}

\* normalizeWeekStart
WeekStart(d) == d - (d % 7)

-----------------------------------------------------------------------------
(* Night shifts *)

\* Deliberately wrong: the last hour of the night is not over.
ReportingDateEarly(i) == IF HourAt(i) < ShiftEnd - 1 THEN DateAt(i) - 1 ELSE DateAt(i)

\* The night is reported under the date on which it began.
ReportingDate(i) == IF HourAt(i) < ShiftEnd THEN DateAt(i) - 1 ELSE DateAt(i)

\* Bound: the months that are given begin early enough for every comparison and
\* trend, and last until the clock stops.
ASSUME ClockInCalendar ==
  /\ \A back \in {3, TrendMonths} : back \in Months /\ MonthStart[back] <= ReportingDate(FirstHour)
  /\ DateAt(LastHour) <= MonthEnd(Len(MonthLengths))

LastCompletedShift(i) ==
  LET end == IF HourAt(i) >= ShiftEnd THEN DateAt(i) ELSE DateAt(i) - 1
  IN  [start |-> end - 1, end |-> end]

PreviousCompletedShift(shift) == [start |-> shift.start - 1, end |-> shift.end - 1]

\* isTimestampInShift, isHourInShift
InShift(i, shift) ==
  \/ DateAt(i) = shift.start /\ HourAt(i) >= ShiftStart
  \/ DateAt(i) = shift.end /\ HourAt(i) < ShiftEnd

\* calculateShiftCoverage: hours of the clock that have been recorded.
HasAllHours(shift, recorded) ==
  Cardinality({<<DateAt(i), HourAt(i)>> : i \in {j \in recorded : InShift(j, shift)}}) = ShiftHours

-----------------------------------------------------------------------------
(* Periods: from and to are dates, and both belong to the period *)

Period(from, to) == [from |-> from, to |-> to]
Always == [unbounded |-> TRUE]
Month(m) == Period(MonthStart[m], MonthEnd(m))
Length(period) == period.to - period.from + 1

\* Deliberately wrong: a shorter month before does not end.
ToDateUnclipped(m, today) == Period(MonthStart[m], MonthStart[m] + (today - MonthStart[m + 1]))

\* The month before the current one, as far as today in this one.
ToDate(m, today) ==
  LET same == MonthStart[m] + (today - MonthStart[m + 1])
  IN  Period(MonthStart[m], IF same < MonthEnd(m) THEN same ELSE MonthEnd(m))

\* todayRange, thisMonthRange, lastMonthRange, allTimeRange, customRange:
\* the period, and the one it is compared with.
RangeOf(request, i) ==
  LET today == ReportingDate(i)
      m == MonthOf(today)
  IN  CASE request.key = "today" -> <<Period(today, today), Period(today - 1, today - 1)>>
        [] request.key = "this-month" -> <<Period(MonthStart[m], today), ToDate(m - 1, today)>>
        [] request.key = "last-month" -> <<Month(m - 1), Month(m - 2)>>
        [] request.key = "all-time" -> <<Always, Always>>
        [] request.key = "custom" ->
             LET period == Period(request.from, request.to)
             IN  <<period, Period(period.from - Length(period), period.from - 1)>>

\* selectPerformanceGranularity
Granularity(period) ==
  IF period = Always \/ Length(period) > WeeklyUpTo THEN "month"
  ELSE IF Length(period) > DailyUpTo THEN "week" ELSE "day"

\* bucketDate
BucketOf(d, granularity) ==
  CASE granularity = "day" -> Period(d, d)
    [] granularity = "week" -> Period(WeekStart(d), WeekStart(d) + 6)
    [] granularity = "month" -> Month(MonthOf(d))

\* splitTransferFlagWeeks
FlagWeeks(period) ==
  {Period(start, IF start + 6 < period.to THEN start + 6 ELSE period.to) :
     start \in {d \in WeekStart(period.from)..period.to : WeekStart(d) = d}}

\* buildCalendarMonthWindows
TrendWindows(today) ==
  LET current == MonthOf(today)
  IN  {IF m = current THEN Period(MonthStart[m], today) ELSE Month(m) :
         m \in current - TrendMonths + 1..current}

-----------------------------------------------------------------------------
(* Wall times that people type *)

Refused == "refused"

\* One pass of localDateTimeToUtc: the candidate is moved by what it is off.
Pass(wall, candidate) == candidate + (wall - WallTime(candidate))

\* localDateTimeToUtc, parseSheetTimestamp
InstantOf(wall) ==
  LET i == Pass(wall, Pass(wall, wall))
  IN  IF WallTime(i) = wall THEN i ELSE Refused

\* resolveCommissionMonth: the instants between the local midnights.
CommissionMonth(m) ==
  InstantOf(MonthStart[m] * HoursOfDay)..(InstantOf((MonthEnd(m) + 1) * HoursOfDay) - 1)

-----------------------------------------------------------------------------
(* Time passes, and somebody asks *)

RangeKeys == {"today", "this-month", "last-month", "all-time"}
Nothing == [key |-> "nothing"]

\* The application may start at any hour.
CalendarInit ==
  /\ clock \in FirstHour..LastHour
  /\ inquiry = Nothing

NextHour ==
  /\ clock < LastHour
  /\ clock' = clock + 1
  /\ inquiry' = Nothing

AskRange(key) ==
  /\ inquiry = Nothing
  /\ inquiry' = [key |-> key]
  /\ UNCHANGED clock

\* Two dates, not later than the month in which they are chosen.
AskCustom(from, to) ==
  /\ inquiry = Nothing
  /\ from <= to
  /\ inquiry' = [key |-> "custom", from |-> from, to |-> to]
  /\ UNCHANGED clock

\* The trend of the months until now, and the commissions of this month.
AskTrend ==
  /\ inquiry = Nothing
  /\ inquiry' = [key |-> "trend"]
  /\ UNCHANGED clock

\* A cell with a wall time of about now.
ReadCell(wall) ==
  /\ inquiry = Nothing
  /\ inquiry' = [key |-> "cell", wall |-> wall]
  /\ UNCHANGED clock

CalendarNext ==
  \/ NextHour
  \/ \E key \in RangeKeys : AskRange(key)
  \/ AskTrend
  \/ \E from, to \in 0..MonthEnd(MonthOf(DateAt(clock))) : AskCustom(from, to)
  \/ \E wall \in WallTime(clock)-1..WallTime(clock)+1 : ReadCell(wall)

CalendarSpec == CalendarInit /\ [][CalendarNext]_calendarVars

-----------------------------------------------------------------------------
(* Properties *)

\* Nights follow each other: the last completed shift only changes in the hour
\* in which a night at work has ended, to that night, which is every hour since
\* it began and has the fourteen that coverage expects, unless summer time began
\* in it; the one before is the one that was last until then; and "today" is the
\* date on which the night at work began, until it is over (lastCompletedShift,
\* previousCompletedShift, isTimestampInShift, calculateShiftCoverage,
\* reportingDate).
NightsInTurn ==
  [][LET last == LastCompletedShift(clock)
         next == LastCompletedShift(clock')
         night == {i \in clock - HoursOfDay..clock' : InShift(i, next)}
     IN  /\ ReportingDate(clock') = next.end
         /\ next # last =>
              /\ PreviousCompletedShift(next) = last
              /\ \E began \in night : night = began..clock
              /\ HasAllHours(next, night) \/ Forward \in night]_calendarVars

\* What a range is compared with lies before it and is not longer, and no day is
\* lost between the two, except for a month that is not over.
Compared(range, with, key) ==
  range # Always =>
    /\ with.from <= with.to
    /\ with.to < range.from
    /\ Length(with) <= Length(range) \/ key = "last-month"
    /\ with.to + 1 = range.from \/ key = "this-month"

\* Every date of the range is in one of the periods, and in one only.
Tiled(periods, range) ==
  \A d \in range.from..range.to : Cardinality({p \in periods : p.from <= d /\ d <= p.to}) = 1

\* Ranges, the series and the weeks they are split into, the months of the trend,
\* and the instants of a commission month cover each day once, whenever somebody
\* asks; and a wall time that was ever shown is read as the instant, or one of
\* the two, at which it was, and no other is accepted (resolveOverviewDateRange,
\* bucketDate, splitTransferFlagWeeks, buildCalendarMonthWindows,
\* resolveCommissionMonth, localDateTimeToUtc).
CalendarTiles ==
  CASE inquiry.key = "nothing" -> TRUE
    [] inquiry.key = "cell" ->
         LET shown == {i \in inquiry.wall - 3..inquiry.wall : WallTime(i) = inquiry.wall}
         IN  IF shown = {} THEN InstantOf(inquiry.wall) = Refused ELSE InstantOf(inquiry.wall) \in shown
    [] inquiry.key = "trend" ->
         LET windows == TrendWindows(DateAt(clock))
             first == CHOOSE p \in windows : \A q \in windows : p.from <= q.from
         IN  /\ Cardinality(windows) = TrendMonths
             /\ Tiled(windows, Period(first.from, DateAt(clock)))
             /\ \A m \in Months : clock \in CommissionMonth(m) <=> m = MonthOf(DateAt(clock))
    [] OTHER ->
         LET range == RangeOf(inquiry, clock)[1]
         IN  /\ Compared(range, RangeOf(inquiry, clock)[2], inquiry.key)
             /\ range # Always =>
                  /\ Tiled({BucketOf(d, Granularity(range)) : d \in range.from..range.to}, range)
                  /\ Tiled(FlagWeeks(range), range)

=============================================================================
