-------------------------------- MODULE Calendar --------------------------------
(***************************************************************************)
(* What a calendar shows of one repeating event in a window of days: the   *)
(* bounded walk from the event's start that connectors/calendar/events.py  *)
(* makes of a recurrence rule, and the free slots computed from what the   *)
(* walk produced, beside what the rule means.                              *)
(*                                                                         *)
(* Days are numbers, day 0 a Monday; a moment is a half hour, 48 to a day; *)
(* the months are as long as MonthLengths says.                            *)
(***************************************************************************)
EXTENDS Naturals, FiniteSets, Sequences

CONSTANTS
    MonthLengths,     \* days of each month of the calendar
    Starts,           \* days events start on
    WindowOpens,      \* first day of the window
    WindowCloses,     \* first day after the window
    Turns,            \* rounds of the walk (800)
    From, To          \* half hours of the day a meeting lasts

ASSUME CalendarAssumption ==
    /\ MonthLengths \in Seq(Nat \ {0}) /\ Starts \subseteq Nat
    /\ WindowOpens \in Nat /\ WindowCloses \in Nat /\ WindowOpens < WindowCloses
    /\ Turns \in Nat /\ From \in 0..47 /\ To \in 1..48 /\ From < To

VARIABLES
    rule,        \* the event: where it starts, whether it is all-day, its RRULE
    cursor,      \* the day the walk has come to
    turn,        \* rounds made
    emitted,     \* occurrences counted
    instances        \* days of the occurrences produced

calendarVars == <<rule, cursor, turn, emitted, instances>>

Frequencies == {"DAILY", "WEEKLY", "MONTHLY"}
Weekdays    == 0..6

(* COUNT and UNTIL are 0 when the rule has none.                           *)
RRules == [freq : Frequencies, interval : {1, 2}, count : {0, 2}, until : {0, WindowOpens + 1},
           byDay : {{}, {0}, {0, 3}}, start : Starts, allDay : BOOLEAN]

-----------------------------------------------------------------------------
(* The calendar.                                                           *)

FirstOf[month \in 1..Len(MonthLengths) + 1] ==
    IF month = 1 THEN 0 ELSE FirstOf[month - 1] + MonthLengths[month - 1]
LastDay  == FirstOf[Len(MonthLengths) + 1] - 1
MonthOf(d) == CHOOSE month \in 1..Len(MonthLengths) : FirstOf[month] <= d /\ d < FirstOf[month + 1]
DayOfMonth(d) == d - FirstOf[MonthOf(d)] + 1
WeekOf(d)  == d \div 7
DayOfWeek(d) == d % 7

-----------------------------------------------------------------------------
(* The walk.                                                               *)

CalendarTypes ==
    /\ rule \in RRules /\ cursor \in Nat /\ turn \in 0..Turns
    /\ emitted \in Nat /\ instances \subseteq 0..LastDay

CalendarInit ==
    /\ rule \in RRules
    /\ cursor = rule.start
    /\ turn = 0
    /\ emitted = 0
    /\ instances = {}

Walked ==
    \/ turn = Turns
    \/ cursor > WindowCloses
    \/ rule.until # 0 /\ cursor > rule.until
    \/ rule.count # 0 /\ emitted >= rule.count

Matches(d) == rule.byDay = {} \/ DayOfWeek(d) \in rule.byDay

(* The moments of an occurrence as the code has them: an all-day event     *)
(* ends with the day its DTEND names, the day after its last.              *)
BeginsAt(d) == 48 * d + (IF rule.allDay THEN 0 ELSE From)
EndsAt(d)   == IF rule.allDay THEN 48 * (d + 2) ELSE 48 * d + To
InWindow(d) == BeginsAt(d) < 48 * WindowCloses /\ EndsAt(d) > 48 * WindowOpens

(* A monthly step keeps the day of the month, or takes the month's last.   *)
SameDayOf(d, months) ==
    LET month == MonthOf(d) + months
    IN  IF month > Len(MonthLengths) THEN LastDay + 1
        ELSE FirstOf[month] + (IF DayOfMonth(d) > MonthLengths[month] THEN MonthLengths[month]
                               ELSE DayOfMonth(d)) - 1

(* variant: a week is jumped over with its other days *)
AdvancedByWeeks(d) ==
    CASE rule.freq = "DAILY"   -> d + rule.interval
      [] rule.freq = "WEEKLY"  -> d + 7 * rule.interval
      [] rule.freq = "MONTHLY" -> SameDayOf(d, rule.interval)

Advanced(d) ==
    CASE rule.freq = "DAILY"   -> d + rule.interval
      [] rule.freq = "WEEKLY"  -> d + (IF rule.byDay # {} THEN 1 ELSE 7 * rule.interval)
      [] rule.freq = "MONTHLY" -> SameDayOf(d, rule.interval)

Consider ==
    /\ ~Walked
    /\ cursor <= LastDay
    /\ turn' = turn + 1
    /\ emitted' = IF Matches(cursor) THEN emitted + 1 ELSE emitted
    /\ instances' = IF Matches(cursor) /\ InWindow(cursor) THEN instances \union {cursor} ELSE instances
    /\ cursor' = Advanced(cursor)
    /\ UNCHANGED rule

CalendarNext == Consider
CalendarSpec == CalendarInit /\ [][CalendarNext]_calendarVars

(* free_slots: the working hours of a day nothing produced touches.        *)
WorkingHours == 9..17
FreeSlots(d) ==
    {h \in WorkingHours : \A e \in instances :
        ~(BeginsAt(e) < 48 * d + 2 * (h + 1) /\ EndsAt(e) > 48 * d + 2 * h)}

-----------------------------------------------------------------------------
(* What a rule means (RFC 5545).  A monthly rule by weekday is one the     *)
(* code does not claim to expand: it stands for its first instance alone.  *)

Recurring ==
    {d \in rule.start..LastDay :
       CASE rule.freq = "DAILY" ->
              (d - rule.start) % rule.interval = 0 /\ Matches(d)
         [] rule.freq = "WEEKLY" ->
              /\ (WeekOf(d) - WeekOf(rule.start)) % rule.interval = 0
              /\ IF rule.byDay = {} THEN DayOfWeek(d) = DayOfWeek(rule.start) ELSE Matches(d)
         [] rule.freq = "MONTHLY" ->
              /\ IF rule.byDay # {} THEN d = rule.start ELSE DayOfMonth(d) = DayOfMonth(rule.start)
              /\ (MonthOf(d) - MonthOf(rule.start)) % rule.interval = 0}

Occurrences ==
    {d \in Recurring : /\ rule.until # 0 => d <= rule.until
                       /\ rule.count # 0 => Cardinality(Recurring \intersect 0..d) <= rule.count}

TrueEnd(d) == IF rule.allDay THEN 48 * (d + 1) ELSE 48 * d + To
Due == {d \in Occurrences : BeginsAt(d) < 48 * WindowCloses /\ TrueEnd(d) > 48 * WindowOpens}
TrulyFree(d) ==
    {h \in WorkingHours : \A e \in Occurrences :
        ~(BeginsAt(e) < 48 * d + 2 * (h + 1) /\ TrueEnd(e) > 48 * d + 2 * h)}

(* Rules the walk gets right: no interval beside weekdays, no weekday      *)
(* beside months, a day every month has, a start the rounds can come from. *)
Plain ==
    /\ rule.freq = "WEEKLY" /\ rule.byDay # {} => rule.interval = 1
    /\ rule.freq = "MONTHLY" =>
         rule.byDay = {} /\ \A month \in DOMAIN MonthLengths : DayOfMonth(rule.start) <= MonthLengths[month]
    /\ WindowCloses - rule.start <= Turns

(* An occurrence that falls in the window is shown, whatever ends the walk *)
(* first, and a slot offered as free has no meeting in it; and for events  *)
(* with a time of day, nothing else is shown and no free slot withheld.    *)
CalendarKept ==
    (Walked /\ Plain) =>
        LET days == WindowOpens..WindowCloses - 1
        IN  /\ Due \subseteq instances
            /\ \A d \in days : FreeSlots(d) \subseteq TrulyFree(d)
            /\ ~rule.allDay => instances = Due /\ \A d \in days : FreeSlots(d) = TrulyFree(d)

(* A monthly rule by weekday (the third Thursday) keeps its original       *)
(* instance and no other: "an invented meeting in a brief is worse than a  *)
(* missing one" (expand).                                                  *)
ByWeekdayKeepsItsFirst ==
    rule.freq = "MONTHLY" /\ rule.byDay # {} => instances \subseteq {rule.start}
=============================================================================
