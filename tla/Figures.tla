-------------------------------- MODULE Figures --------------------------------
(***************************************************************************)
(* The daily figures of one metric and what is said of them: the detector  *)
(* of analysis/anomaly.py, which judges the latest day against those       *)
(* before it, and the comparison of two weeks of proactive/weekly.py.      *)
(*                                                                         *)
(* Figures are whole numbers; a median is kept doubled and the median of   *)
(* the deviations from it four-fold, so nothing is rounded.                *)
(***************************************************************************)
EXTENDS Integers, FiniteSetsExt, Orders

CONSTANTS
    Values,         \* figures a day may have
    Days,           \* bound: days
    Week,           \* days of a week
    MinHistory,     \* points before any judgement
    MinSeasonal     \* points of a weekday before it is judged by its own kind

ASSUME FiguresAssumption ==
    /\ Values \subseteq Nat /\ Days \in Nat /\ Week \in Nat \ {0}
    /\ MinHistory \in Nat \ {0} /\ MinSeasonal \in Nat \ {0}

VARIABLES
    day,        \* today
    series      \* the days with a figure, and the figure

figuresVars == <<day, series>>

(* MetricStore.history: at most one figure a day, and days without one.    *)
Histories(upTo) == UNION {[measured -> Values] : measured \in SUBSET (1..upTo)}

FiguresTypes == day \in 0..Days /\ series \in Histories(day)

FiguresInit == day = 0 /\ series = <<>>

(* A day passes, and its figure is recorded or is not.                     *)
Record(v) ==
    /\ day < Days
    /\ day' = day + 1
    /\ series' = [d \in DOMAIN series \union {day + 1} |-> IF d = day + 1 THEN v ELSE series[d]]
Miss == day < Days /\ day' = day + 1 /\ UNCHANGED series

FiguresNext == (\E v \in Values : Record(v)) \/ Miss
FiguresSpec == FiguresInit /\ [][FiguresNext]_figuresVars

-----------------------------------------------------------------------------
(* The detector.                                                           *)

Distance(a, b) == IF a < b THEN b - a ELSE a - b

(* Twice the median of what f gives.                                       *)
ByFigure(f) ==
    {ab \in (DOMAIN f) \X (DOMAIN f) :
       f[ab[1]] < f[ab[2]] \/ (f[ab[1]] = f[ab[2]] /\ ab[1] < ab[2])}
Median2(f) ==
    LET sorted == Sorted(DOMAIN f, ByFigure(f))
        n == Cardinality(DOMAIN f)
    IN  f[sorted[(n + 1) \div 2]] + f[sorted[n \div 2 + 1]]

Latest   == Max(DOMAIN series)
Past     == DOMAIN series \ {Latest}
SameDay  == {d \in Past : d % Week = Latest % Week}
Seasonal == Cardinality(SameDay) >= MinSeasonal
Sample   == IF Seasonal THEN SameDay ELSE Past
Baseline2 == Median2([d \in Sample |-> series[d]])
Spread4   == Median2([d \in Sample |-> Distance(2 * series[d], Baseline2)])

(* How far a value lies from the baseline, doubled; min_absolute_change is *)
(* one.                                                                    *)
Moved2(v) == Distance(2 * v, Baseline2)

(* variant: a threshold of 0.35 *)
UnlikelyTooSoon(v) == 2 * 6745 * Moved2(v) >= 3500 * Spread4

(* |v - baseline| / (mad / 0.6745) against 3.5.                            *)
Unlikely(v) == 2 * 6745 * Moved2(v) >= 35000 * Spread4

(* A flat history has no spread: any move of one or more is news.          *)
Anomalous(v) == Moved2(v) >= 2 /\ (Spread4 = 0 \/ Unlikely(v))

Assess ==
    IF Cardinality(DOMAIN series) < MinHistory + 1
    THEN "undetermined"
    ELSE IF Anomalous(series[Latest]) THEN "anomalous" ELSE "normal"

-----------------------------------------------------------------------------
(* The two weeks.                                                          *)

ThisWeek == {d \in DOMAIN series : d > day - Week}
LastWeek == {d \in DOMAIN series : day - 2 * Week < d /\ d <= day - Week}

Total(S) ==
    LET upTo[d \in 0..day] == IF d = 0 THEN 0 ELSE upTo[d - 1] + (IF d \in S THEN series[d] ELSE 0)
    IN  upTo[day]

(* A mean, to a tenth, in tenths.                                          *)
Tenths(S) == (20 * Total(S) + Cardinality(S)) \div (2 * Cardinality(S))

Compared == ThisWeek # {} /\ LastWeek # {}
Direction ==
    CASE Tenths(ThisWeek) > Tenths(LastWeek) -> "up"
      [] Tenths(ThisWeek) < Tenths(LastWeek) -> "down"
      [] OTHER -> "unchanged"

-----------------------------------------------------------------------------
(* The detector is biased against firing: what it calls unusual lies       *)
(* farther from the baseline than at least half of the days it was judged  *)
(* by, and had it lain farther still it would be unusual too.              *)
OutliersStandOut ==
    Assess = "anomalous" =>
        /\ 2 * Cardinality({d \in Sample : Moved2(series[d]) < Moved2(series[Latest])})
             >= Cardinality(Sample)
        /\ \A v \in Values : Moved2(v) >= Moved2(series[Latest]) => Anomalous(v)

(* A week is called up only if some day of it is above some day of the     *)
(* last, and no day counts for both.                                       *)
WeeksCompare ==
    Compared =>
        /\ ThisWeek \intersect LastWeek = {}
        /\ Direction = "up" => \E a \in ThisWeek, b \in LastWeek : series[a] > series[b]
        /\ Direction = "down" => \E a \in ThisWeek, b \in LastWeek : series[a] < series[b]

(* What is said of the figures follows from them.                          *)
FiguresAreJust == OutliersStandOut /\ WeeksCompare
=============================================================================
