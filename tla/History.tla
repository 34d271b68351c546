------------------------------ MODULE History ------------------------------
(***************************************************************************)
(* The history a card's chart is drawn from: the readings a signal has in  *)
(* signal_history, averaged once by SignalHistory's query and once more by *)
(* Downsample when a refresh adds its own reading (boundHistory).          *)
(*                                                                         *)
(* Times are half seconds; the database compares them as RFC 3339 text,    *)
(* where a whole second comes after its fractions.  A set of readings is a *)
(* function from their times to their values.                              *)
(***************************************************************************)
EXTENDS Input, Integers, SequencesExt

CONSTANTS
    MaxHistoryPoints,
    Window,     \* the length of the chart: not short against the number of buckets
    Scale       \* the unit of values: every mean of them is an integer

Second == 2
gapFactor == 3

\* The mutant keeps no room for the markers of silences.
WholeBudget == MaxHistoryPoints
budget == MaxHistoryPoints \div 2

Mean(samples, times) == MapThenSumSet(LAMBDA t : samples[t], times) \div Cardinality(times)

\* The sets of times that `bucket` puts together.
Groups(times, bucket) == {{u \in times : bucket[u] = bucket[t]} : t \in times}

\* The averages of groups, each at its stamp.
Averages(samples, stamp) ==
    [s \in Range(stamp) |-> Mean(samples, CHOOSE g \in DOMAIN stamp : stamp[g] = s)]

-----------------------------------------------------------------------------
(* SignalHistory. *)

\* The order of instants as text.
Text(t) == (t \div Second) * Second + (Second - 1 - (t % Second))

\* SELECT MAX(ts), AVG(value) ... GROUP BY, and the exact comparison in Go.  The
\* integer cast puts what is less than a bucket before the window in bucket 0.
SignalHistory(readings, from, to) ==
    LET after  == Text(((from - Second) \div Second) * Second)
        near   == {t \in DOMAIN readings : after <= Text(t) /\ Text(t) <= Text(to + Second)}
        bucket == [t \in near |-> IF t < from THEN 0 ELSE ((t - from) * budget) \div (to - from)]
        latest(g) == CHOOSE t \in g : \A u \in g : Text(u) <= Text(t)
        rows   == Averages(readings, [g \in Groups(near, bucket) |-> latest(g)])
    IN  [t \in {t \in DOMAIN rows : from <= t /\ t <= to} |-> rows[t]]

-----------------------------------------------------------------------------
(* Downsample. *)

medianSpacing(times) ==
    LET spacing == [i \in 1 .. Len(times) - 1 |-> times[i + 1] - times[i]]
    IN  IF Len(times) < 3 THEN 0
        ELSE SortSeq(spacing, <)[Len(spacing) \div 2 + 1]

\* The mutant forgets to reset the sum between buckets.
runningMeans(samples, from, width) ==
    LET groups == Groups(DOMAIN samples, [t \in DOMAIN samples |-> (t - from) \div width])
    IN  [s \in {Max(g) : g \in groups} |-> Mean(samples, {t \in DOMAIN samples : t <= s})]

bucketMeans(samples, from, width) ==
    LET groups == Groups(DOMAIN samples, [t \in DOMAIN samples |-> (t - from) \div width])
    IN  Averages(samples, [g \in groups |-> Max(g)])

\* A silence becomes a point without a value halfway across it, while there is room.
Points(samples) ==
    LET times == SetToSortSeq(DOMAIN samples, <)
        gap   == medianSpacing(times) * gapFactor
        silent(i) == i > 1 /\ gap > 0 /\ times[i] - times[i - 1] > gap
        add(points, i) ==
            LET before == IF silent(i) /\ Len(points) < MaxHistoryPoints - 1
                          THEN Append(points, [t |-> times[i - 1] + (times[i] - times[i - 1]) \div 2,
                                               v |-> << >>])
                          ELSE points
            IN  IF Len(before) = MaxHistoryPoints THEN before
                ELSE Append(before, [t |-> times[i], v |-> <<samples[times[i]]>>])
    IN  FoldLeft(add, << >>, [i \in DOMAIN times |-> i])

Downsample(samples, from, to) ==
    LET in    == [t \in {t \in DOMAIN samples : from <= t /\ t <= to} |-> samples[t]]
        width == Max({1, (to - from) \div budget})
    IN  Points(IF Cardinality(DOMAIN in) > budget THEN bucketMeans(in, from, width) ELSE in)

\* The refresh at `to` reads the rest back and adds its own value.
boundHistory(readings, to, value) ==
    LET from    == to - Window
        samples == SignalHistory(readings, from, to)
    IN  Downsample([t \in DOMAIN samples \cup {to} |-> IF t = to THEN value ELSE samples[t]],
                   from, to)

-----------------------------------------------------------------------------
(* Inputs: readings around a window that ends on a whole second or not, some *)
(* of them from a refresh that began later and was stored first.  A reading  *)
(* is worth its time.                                                        *)

PickReadings ==
    \E to \in {Window + Second, Window + Second + 1} :
        \E times \in SUBSET ((to - Window - 1 .. to + 1) \ {to}) :
            input' = [what |-> "history", to |-> to, times |-> times]

Next == input.what = "none" /\ PickReadings

Spec == InputInit /\ [][Next]_input

-----------------------------------------------------------------------------
(* Properties. *)

Shown == boundHistory([t \in input.times |-> t * Scale], input.to, input.to * Scale)

\* However the readings are spread, the chart fits the schema, its times
\* increase, and it ends with the refresh that drew it: the room Downsample
\* leaves for silences is enough, and the limit never cuts the newest off.
NewestShown ==
    input.what = "history" =>
        LET points == Shown
        IN  /\ Len(points) <= MaxHistoryPoints
            /\ \A i \in 2 .. Len(points) : points[i - 1].t < points[i].t
            /\ Last(points).t = input.to /\ Last(points).v # << >>

\* A point stands for readings of its own part of the window, and every reading
\* of the window is part of some point near it: two averages on top of each
\* other, over buckets cut as text and as durations, move and lose nothing.
\* Only in the first second of the window may a reading be lost, to an earlier
\* one that is later as text.
PointsNearReadings ==
    input.what = "history" =>
        LET width  == Window \div budget
            values == {p \in ToSet(Shown) : p.v # << >>}
        IN  /\ \A p \in values : /\ p.v[1] > (p.t - width) * Scale
                                 /\ p.v[1] < (p.t + width) * Scale
            /\ \A t \in input.times :
                   input.to - Window + Second <= t /\ t <= input.to =>
                       \E p \in values : p.t - width < t /\ t < p.t + width

\* A chart is true to the readings: NewestShown and PointsNearReadings.
ChartFaithful == NewestShown /\ PointsNearReadings
=============================================================================
