------------------------------- MODULE Charts -------------------------------
(***************************************************************************)
(* How the history of a box becomes lines: the samples of a window are put  *)
(* into buckets, a bucket into a point, the points into lines, and the apps *)
(* of a box into colours.  metrics.ts does it for what a box says of itself *)
(* and rotom-trend.ts for what Rotom says of it, time-series-chart.tsx      *)
(* draws it.  All of it is without state: what a page shows is a function   *)
(* of the rows.  Numbers are whole; a quotient is rounded down.             *)
(***************************************************************************)
EXTENDS Ranking

\* A number, or null.
Missing == [known |-> FALSE, value |-> 0]
Known(v) == [known |-> TRUE, value |-> v]

Greater(a, b) == IF a >= b THEN a ELSE b
Lesser(a, b) == IF a <= b THEN a ELSE b
RoundUp(a, b) == (a + b - 1) \div b             \* Math.ceil(a / b)
RoundHalfUp(a, b) == (2 * a + b) \div (2 * b)   \* Math.round(a / b)

Sums(v) == LET sum[i \in 0..Len(v)] == IF i = 0 THEN 0 ELSE sum[i - 1] + v[i] IN sum
Total(v) == Sums(v)[Len(v)]
Mean(v) == IF v = <<>> THEN Missing ELSE Known(Total(v) \div Len(v))

------------------------------------------------------------------------------
\* The grid: buckets no narrower than the distance of two samples, and not more
\* of them than the chart has columns.  Times are in milliseconds.
TargetBuckets == 220
Hour == 3600 * 1000
Ranges == {1, 6, 24, 7 * 24, 30 * 24}   \* hours; the page opens on a day
ParseRange(asked) == IF asked \in Ranges THEN asked ELSE 24
OfferedRanges(retentionDays) == {hours \in Ranges : hours <= 24 * retentionDays}
Second == 1000
Width(span, every) == Greater(Greater(every, Second), RoundUp(span, TargetBuckets))
BucketCount(span, every) == Greater(1, RoundUp(span, Width(span, every)))
BucketOf(at, from, width, n) == 1 + Greater(0, Lesser(n - 1, (at - from) \div width))

\* The query takes the newest rows, up to a cap, and says that it may have cut some.
Capped(rows, cap) == SubSeq(rows, Greater(1, Len(rows) - cap + 1), Len(rows))
Truncated(rows, cap) == Len(Capped(rows, cap)) >= cap

\* The samples of one line, each with its bucket, in the order of time.
Said(samples) ==
  Filtered(samples, {samples[i] : i \in {j \in DOMAIN samples : samples[j].value.known}})
InBucket(samples, b) ==
  Filtered(samples, {samples[i] : i \in {j \in DOMAIN samples :
                                           samples[j].value.known /\ samples[j].bucket = b}})
ValuesOf(samples) == [i \in DOMAIN samples |-> samples[i].value.value]

Points(samples, n) == [b \in 1..n |-> Mean(ValuesOf(InBucket(samples, b)))]
Gaps(points) == {b \in DOMAIN points : ~points[b].known}

\* The nearest rank, which interpolates nothing.
P95(sorted) == sorted[1 + Greater(0, Lesser(Len(sorted), RoundUp(95 * Len(sorted), 100)) - 1)]
StatsFrom(v, gaps) ==
  LET sorted == Sorted(v, v) IN
  [avg |-> Total(v) \div Len(v), least |-> sorted[1], most |-> sorted[Len(v)],
   p95 |-> P95(sorted), last |-> v[Len(v)], gaps |-> gaps]

\* A line has statistics unless nothing was said: a set of at most one.
BuildSeries(slot, samples, n) ==
  LET points == Points(samples, n)  v == ValuesOf(Said(samples)) IN
  [slot |-> slot, points |-> points,
   stats |-> IF v = <<>> THEN {} ELSE {StatsFrom(v, Cardinality(Gaps(points)))}]

------------------------------------------------------------------------------
\* What a row says.
LoadPercent(load, cores) ==
  IF ~load.known \/ ~cores.known \/ cores.value = 0 THEN Missing
  ELSE Known((100 * load.value) \div cores.value)
UsedPercent(total, free) ==
  IF ~total.known \/ ~free.known \/ total.value <= 0 THEN Missing
  ELSE Known((100 * (total.value - free.value)) \div total.value)

Line(chart, id, slot) == [chart |-> chart, id |-> id, slot |-> slot]
DeviceLines ==
  {Line("cpu", "load1", 1), Line("cpu", "load5", 2), Line("cpu", "load15", 3),
   Line("memory", "memory", 1), Line("storage", "storage", 1),
   Line("temperature", "cpuTemp", 1), Line("temperature", "batteryTemp", 2)}
DeviceReading(row, line) ==
  LET id == line.id IN
  CASE id \in {"load1", "load5", "load15"} -> LoadPercent(row[id], row.cores)
    [] id = "memory" -> UsedPercent(row.memTotal, row.memAvailable)
    [] id = "storage" -> UsedPercent(row.total, row.free)
    [] id \in {"cpuTemp", "batteryTemp"} -> row[id]

RotomFlags == {"connected", "enabled", "canBeUsed", "inUse"}
RotomLines ==
  {Line("workers", "workersInUse", 1), Line("workers", "workerCount", 2),
   Line("availability", "connected", 4), Line("availability", "enabled", 5),
   Line("availability", "canBeUsed", 6), Line("availability", "inUse", 7),
   Line("requests", "requestRate", 3), Line("latency", "requestMs", 8)}
RotomReading(row, line) ==
  IF line.id \in RotomFlags THEN Known(IF row[line.id] THEN 100 ELSE 0) ELSE row[line.id]

\* The lines of a window.  Of a box, a chart without a reading is not shown, nor a
\* temperature without one; the charts of Rotom are, and say "not reported".
History(rows, readings, from, span, every) ==
  LET width == Width(span, every)  n == BucketCount(span, every) IN
  [line \in DOMAIN readings |->
     BuildSeries(line.slot,
                 [i \in DOMAIN rows |-> [bucket |-> BucketOf(rows[i].at, from, width, n),
                                         value |-> readings[line][i]]], n)]
DeviceHistory(rows, from, span, every) ==
  History(rows, [line \in DeviceLines |-> [i \in DOMAIN rows |-> DeviceReading(rows[i], line)]],
          from, span, every)
RotomHistory(rows, from, span, every) ==
  History(rows, [line \in RotomLines |-> [i \in DOMAIN rows |-> RotomReading(rows[i], line)]],
          from, span, every)
ShownLines(window) ==
  LET spoken == {line \in DOMAIN window : window[line].stats # {}} IN
  {line \in DOMAIN window : 
     \/ line \in spoken
     \/ (line.chart # "temperature" /\ \E other \in spoken : other.chart = line.chart)}

\* Rates of the workers of a box are added, durations weighted by them, and
\* workers that measure nothing do not count as zero.
Summary(workers) ==
  LET measured == {i \in DOMAIN workers : workers[i].rate.known}
      timed == {i \in measured : workers[i].ms.known /\ workers[i].rate.value > 0}
      rates(S) == Total([i \in DOMAIN workers |-> IF i \in S THEN workers[i].rate.value ELSE 0])
      spent == Total([i \in DOMAIN workers |->
                        IF i \in timed THEN workers[i].ms.value * workers[i].rate.value ELSE 0])
  IN IF measured = {} THEN [rate |-> Missing, ms |-> Missing, reporting |-> Missing]
     ELSE [rate |-> Known(rates(measured)),
           ms |-> IF rates(timed) > 0 THEN Known(spent \div rates(timed)) ELSE Missing,
           reporting |-> Known(Cardinality(measured))]

\* A spark line: every so many rows, so that it spans what was read.
Stride(length, points) == Greater(1, RoundUp(length, points))
Thinned(rows, points) ==
  LET kept == Filtered([i \in DOMAIN rows |-> i],
                       {i \in DOMAIN rows : (i - 1) % Stride(Len(rows), points) = 0})
  IN [k \in DOMAIN kept |-> rows[kept[k]]]
Recent(rows) == Thinned(Capped(rows, 400), 40)
RecentTrend(rows) ==
  [k \in DOMAIN Recent(rows) |->
     LET row == Recent(rows)[k] IN
     [cpu |-> LoadPercent(row.load1, row.cores),
      memory |-> UsedPercent(row.memTotal, row.memAvailable),
      storage |-> UsedPercent(row.total, row.free)]]
RotomTrend(rows) ==
  [k \in DOMAIN Recent(rows) |->
     LET row == Recent(rows)[k] IN
     [workersInUse |-> LoadPercent(row.workersInUse, row.workerCount),
      requestRate |-> row.requestRate, requestMs |-> row.requestMs,
      flags |-> {flag \in RotomFlags : row[flag]}]]

------------------------------------------------------------------------------
\* The apps of a box.  A name is a number, its place in the alphabet.
MaxSeries == 8
AppsOf(rows) ==
  LET names == {rows[i].name : i \in DOMAIN rows}
  IN Ranked(names, {e \in names \X names : e[1] < e[2]})
SlotOf(packages, name) == CHOOSE i \in DOMAIN packages : packages[i] = name

\* The mean of what an app used, as a fraction; nothing said is none used.
Usage(rows, name) ==
  LET v == ValuesOf(Filtered(rows, {rows[i] : i \in {j \in DOMAIN rows :
                                      rows[j].name = name /\ rows[j].value.known}}))
  IN IF v = <<>> THEN [sum |-> 0, count |-> 1] ELSE [sum |-> Total(v), count |-> Len(v)]
Busiest(rows) ==
  LET names == {rows[i].name : i \in DOMAIN rows}
      more(a, b) == LET u == Usage(rows, a)  w == Usage(rows, b) IN u.sum * w.count - w.sum * u.count
  IN Ranked(names, {e \in names \X names :
                      more(e[1], e[2]) > 0 \/ (more(e[1], e[2]) = 0 /\ e[1] < e[2])})

First(s, n) == SubSeq(s, 1, Lesser(n, Len(s)))
Selected(rows, asked) ==
  LET packages == AppsOf(rows)
      requested == Filtered(asked, {packages[i] : i \in DOMAIN packages})
      wanted == IF requested # <<>> THEN requested ELSE First(Busiest(rows), 3)
      slotted == {packages[i] : i \in {j \in DOMAIN packages : j <= MaxSeries}}
  IN First(Filtered(wanted, slotted), MaxSeries)

\* Their lines, each in the colour of its app.
AppLines(rows, asked) ==
  {Line(chart, name, SlotOf(AppsOf(rows), name)) :
     chart \in {"package-cpu", "package-memory"},
     name \in {Selected(rows, asked)[i] : i \in DOMAIN Selected(rows, asked)}}
AppReading(row, line) ==
  IF row.name # line.id THEN Missing
  ELSE IF line.chart = "package-cpu" THEN row.value ELSE row.memory

\* A click on an app: what is asked for next; nothing is the choice of the page.
Toggled(selected, name) ==
  LET shown == {selected[i] : i \in DOMAIN selected} IN
  IF name \in shown THEN Filtered(selected, shown \ {name}) ELSE Append(selected, name)

------------------------------------------------------------------------------
\* Drawing.  Down the page is up in numbers.
PlotTop == 12
PlotHeight == 142
Baseline == PlotTop + PlotHeight
Peak(max, lines) ==
  LET known(p) == {p[i].value : i \in {j \in DOMAIN p : p[j].known}}
      values == {0} \cup UNION {known(lines[l]) : l \in DOMAIN lines}
      top == CHOOSE v \in values : \A w \in values : w <= v
  IN IF max.known THEN max.value ELSE IF top > 0 THEN RoundUp(11 * top, 10) ELSE 1
\* The axis ends at the last tick, or at the peak if that is above it; the width of
\* a tick is a round number chosen from the peak.
LastTick(peak, step) == step * ((2 * peak + step) \div (2 * step))
AxisTop(peak, step) == Greater(peak, LastTick(peak, step))
YOf(value, axisTop) == Baseline - (value * PlotHeight) \div axisTop

\* The readings one after the other; a gap ends the run.
Flushed(walk) == IF walk.run = <<>> THEN walk ELSE [lines |-> Append(walk.lines, walk.run), run |-> <<>>]
Walk(points) ==
  LET walk[i \in 0..Len(points)] ==
        IF i = 0 THEN [lines |-> <<>>, run |-> <<>>]
        ELSE IF ~points[i].known THEN Flushed(walk[i - 1])
        ELSE [walk[i - 1] EXCEPT !.run = Append(@, i)]
  IN walk
Runs(points) == Flushed(Walk(points)[Len(points)]).lines
Areas(points) == {i \in DOMAIN Runs(points) : Len(Runs(points)[i]) > 1}

\* The last reading of a line; 0 if there is none.
Endpoint(points) ==
  LET known == DOMAIN points \ Gaps(points) IN
  IF known = {} THEN 0 ELSE CHOOSE i \in known : \A j \in known : j <= i

\* A spark line shows a direction, so it takes two readings; a single one is a dot.
Sparkline(points) ==
  IF Cardinality(DOMAIN points \ Gaps(points)) < 2 THEN [segments |-> {}, dot |-> 0]
  ELSE [segments |-> {Runs(points)[r] : r \in Areas(points)}, dot |-> Endpoint(points)]

\* A strip of states: each band is as long as one answer was given, and where nobody
\* was asked there is none.
Bands(values) ==
  LET same(a, b) == \A i \in a..b : values[i].known /\ values[i].value = values[a].value
      at == DOMAIN values
  IN {band \in at \X at :
        /\ band[1] <= band[2] /\ same(band[1], band[2])
        /\ band[1] - 1 \in at => ~same(band[1] - 1, band[2])
        /\ band[2] + 1 \in at => ~same(band[1], band[2] + 1)}

\* The labels at the ends of the lines, from their heights.
MinLabelGap == 12
ShowsEndLabels(lines) == Len(lines) <= 4
Pushed(heights) ==
  LET y[i \in DOMAIN heights] ==
        IF i = 1 THEN heights[1] ELSE Greater(heights[i], y[i - 1] + MinLabelGap)
  IN y
EndLabels(heights) ==
  IF heights = <<>> THEN <<>>
  ELSE LET placed == Pushed(Sorted(heights, heights))
           overflow == Greater(0, placed[Len(heights)] - Baseline)
       IN [i \in DOMAIN heights |-> placed[i] - overflow]

\* Under which times it is written when they were, and over which one the pointer is.
XLabels(n) ==
  LET count == Lesser(5, n) IN
  [i \in 1..count |-> 1 + RoundHalfUp((i - 1) * (n - 1), Greater(1, count - 1))]
PointerTo(offset, plotWidth, n) ==
  1 + RoundHalfUp(Greater(0, Lesser(plotWidth, offset)) * (n - 1), plotWidth)
KeyTo(hover, by, n) == Greater(1, Lesser(n, (IF hover = 0 THEN n ELSE hover) + by))

\* What is said of the time under the pointer: nothing where a line has a gap.
Hovered(lines, index) == [l \in DOMAIN lines |-> lines[l][index]]

\* The same chart as a table: the times at which anybody said anything.
TableTimes(lines, n) == {i \in 1..n : \E l \in DOMAIN lines : lines[l][i].known}
=============================================================================
