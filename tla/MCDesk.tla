------------------------------- MODULE MCDesk ------------------------------
(***************************************************************************)
(* What a box installs, keeps and reports and what the dashboard says to    *)
(* it, one scene each: they share no state, so an instance plays one of     *)
(* them and the others rest in an initial state.  At the end, the parts      *)
(* that have no steps, against what they are for, over small inputs.        *)
(***************************************************************************)
EXTENDS Charts, SettingsForms, Installer, SettingsPush, Enrollment, RotomSync,
        MetricSamples, WatchSpecs, ManualDeploy, HealthBoard, Naming, FleetTable,
        RuleReading

VARIABLE scene

Scenes == {"install", "settings", "enroll", "rotom", "samples", "watch", "deploy", "health",
           "names", "table", "form", "reading"}

vars == <<installVars, settingsVars, enrollVars, rotomVars, sampleVars,
          watchVars, deployVars, healthVars, namingVars, tableVars,
          formVars, readingVars, scene>>

Init ==
  /\ scene \in Scenes
  /\ InstallInit /\ (scene # "install" => app.version = "none")
  /\ WatchInit /\ (scene # "watch" => master)
  /\ DeployInit /\ (scene # "deploy" => grouped = {})
  /\ HealthInit /\ \A p \in Parts :
       world[p] \in {"fine"} \cup (IF scene = "health" /\ p = "feed" THEN {"dead"} ELSE {})
  /\ NamingInit
  /\ scene # "names" =>
       \A b \in Named : named[b] = [name |-> Name("a", 10 - b, FALSE), group |-> "g"]
  /\ TableInit /\ (scene # "table" => \A b \in Shelf : devices[b].online)
  /\ FormInit /\ (scene \notin {"form", "reading"} => guard = NewRule)
  /\ ReadingInit /\ (scene # "reading" \/ guard.there => boxRow.scanner = Scanning)
  /\ SettingsInit /\ EnrollInit /\ RotomInit /\ SampleInit

Plays(s) == scene = s /\ UNCHANGED scene

Next ==
  \/ /\ Plays("install") /\ InstallNext
     /\ UNCHANGED <<settingsVars, enrollVars, rotomVars, sampleVars,
                    watchVars, deployVars, healthVars, namingVars,
                    tableVars, formVars, readingVars>>
  \/ /\ Plays("settings") /\ SettingsNext
     /\ UNCHANGED <<installVars, enrollVars, rotomVars, sampleVars,
                    watchVars, deployVars, healthVars, namingVars,
                    tableVars, formVars, readingVars>>
  \/ /\ Plays("enroll") /\ EnrollNext
     /\ UNCHANGED <<installVars, settingsVars, rotomVars, sampleVars,
                    watchVars, deployVars, healthVars, namingVars,
                    tableVars, formVars, readingVars>>
  \/ /\ Plays("rotom") /\ RotomNext
     /\ UNCHANGED <<installVars, settingsVars, enrollVars, sampleVars,
                    watchVars, deployVars, healthVars, namingVars,
                    tableVars, formVars, readingVars>>
  \/ /\ Plays("samples") /\ SampleNext
     /\ UNCHANGED <<installVars, settingsVars, enrollVars, rotomVars,
                    watchVars, deployVars, healthVars, namingVars,
                    tableVars, formVars, readingVars>>
  \/ /\ Plays("watch") /\ WatchNext
     /\ UNCHANGED <<installVars, settingsVars, enrollVars, rotomVars,
                    sampleVars, deployVars, healthVars, namingVars,
                    tableVars, formVars, readingVars>>
  \/ /\ Plays("deploy") /\ DeployNext
     /\ UNCHANGED <<installVars, settingsVars, enrollVars, rotomVars,
                    sampleVars, watchVars, healthVars, namingVars,
                    tableVars, formVars, readingVars>>
  \/ /\ Plays("health") /\ HealthNext
     /\ UNCHANGED <<installVars, settingsVars, enrollVars, rotomVars,
                    sampleVars, watchVars, deployVars, namingVars,
                    tableVars, formVars, readingVars>>
  \/ /\ Plays("names") /\ NamingNext
     /\ UNCHANGED <<installVars, settingsVars, enrollVars, rotomVars,
                    sampleVars, watchVars, deployVars, healthVars,
                    tableVars, formVars, readingVars>>
  \/ /\ Plays("table") /\ TableNext
     /\ UNCHANGED <<installVars, settingsVars, enrollVars, rotomVars,
                    sampleVars, watchVars, deployVars, healthVars,
                    namingVars, formVars, readingVars>>
  \/ /\ Plays("form") /\ FormNext
     /\ UNCHANGED <<installVars, settingsVars, enrollVars, rotomVars,
                    sampleVars, watchVars, deployVars, healthVars,
                    namingVars, tableVars, readingVars>>
  \/ /\ Plays("reading") /\ ReadingNext
     /\ UNCHANGED <<installVars, settingsVars, enrollVars, rotomVars,
                    sampleVars, watchVars, deployVars, healthVars,
                    namingVars, tableVars>>

Spec == Init /\ [][Next]_vars

------------------------------------------------------------------------------
(* What the charts, the config of a group and the card of an app target compute. *)

Texts(S, n) == UNION {[1..k -> S] : k \in 0..n}
Occurrences(s, x) == Cardinality({i \in DOMAIN s : s[i] = x})

------------------------------------------------------------------------------
\* A window is cut into at most 220 buckets, none narrower than the taken are
\* apart, and every moment of it falls into one, later ones not before earlier.
GridFits ==
  \A span \in {1, 999, 1000, 219999, 220000, 220001, Hour, 24 * Hour}, every \in {0, 1000, 60000} :
    LET w == Width(span, every)  n == BucketCount(span, every) IN
    /\ w >= every /\ n \in 1..TargetBuckets /\ n * w >= span /\ (n - 1) * w < span
    /\ \A at \in {5, 5 + span \div 2, 5 + span - 1} :
         /\ BucketOf(at, 5, w, n) = 1 + (at - 5) \div w
         /\ BucketOf(at, 5, w, n) <= BucketOf(5 + span, 5, w, n)

Values == {Missing, Known(0), Known(3), Known(10)}
Samples == Texts([bucket : 1..2, value : Values], 3)
LineIsHonest(taken) ==
  LET line == BuildSeries(1, taken, 3)
      said == {i \in DOMAIN taken : taken[i].value.known}
      in(b) == {i \in said : taken[i].bucket = b}
  IN /\ \A b \in 1..3 :
          /\ line.points[b].known <=> in(b) # {}
          /\ in(b) # {} =>
               /\ \E i \in in(b) : taken[i].value.value <= line.points[b].value
               /\ \E i \in in(b) : taken[i].value.value >= line.points[b].value
     /\ line.stats = {} <=> said = {}
     /\ \A s \in line.stats :
          /\ s.least <= s.p95 /\ s.p95 <= s.most /\ s.least <= s.avg /\ s.avg <= s.most
          /\ \E i \in said : taken[i].value.value = s.p95
          /\ \E i \in said : taken[i].value.value = s.last /\ \A j \in said : j <= i
          /\ s.gaps = Cardinality({b \in 1..3 : in(b) = {}})
          /\ 100 * Cardinality({i \in said : taken[i].value.value <= s.p95})
               >= 95 * Cardinality(said)

\* The busiest twentieth of the readings may be above the 95th of a hundred.
RankIsNearest ==
  \A n \in 1..45 :
    LET s == [i \in 1..n |-> 2 * i] IN
    /\ 100 * Cardinality({i \in 1..n : s[i] <= P95(s)}) >= 95 * n
    /\ 100 * Cardinality({i \in 1..n : s[i] < P95(s)}) < 95 * n

\* The last hour is thinned to at most the points asked for, evenly.
TrendIsEven ==
  \A n \in 0..45, points \in {1, 4, 40} :
    LET kept == Thinned([i \in 1..n |-> i], points) IN
    /\ Len(kept) <= points /\ (n > 0 => kept[1] = 1)
    /\ \A i \in 2..Len(kept) : kept[i] - kept[i - 1] = Stride(n, points)

\* A box that reports nothing is not idle.
Workers == [rate : {Missing, Known(0), Known(4)}, ms : {Missing, Known(5), Known(50)}]
SummaryIsOfThoseWhoMeasure ==
  \A workers \in Texts(Workers, 3) :
    LET s == Summary(workers)
        measured == {i \in DOMAIN workers : workers[i].rate.known}
    IN /\ s.rate.known <=> measured # {}
       /\ s.reporting.value = Cardinality(measured)
       /\ s.ms.known => \E i, j \in measured : /\ workers[i].ms.value <= s.ms.value
                                              /\ s.ms.value <= workers[j].ms.value

\* Of nine apps the ninth has no colour; three are shown unless some were asked for.
AppRow(name, value) == [name |-> name, value |-> value]
Busy(name, n) == AppRow(name, Known(n))
ColoursAreApart ==
  \A last \in {1, 50}, asked \in Texts({1, 5, 9, 12}, 2) :
    LET apps == [i \in 1..9 |-> Busy(10 - i, IF i < 4 THEN last ELSE 10 * i)]
        selected == Selected(apps, asked)
        lines == AppLines(apps, asked)
    IN /\ \A i \in DOMAIN selected : selected[i] \in 1..MaxSeries
       /\ \A l, m \in lines : l.slot = m.slot => l.id = m.id
       /\ asked = <<>> => Len(selected) = 3

\* A line is drawn as its unbroken runs, each as long as it can be.
RunsAreWhole ==
  \A points \in Texts({Missing, Known(1)}, 6) :
    LET runs == Runs(points)
        known == {i \in DOMAIN points : points[i].known}
    IN /\ UNION {{runs[r][k] : k \in DOMAIN runs[r]} : r \in DOMAIN runs} = known
       /\ \A r \in DOMAIN runs :
            /\ \A k \in 2..Len(runs[r]) : runs[r][k] = runs[r][k - 1] + 1
            /\ runs[r] # <<>> /\ runs[r][1] - 1 \notin known
            /\ runs[r][Len(runs[r])] + 1 \notin known
       /\ Endpoint(points) = IF known = {} THEN 0 ELSE runs[Len(runs)][Len(runs[Len(runs)])]

\* A strip has one band over each answer; two bands that touch are of two answers.
BandsAreApart ==
  \A values \in Texts({Missing, Known(0), Known(1)}, 5) :
    LET bands == Bands(values) IN
    /\ \A i \in DOMAIN values :
         Cardinality({b \in bands : i \in b[1]..b[2]}) = IF values[i].known THEN 1 ELSE 0
    /\ \A b, c \in bands : b[2] + 1 = c[1] => values[b[1]] # values[c[1]]
    /\ \A s \in Sparkline(values).segments : Len(s) > 1

\* Labels do not overprint and the lowest stays in the plot.
LabelsFit ==
  \A heights \in Texts({12, 20, 30, 140, 154}, 4) :
    LET labels == EndLabels(heights) IN
    \A i \in DOMAIN labels :
      /\ labels[i] <= Baseline
      /\ i > 1 => labels[i] - labels[i - 1] >= MinLabelGap

\* What is drawn of a chart without a fixed top is inside the plot.
DrawnInside ==
  \A v \in 0..30, step \in {1, 2, 5, 10} :
    LET peak == Peak(Missing, <<<<Known(v), Missing>>>>)
        y == YOf(v, AxisTop(peak, step))
    IN peak >= v /\ AxisTop(peak, step) >= peak /\ PlotTop <= y /\ y <= Baseline

\* The first and the last time are written under the plot, and the pointer and the
\* keys reach every time and none beside.
TimesAreReached ==
  \A n \in 1..9 :
    /\ XLabels(n)[1] = 1 /\ (n > 1 => XLabels(n)[Len(XLabels(n))] = n)
    /\ \A i \in DOMAIN XLabels(n) : XLabels(n)[i] \in 1..n
    /\ {PointerTo(x, 40, n) : x \in -3..43} = 1..n
    /\ \A i \in 0..n, by \in {-1, 1} : KeyTo(i, by, n) \in 1..n

------------------------------------------------------------------------------
Segments == Texts({Void, ".", "..", "data", "adb", "magnemite"}, 4)
           \cup {<<"system">>, <<"system", "x">>, <<"systems">>}
Own == <<"data", "adb", "magnemite">>

PathsAgree ==
  \A absolute \in BOOLEAN, segments \in Segments \ {<<>>}, own \in {OwnDirectory, <<"data", "adb">>} :
    LET path == Path(absolute, segments) IN
    CheckPath(path, own) <=>
      CheckConfigPath(path) /\ segments \notin {OwnDirectory, own}

SomeTemplates ==
  LET piece == {Token("device.name", TRUE), Token("device.name", FALSE), Token("device.publicIp", TRUE),
                Token("device.nmae", TRUE), Text("words")}
  IN {[sound |-> sound, pieces |-> pieces] : sound \in BOOLEAN, pieces \in Texts(piece, 2)}
SomeForm(template) ==
  [package |-> "aegis", hasPath |-> TRUE, path |-> Path(TRUE, <<"data", "x">>),
   hasTemplate |-> TRUE, template |-> template]
SomeDevice(ip) == [name \in Placeholders |-> IF name = "device.publicIp" THEN ip ELSE "set"]

SavedConfigsRender ==
  \A template \in SomeTemplates, ip \in {Void, "10"} :
    LET config == RenderConfig(SavedGroup(SomeForm(template)), SomeDevice(ip), {}) IN
    SavesGroup(SomeForm(template)) =>
      \/ config.what = "file" /\ TokensOf(config.text) = {}
      \/ config.what = "refused" /\ config.reason = "empty" /\ ip = Void
PresetsAreAccepted ==
  \A preset \in Presets : SavesGroup(ApplyPreset(SomeForm([sound |-> FALSE, pieces |-> <<>>]), preset))

------------------------------------------------------------------------------
SomeRow(n, window) ==
  [enabled |-> TRUE, approve |-> FALSE, sources |-> {"f"}, package |-> "app",
   numbers |-> [name \in Numbers |-> n], start |-> window, end |-> window]

\* The policy is still there when the switch is turned on again, and a saved number
\* is one the scheduler can use.
CardKeeps ==
  \A n \in 1..2, window \in {BlankTime, "03:00"}, typed \in {Unsent, Junk, Emptied, Typed(7)} :
    LET earlier == SomeRow(n, window)
        off == Save(earlier, [CardOf(earlier) EXCEPT !.enabled = FALSE, !.numbers["canaryCount"] = typed],
                    {"f"}, {})
        on == Save(off, [CardOf(off) EXCEPT !.enabled = TRUE], {"f"}, {})
        changed == Save(earlier, [CardOf(earlier) EXCEPT !.numbers["maxAttempts"] = typed], {"f"}, {})
    IN /\ Save(earlier, CardOf(earlier), {"f"}, {}) = earlier /\ ~off.enabled /\ on = earlier
       /\ changed.numbers["maxAttempts"] =
            CASE typed = Unsent -> n [] typed = Junk -> 3 [] typed = Emptied -> 1 [] OTHER -> 7

ASSUME ChartsAreHonest ==
  /\ GridFits /\ \A taken \in Samples : LineIsHonest(taken)
  /\ RankIsNearest /\ TrendIsEven /\ SummaryIsOfThoseWhoMeasure
ASSUME ChartsAreDrawn == ColoursAreApart /\ RunsAreWhole /\ BandsAreApart
                          /\ LabelsFit /\ DrawnInside /\ TimesAreReached
ASSUME ConfigsArrive == PathsAgree /\ SavedConfigsRender /\ PresetsAreAccepted
ASSUME PoliciesStay == CardKeeps
=============================================================================
