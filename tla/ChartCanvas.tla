----------------------------- MODULE ChartCanvas -----------------------------
(***************************************************************************)
(* One chart in its card (charts/area-chart.tsx, line-chart.tsx, hooks.ts, *)
(* chart-card.tsx, lib/use-intersection-observer.ts), and the filter bars  *)
(* of the container charts.                                                *)
(*                                                                         *)
(* A card renders its chart once it has been seen.  The chart copies its   *)
(* source only while it is on the screen, memoizes its areas, and measures *)
(* the labels of its axis in timers; it is observed only while it has an   *)
(* element, which it has only while it has data.                           *)
(***************************************************************************)
EXTENDS Naturals, Sequences

CONSTANTS Data,         \* lists of records; 0, in none, is the empty list
          Label,        \* longest label of the axis, by list of records
          Series,       \* areasKey, by list of records, 0 included
          Bars,         \* filter bars on the page
          Texts,        \* filter texts; 0 is the empty text
          MaxActs       \* bound on what user and hub do

VARIABLES
    source,     \* sourceData
    maxToggled, \* showMax
    onScreen,   \* the card is in the viewport
    cardSeen,   \* isIntersecting of the card, frozen once it is TRUE
    seen,       \* isIntersecting of the chart
    display,    \* displayData
    displayMax, \* displayMaxToggled
    areas,      \* memo of Areas: its key, displayMaxToggled when it was made, and
                \* the showMax its dataKeys close over
    yAxisWidth,
    measures,   \* timers of updateYAxisWidth: label, and the width it closes over
    filter,     \* $containerFilter
    inputs,     \* inputValue of each bar
    acts        \* acts so far

canvas == <<source, maxToggled, onScreen, cardSeen, seen, display, displayMax, areas, yAxisWidth, measures>>
bar == <<filter, inputs>>
vars == <<canvas, bar, acts>>

Widths == {0} \cup {Label[d] : d \in Data}

TypeOK ==
    /\ source \in Data \cup {0} /\ display \in Data \cup {0}
    /\ maxToggled \in BOOLEAN /\ displayMax \in BOOLEAN
    /\ onScreen \in BOOLEAN /\ cardSeen \in BOOLEAN /\ seen \in BOOLEAN
    /\ areas.max \in BOOLEAN /\ areas.at \in BOOLEAN
    /\ yAxisWidth \in Widths /\ measures \in Seq([label : Widths, width : Widths])
    /\ filter \in Texts \cup {0} /\ inputs \in [Bars -> Texts \cup {0}]
    /\ acts \in 0 .. MaxActs

-----------------------------------------------------------------------------
(* Rendering.                                                              *)

\* The effect: first data at once, other data and the toggle while visible.
Updated(src, disp, vis) == IF (src # 0 /\ disp = 0) \/ (src # disp /\ vis) THEN src ELSE disp

\* useMemo on areasKey and displayMaxToggled; the areas read what the render
\* that made them had for showMax.
AreasOf(src, max, dmax) ==
    IF Series[src] = areas.key /\ dmax = displayMax THEN areas
    ELSE [key |-> Series[src], at |-> dmax, max |-> max]

\* The ticks of a chart that is drawn anew start a timer.
Ticks(disp, width, changed) ==
    IF changed /\ disp # 0 THEN <<[label |-> Label[disp], width |-> width]>> ELSE <<>>

\* The chart renders until its effects change nothing: vis is isIntersecting,
\* left the timers that still run.  Without data its element goes, and with it
\* isIntersecting.
Settle(src, max, vis, width, left) ==
    LET d == Updated(src, display, vis)
        m == IF vis THEN max ELSE displayMax
        a == AreasOf(src, max, m)
    IN  /\ source' = src /\ maxToggled' = max
        /\ display' = d /\ displayMax' = m /\ areas' = a
        /\ seen' = (vis /\ d # 0)
        /\ yAxisWidth' = width
        /\ measures' = left \o Ticks(d, width, <<d, a, width>> # <<display, areas, yAxisWidth>>)

\* Props change; a chart that is not mounted has no state.
Change(src, max) ==
    IF cardSeen THEN Settle(src, max, seen, yAxisWidth, measures)
    ELSE source' = src /\ maxToggled' = max
         /\ UNCHANGED <<seen, display, displayMax, areas, yAxisWidth, measures>>

Act == acts < MaxActs /\ acts' = acts + 1

-----------------------------------------------------------------------------
(* What happens.                                                           *)

\* Records arrive, or are cleared with another system.
NewData(d) ==
    /\ d # source
    /\ Act /\ Change(d, maxToggled)
    /\ UNCHANGED <<onScreen, cardSeen, bar>>

\* SelectAvgMax.
ToggleMax ==
    /\ Act /\ Change(source, ~maxToggled)
    /\ UNCHANGED <<onScreen, cardSeen, bar>>

Scroll ==
    /\ Act /\ onScreen' = ~onScreen
    /\ UNCHANGED <<source, maxToggled, cardSeen, seen, display, displayMax, areas, yAxisWidth, measures, bar>>

\* The observer of the card: the chart mounts with the props of the moment.
CardObserved ==
    /\ onScreen /\ ~cardSeen
    /\ cardSeen' = TRUE
    /\ display' = source /\ displayMax' = maxToggled /\ seen' = FALSE
    /\ areas' = [key |-> Series[source], at |-> maxToggled, max |-> maxToggled]
    /\ yAxisWidth' = 0 /\ measures' = Ticks(source, 0, TRUE)
    /\ UNCHANGED <<source, maxToggled, onScreen, bar, acts>>

\* The observer of the chart's element.
Observed ==
    /\ cardSeen /\ display # 0 /\ seen # onScreen
    /\ Settle(source, maxToggled, onScreen, yAxisWidth, measures)
    /\ UNCHANGED <<onScreen, cardSeen, bar, acts>>

\* A timer of updateYAxisWidth compares with the width it was made with.
Measure ==
    /\ measures # <<>>
    /\ LET m == Head(measures)
           w == IF m.label > m.width THEN m.label ELSE yAxisWidth
       IN  Settle(source, maxToggled, seen, w, Tail(measures))
    /\ UNCHANGED <<onScreen, cardSeen, bar, acts>>

-----------------------------------------------------------------------------
(* FilterBar.                                                              *)

\* The effect on storeValue: every bar follows the store.
FollowNot(text, ins, b) == [ins EXCEPT ![b] = text]    \* a bug: only the bar that set it
Follow(text, ins, b) == [x \in Bars |-> text]

Type(b, text) ==
    /\ text # inputs[b]
    /\ Act /\ inputs' = [inputs EXCEPT ![b] = text]
    /\ UNCHANGED <<canvas, filter>>

\* 80 ms after the last change of a bar that differs from the store.
FilterTimer(b) ==
    /\ inputs[b] # filter
    /\ filter' = inputs[b]
    /\ inputs' = Follow(inputs[b], inputs, b)
    /\ UNCHANGED <<canvas, acts>>

\* handleClear, or another system: $containerFilter is set at once.
ClearFilter(b) ==
    /\ inputs[b] # 0
    /\ Act /\ filter' = 0
    /\ inputs' = IF filter = 0 THEN [inputs EXCEPT ![b] = 0] ELSE Follow(0, inputs, b)
    /\ UNCHANGED canvas

-----------------------------------------------------------------------------
Init ==
    /\ source = 0 /\ maxToggled = FALSE /\ onScreen \in BOOLEAN /\ cardSeen = FALSE
    /\ seen = FALSE /\ display = 0 /\ displayMax = FALSE
    /\ areas = [key |-> Series[0], at |-> FALSE, max |-> FALSE]
    /\ yAxisWidth = 0 /\ measures = <<>>
    /\ filter = 0 /\ inputs = [b \in Bars |-> 0] /\ acts = 0

Browser == CardObserved \/ Observed \/ Measure

Next ==
    \/ \E d \in Data \cup {0} : NewData(d)
    \/ ToggleMax \/ Scroll \/ Browser
    \/ \E b \in Bars : FilterTimer(b) \/ ClearFilter(b) \/ \E t \in Texts \cup {0} : Type(b, t)

Spec == Init /\ [][Next]_vars

\* Observers report and timers run out.
Fairness == WF_vars(CardObserved) /\ WF_vars(Observed) /\ WF_vars(Measure)
                /\ \A b \in Bars : WF_vars(FilterTimer(b))

-----------------------------------------------------------------------------
(* Properties.                                                             *)

\* "Reduce chart redraws by only updating while visible": a chart that knows it
\* is visible shows the data and the series it was given, and its areas read the
\* values (average or maximum) that were asked for.  Excepted are areas made for
\* new series while the toggle waited for the chart to be seen: they may keep
\* reading the maximum when it is switched off again.
VisibleFresh ==
    seen => /\ display = source /\ areas.key = Series[source]
            /\ areas.at = areas.max => areas.max = maxToggled

\* When no timer runs the axis is as wide as the labels of the data drawn,
\* although a timer compares with a width that may be out of date.
LabelsFit == measures = <<>> /\ display # 0 => yAxisWidth >= Label[display]

\* A chart on the screen comes to show the current data, however it was
\* scrolled, emptied and filled before.
ChartCatchesUp == onScreen ~> (display = source \/ ~onScreen)

\* Bars and store come to agree: no two bars keep setting it in turn.
FilterSettles == <>[](\A b \in Bars : inputs[b] = filter)
=============================================================================
