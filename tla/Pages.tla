-------------------------------- MODULE Pages --------------------------------
(***************************************************************************)
(* The pages of the frontend, of which the router shows one: the browser   *)
(* is opened at one of them and stays there.  What pages share are the     *)
(* stores, which have modules of their own (SystemsStore, AlertsStore).    *)
(*                                                                         *)
(* Each page is an instance of its module.  A step is a step of the page   *)
(* that is shown; the others are as they were at first.                    *)
(***************************************************************************)
EXTENDS Integers, Sequences, FiniteSets

CONSTANTS Ids, Columns, MaxEvents,                                        \* home
          Containers, SystemOf, Exposed, Matching, MaxTime, MaxOpened,    \* containers
          MaxRecords, BatchMax, PageSizes, Spans, MaxSteps,               \* history
          Hosts, Kinds, Single, Limited, Top, MaxEdits,                   \* alerts
          Points, Versions, MaxPoints, MaxLaid,                           \* system
          Data, Label, Series, Bars, Texts, MaxActs,                      \* chart
          Agents, UserIds, ToastLimit, MaxClicks                          \* dialogs

\* A sheet of alerts is that of a system, sliders have natural values, those that
\* have a range are not switches only, and TOAST_LIMIT is 1.
ASSUME PagesAssumption ==
    /\ Hosts # {} /\ Top \in Nat \ {0} /\ Limited \subseteq Kinds \ Single
    /\ ToastLimit \in Nat \ {0}

\* There are finitely many columns, GPUs are numbered, the window of records has
\* room for one, and the labels of an axis have a width.
ASSUME DrawingAssumption ==
    /\ IsFiniteSet(Columns)
    /\ \A r \in Points : \A g \in r.gpus : g.id \in Nat
    /\ MaxPoints \in Nat \ {0}
    /\ \A d \in Data : Label[d] \in Nat

\* Systems are numbered, a page of the history has a size, durations and bounds are
\* natural numbers.
ASSUME SizesAssumption ==
    /\ IsFiniteSet(Ids) /\ Ids # {} /\ Ids = 1 .. Cardinality(Ids)
    /\ Matching \subseteq Containers
    /\ MaxRecords \in Nat \ {0, 1} /\ Spans \subseteq Nat
    /\ PageSizes \subseteq Nat \ {0} /\ PageSizes # {}
    /\ 1 \in DOMAIN Versions
    /\ {MaxEvents, MaxTime, MaxOpened, MaxSteps, MaxEdits, MaxLaid, MaxActs, MaxClicks} \subseteq Nat

VARIABLES page,       \* the page, or the part of one, that is in use
          list, ui, storage, rendered, dialog, requests, deleted, events,
          scope, clock, cHub, fetch, cData, loaded, ports, term, sheet, logs, logReqs, refreshing, openings,
          made, hHub, hLoad, hSub, hWire, hData, picked, confirming, del, gone, pager, found, steps,
          aHub, aStore, shown, initial, form, timers, sent, chosen, dropped, reached, edits,
          points, contained, shownId, mode, activeTab, mountedTabs, tabsRef, opened, powerMemo, engineMemo, laid,
          source, maxToggled, onScreen, cardSeen, seen, display, displayMax, areas, yAxisWidth, measures,
          filter, inputs, acts,
          authenticated, viewing, gen, bar, add, signIn, telegram, calls, hubSide, asked,
          toasts, toastTimeouts, count, clicks

Home == INSTANCE SystemsTable
Cont == INSTANCE ContainersTable
Hist == INSTANCE HistoryTable
Alert == INSTANCE AlertsSheet
Sys == INSTANCE SystemLayout
Chart == INSTANCE ChartCanvas
Dialog == INSTANCE Dialogs

PageNames == {"home", "containers", "history", "alerts", "system", "chart", "dialogs"}

homeVars == <<list, ui, storage, rendered, dialog, requests, deleted, events>>
contVars == <<scope, clock, cHub, fetch, cData, loaded, ports, term, sheet, logs, logReqs, refreshing, openings>>
histVars == <<made, hHub, hLoad, hSub, hWire, hData, picked, confirming, del, gone, pager, found, steps>>
alertVars == <<aHub, aStore, shown, initial, form, timers, sent, chosen, dropped, reached, edits>>
sysVars == <<points, contained, shownId, mode, activeTab, mountedTabs, tabsRef, opened, powerMemo, engineMemo, laid>>
chartVars == <<source, maxToggled, onScreen, cardSeen, seen, display, displayMax, areas, yAxisWidth, measures,
              filter, inputs, acts>>
dialogVars == <<authenticated, viewing, gen, bar, add, signIn, telegram, calls, hubSide, asked,
               toasts, toastTimeouts, count, clicks>>
vars == <<page, homeVars, contVars, histVars, alertVars, sysVars, chartVars, dialogVars>>

\* The states in which a page may start matter only where it is shown.
Init ==
    /\ page \in PageNames
    /\ Home!Init /\ Cont!Init /\ Hist!Init /\ Alert!Init /\ Sys!Init /\ Chart!Init /\ Dialog!Init
    /\ page # "containers" => scope = 0
    /\ page # "history" => pager = Hist!DefaultPage
    /\ page # "alerts" => \A k \in DOMAIN aHub : aHub[k] = Alert!Off
    /\ page # "system" => mode = "default"
    /\ page # "chart" => onScreen

\* Only one page does something.
HomeOnly == page = "home" /\ UNCHANGED <<page, contVars, histVars, alertVars, sysVars, chartVars, dialogVars>>
ContOnly == page = "containers" /\ UNCHANGED <<page, homeVars, histVars, alertVars, sysVars, chartVars, dialogVars>>
HistOnly == page = "history" /\ UNCHANGED <<page, homeVars, contVars, alertVars, sysVars, chartVars, dialogVars>>
AlertOnly == page = "alerts" /\ UNCHANGED <<page, homeVars, contVars, histVars, sysVars, chartVars, dialogVars>>
SysOnly == page = "system" /\ UNCHANGED <<page, homeVars, contVars, histVars, alertVars, chartVars, dialogVars>>
ChartOnly == page = "chart" /\ UNCHANGED <<page, homeVars, contVars, histVars, alertVars, sysVars, dialogVars>>
DialogOnly == page = "dialogs" /\ UNCHANGED <<page, homeVars, contVars, histVars, alertVars, sysVars, chartVars>>

Next ==
    \/ HomeOnly /\ Home!Next
    \/ ContOnly /\ Cont!Next
    \/ HistOnly /\ Hist!Next
    \/ AlertOnly /\ Alert!Next
    \/ SysOnly /\ Sys!Next
    \/ ChartOnly /\ Chart!Next
    \/ DialogOnly /\ Dialog!Next

\* Requests are answered; observers report and timers run out.
Answers == (ContOnly /\ Cont!Answers) \/ (DialogOnly /\ Dialog!Answers)
Timers == ChartOnly /\ (Chart!Browser \/ \E b \in Bars : Chart!FilterTimer(b))
Fairness == WF_vars(Answers) /\ WF_vars(Timers)

Spec == Init /\ [][Next]_vars /\ Fairness

-----------------------------------------------------------------------------
(* Properties: what the modules of the pages state, by what it is about.   *)

\* Every page keeps its state well-formed.
TypeOK ==
    /\ page \in PageNames
    /\ page = "home" => Home!TypeOK
    /\ page = "containers" => Cont!TypeOK
    /\ page = "history" => Hist!TypeOK
    /\ page = "alerts" => Alert!TypeOK
    /\ page = "system" => Sys!TypeOK
    /\ page = "chart" => Chart!TypeOK
    /\ page = "dialogs" => Dialog!TypeOK

\* What a page keeps instead of rendering it anew is what it would render: the
\* memoized rows of the systems table, the memoized series of the GPU charts,
\* the copy of the data that a chart on the screen draws and the width of its
\* axis.
MemosFresh ==
    /\ page = "home" => Home!RowsCurrent
    /\ page = "system" => Sys!SeriesCurrent
    /\ page = "chart" => Chart!VisibleFresh /\ Chart!LabelsFit

\* Answers go where they belong, although requests of the containers page
\* overlap: a container is listed once, and the logs in the sheet are those of
\* the container it is about.
AnswersPlaced == page = "containers" => Cont!MergedOnce /\ Cont!LogsOwned

\* After the debounced and cancelled requests of the alerts sheet the hub has
\* the user's last choice, for every system that the first edit was about.
EditsReach == page = "alerts" => Alert!LastChoiceHolds /\ Alert!GlobalEditsReach

\* What is shown is there, although records, tabs and pages come and go: the page
\* of the history has rows while there are any, the arrow keys reach every tab, both layouts draw the
\* same charts but for tabs that were not visited, and formatDuration rounds
\* without 60 of a unit.
ShownIsThere ==
    /\ page = "history" => Hist!PageExists /\ Hist!DurationRounds
    /\ page = "system" => Sys!TabsLoseNothing /\ Sys!ArrowsCycle

\* A removal that takes several steps hits what it was asked for: the bulk
\* deletion of the history, whose selection shifts; the timer of a dismissed
\* toast; the dialog of the systems grid, whose rows move; the deletion of a
\* system, which has to be uninstalled first.
RemovesAsked ==
    /\ Hist!DeletesChosen
    /\ Dialog!OpenToastStays
    /\ [][page = "home" => Home!GridDeletesAsked']_homeVars
    /\ [][page = "dialogs" => Dialog!UninstalledFirst']_dialogVars

\* What waits for an answer, a timer or an observer ends: the refresh button of
\* the logs and the buttons of the dialogs come back, a chart on the screen comes
\* to draw the current data, the filter bars and their store come to agree.
Settles ==
    /\ Cont!RefreshEnds
    /\ page = "dialogs" => Dialog!LoadingEnds
    /\ Chart!ChartCatchesUp
    /\ Chart!FilterSettles
=============================================================================
