----------------------------- MODULE AlertsSheet -----------------------------
(***************************************************************************)
(* The sheet in which alerts are switched on and off and adjusted          *)
(* (components/alerts/alerts-sheet.tsx): for one system, or for all of     *)
(* them on its second tab.                                                 *)
(*                                                                         *)
(* Every edit ends in upsertAlerts or deleteAlerts.  Each is debounced by  *)
(* 400 ms on one timer of the module, shared by all alerts, systems and    *)
(* sheets: a call takes the place of the one of its kind that waits.  The  *)
(* client of PocketBase cancels a request when the next of the same method *)
(* and path is sent.  "Copy from" is in AlertsStore.                       *)
(***************************************************************************)
EXTENDS Integers, FiniteSets, Sequences

CONSTANTS Hosts,        \* ids of the systems in $systems
          Kinds,        \* names of alerts
          Single,       \* those that have no value (singleDesc)
          Limited,      \* those that have a min and a max
          Top,          \* largest value and number of minutes of a slider
          MaxEdits      \* bound on what the user does

VARIABLES
    aHub,       \* the hub's alerts: settings, or Off, of each system and name
    aStore,     \* $alerts
    shown,      \* the open sheet: its system, its tab, overwriteExisting
    initial,    \* initialAlertsState: keys, as of the last change of tabs
    form,       \* state of the AlertContent of each name
    timers,     \* debounced calls, in the order in which their timers expire
    sent,       \* requests in flight
    chosen,     \* what the user chose last for a key
    dropped,    \* keys whose last choice was replaced, cancelled or overtaken
    reached,    \* systems an edit was meant for, per name, on this global tab
    edits       \* edits so far

vars == <<aHub, aStore, shown, initial, form, timers, sent, chosen, dropped, reached, edits>>
page == <<shown, initial, form>>

Keys == Hosts \X Kinds
Off == <<0, 0>>
Raw == 0 .. Top + 1                 \* what can be typed
Values == Raw \cup {0}
Settings == Values \X (1 .. Top)
Minutes == 1 .. Top

Calls == [method : {"POST", "DELETE"}, name : Kinds, set : Settings \cup {Off}, systems : SUBSET Hosts]
KeysOf(c) == c.systems \X {c.name}

TypeOK ==
    /\ aHub \in [Keys -> Settings \cup {Off}] /\ aStore \in [Keys -> Settings \cup {Off}]
    /\ shown \in [system : Hosts, tab : {"system", "global"}, overwrite : BOOLEAN]
    /\ initial \subseteq Keys
    /\ form \in [Kinds -> [checked : BOOLEAN, value : Values, min : Minutes]]
    /\ \A n \in Limited : form[n].value \in 1 .. Top
    /\ timers \in Seq(Calls) /\ Len(timers) <= 2
    /\ sent \subseteq Calls
    /\ dropped \subseteq Keys /\ DOMAIN chosen \subseteq Keys
    /\ edits \in 0 .. MaxEdits

-----------------------------------------------------------------------------
(* The forms.                                                              *)

\* alertData.start, and the default of min: 80 % and 10 minutes.
Start(n) == IF n \in Single THEN 0 ELSE Top
DefaultMin == Top

\* State of an AlertContent that mounts: the global ones start unchecked, with
\* the settings of the sheet's system.
Mounted(store, system, tab) ==
    [n \in Kinds |-> LET a == store[<<system, n>>]
                     IN  [checked |-> tab = "system" /\ a # Off,
                          value |-> IF a[1] = 0 THEN Start(n) ELSE a[1],
                          min |-> IF a[2] = 0 THEN DefaultMin ELSE a[2]]]

Existing(store) == {k \in Keys : store[k] # Off}

\* getSystemIds.
getSystemIds(n) ==
    IF shown.tab = "system" THEN {shown.system}
    ELSE {s \in Hosts : shown.overwrite \/ <<s, n>> \notin initial}

\* What the number inputs make of what is typed.
ClampMinUnchecked(v) == v    \* a bug: as typed
ClampMin(v) == IF v > Top THEN Top ELSE IF v < 1 THEN 1 ELSE v
ClampValue(n, v) == IF n \notin Limited THEN v ELSE IF v > Top THEN Top ELSE IF v < 1 THEN 1 ELSE v

-----------------------------------------------------------------------------
(* Sending.                                                                *)

\* clearTimeout: the timer of a method, of which there is at most one among the
\* two, is gone.
Cleared(ts, method) ==
    IF \A i \in DOMAIN ts : ts[i].method # method THEN ts
    ELSE IF ts[1].method = method THEN Tail(ts) ELSE <<ts[1]>>

\* debounce: clearTimeout, then a new timer behind the others.
DebounceKeepsTimer(ts, c) ==    \* a bug: the new call runs on the old timer
    IF \E i \in DOMAIN ts : ts[i].method = c.method
    THEN [i \in DOMAIN ts |-> IF ts[i].method = c.method THEN c ELSE ts[i]]
    ELSE Append(ts, c)
Debounce(ts, c) == Append(Cleared(ts, c.method), c)

Waiting(ts, method) == UNION {KeysOf(ts[i]) : i \in {j \in DOMAIN ts : ts[j].method = method}}

\* A call of upsertAlerts or deleteAlerts, and what was chosen by it.
Call(c) ==
    /\ timers' = Debounce(timers, c)
    /\ chosen' = [k \in DOMAIN chosen \cup KeysOf(c) |-> IF k \in KeysOf(c) THEN c.set ELSE chosen[k]]
    /\ dropped' = (dropped \cup Waiting(timers, c.method)) \ KeysOf(c)
    /\ reached' = [reached EXCEPT ![c.name] = @ \cup c.systems]

\* sendUpsert: nothing without systems.
sendUpsert(n, min, value) ==
    LET c == [method |-> "POST", name |-> n, set |-> <<value, min>>, systems |-> getSystemIds(n)]
    IN  IF c.systems # {} THEN Call(c) ELSE UNCHANGED <<timers, chosen, dropped, reached>>

deleteAlerts(n) ==
    Call([method |-> "DELETE", name |-> n, set |-> Off, systems |-> getSystemIds(n)])

Edit == edits < MaxEdits /\ edits' = edits + 1
Rest == UNCHANGED <<aHub, aStore, shown, sent>>

-----------------------------------------------------------------------------
(* What the user does.                                                     *)

\* AlertsButton: the content mounts anew with every opening.
OpenSheet(s) ==
    /\ Edit
    /\ shown' = [system |-> s, tab |-> "system", overwrite |-> FALSE]
    /\ initial' = Existing(aStore)
    /\ form' = Mounted(aStore, s, "system")
    /\ reached' = [n \in Kinds |-> {}]
    /\ UNCHANGED <<aHub, aStore, timers, sent, chosen, dropped>>

\* alertsWhenGlobalSelected: a copy of the alerts of the moment.
SelectTab(t) ==
    /\ t # shown.tab
    /\ Edit
    /\ shown' = [shown EXCEPT !.tab = t]
    /\ initial' = Existing(aStore)
    /\ form' = Mounted(aStore, shown.system, t)
    /\ reached' = [n \in Kinds |-> {}]
    /\ UNCHANGED <<aHub, aStore, timers, sent, chosen, dropped>>

ToggleOverwrite ==
    /\ shown.tab = "global"
    /\ Edit
    /\ shown' = [shown EXCEPT !.overwrite = ~@]
    /\ reached' = [n \in Kinds |-> {}]
    /\ UNCHANGED <<aHub, aStore, initial, form, timers, sent, chosen, dropped>>

\* onCheckedChange.
Check(n) ==
    /\ ~form[n].checked
    /\ Edit
    /\ form' = [form EXCEPT ![n].checked = TRUE]
    /\ sendUpsert(n, form[n].min, form[n].value)
    /\ UNCHANGED initial /\ Rest

\* With overwriteExisting the alert is forgotten at once, the request waits.
\* On the system tab overwriteExisting is not passed on and is FALSE.
Uncheck(n) ==
    /\ form[n].checked
    /\ Edit
    /\ form' = [form EXCEPT ![n].checked = FALSE]
    /\ deleteAlerts(n)
    /\ initial' = IF shown.tab = "global" /\ shown.overwrite
                  THEN {k \in initial : k[2] # n} ELSE initial
    /\ Rest

\* Sliders: dragging sets the state, letting go sends.
DragValue(n, v) ==
    /\ form[n].checked /\ n \notin Single /\ v # form[n].value
    /\ Edit
    /\ form' = [form EXCEPT ![n].value = v]
    /\ UNCHANGED <<initial, timers, chosen, dropped, reached>> /\ Rest

CommitValue(n) ==
    /\ form[n].checked /\ n \notin Single
    /\ Edit
    /\ sendUpsert(n, form[n].min, form[n].value)
    /\ UNCHANGED <<initial, form>> /\ Rest

TypeValue(n, typed) ==
    LET v == ClampValue(n, typed)
    IN  /\ form[n].checked /\ n \notin Single
        /\ Edit
        /\ form' = [form EXCEPT ![n].value = v]
        /\ sendUpsert(n, form[n].min, v)
        /\ UNCHANGED initial /\ Rest

\* The minutes, typed or dragged and let go.
TypeMin(n, typed) ==
    LET m == ClampMin(typed)
    IN  /\ form[n].checked
        /\ Edit
        /\ form' = [form EXCEPT ![n].min = m]
        /\ sendUpsert(n, m, form[n].value)
        /\ UNCHANGED initial /\ Rest

-----------------------------------------------------------------------------
(* Timers, requests and the hub.                                           *)

\* The timer runs out.  The request cancels one of its method in flight; one
\* of the other method for the same key may come in after it.
Send ==
    /\ timers # <<>>
    /\ LET c == Head(timers)
           open(method) == UNION {KeysOf(r) : r \in {q \in sent : q.method = method}}
       IN  /\ sent' = sent \cup {c}
           /\ dropped' = dropped \cup open(c.method)
                             \cup ((open("POST") \cup open("DELETE")) \cap KeysOf(c))
    /\ timers' = Tail(timers)
    /\ UNCHANGED <<aHub, aStore, page, chosen, reached, edits>>

\* UpsertAlerts with overwrite, and DeleteAlerts, each in a transaction.
Handled(hub, c) == [k \in Keys |-> IF k \in KeysOf(c) THEN c.set ELSE hub[k]]

Handle(c) ==
    /\ aHub' = Handled(aHub, c)
    /\ sent' = sent \ {c}
    /\ UNCHANGED <<aStore, page, timers, chosen, dropped, reached, edits>>

\* The request fails, or was cancelled before it got there: a toast.
Fail(c) ==
    /\ sent' = sent \ {c}
    /\ dropped' = dropped \cup KeysOf(c)
    /\ UNCHANGED <<aHub, aStore, page, timers, chosen, reached, edits>>

\* The realtime messages have been applied: see AlertsStore.
StoreUpdated ==
    /\ aStore # aHub
    /\ aStore' = aHub
    /\ UNCHANGED <<aHub, page, timers, sent, chosen, dropped, reached, edits>>

-----------------------------------------------------------------------------
\* The alerts before the sheet is opened.
Init ==
    /\ aHub \in {[k \in Keys |-> IF k = x THEN <<1, 1>> ELSE Off] : x \in Keys \cup {"none"}}
    /\ aStore = aHub
    /\ shown = [system |-> CHOOSE s \in Hosts : TRUE, tab |-> "system", overwrite |-> FALSE]
    /\ initial = Existing(aStore)
    /\ form = Mounted(aStore, shown.system, "system")
    /\ timers = <<>> /\ sent = {} /\ chosen = << >> /\ dropped = {}
    /\ reached = [n \in Kinds |-> {}] /\ edits = 0

Editing == \E n \in Kinds : \/ Check(n) \/ Uncheck(n) \/ CommitValue(n)
                            \/ \E v \in 1 .. Top : DragValue(n, v)
                            \/ \E v \in Raw : TypeValue(n, v) \/ TypeMin(n, v)

Next ==
    \/ \E s \in Hosts : OpenSheet(s)
    \/ \E t \in {"system", "global"} : SelectTab(t)
    \/ ToggleOverwrite
    \/ Editing
    \/ Send
    \/ \E c \in sent : Handle(c) \/ Fail(c)
    \/ StoreUpdated

Spec == Init /\ [][Next]_vars

-----------------------------------------------------------------------------
(* Properties.                                                             *)

\* When nothing waits and nothing is in flight, the hub has for every system
\* and alert what the user chose last, on whichever tab: two debounced senders
\* keep the order of the choices.  Choices another edit took the timer of, and
\* requests that failed or overtook each other, are excepted.
LastChoiceHolds ==
    timers = <<>> /\ sent = {} => \A k \in DOMAIN chosen \ dropped : aHub[k] = chosen[k]

\* "If we always compare to current alerts, it will only be updated when first
\* checked": on the global tab a further edit of an alert is meant for every
\* system an earlier one was meant for.
GlobalEditsReach == shown.tab = "global" => \A n \in Kinds : reached[n] \subseteq getSystemIds(n)
=============================================================================
