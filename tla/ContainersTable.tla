--------------------------- MODULE ContainersTable ---------------------------
(***************************************************************************)
(* The table of containers (components/containers-table): the list, which  *)
(* is fetched again after every update of a system and merged with what is *)
(* there, and the sheet with a container's logs.                           *)
(*                                                                         *)
(* The PocketBase client cancels a request when the same path is requested *)
(* again.  Time is counted in updates of a system (60 s): less than 70 s    *)
(* apart is at most one update apart.                                      *)
(***************************************************************************)
EXTENDS Naturals, FiniteSets

CONSTANTS Containers,   \* ids of containers
          SystemOf,     \* SystemOf[c]: the system c runs on
          Exposed,      \* containers that have ports
          Matching,     \* containers that a filter text matches
          MaxTime,      \* bound on the time
          MaxOpened     \* bound on how often a sheet is opened or refreshed

Systems == {SystemOf[c] : c \in Containers}
All == 0          \* no systemId: the page of all containers
NoOne == 0        \* no container

VARIABLES
    scope,      \* the systemId of the table, or All
    clock,      \* the time
    cHub,       \* the hub's containers
    fetch,      \* the request in flight that was not cancelled
    cData,      \* data
    loaded,     \* data is defined
    ports,      \* the ports column is visible
    term,       \* globalFilter: the containers it matches
    sheet,      \* the sheet: its container, whether it and full screen are open
    logs,       \* logsDisplay: the container whose logs are shown
    logReqs,    \* getLogs requests that have not come to an end
    refreshing, \* isRefreshingLogs
    openings    \* how often a sheet was opened or refreshed

list == <<cData, loaded, ports, term>>
panel == <<sheet, logs, logReqs, refreshing, openings>>
vars == <<scope, clock, cHub, fetch, list, panel>>

Records == [id : Containers, updated : 0 .. MaxTime]
Fetches == {[on |-> FALSE, sys |-> All]} \cup [on : {TRUE}, sys : Systems \cup {All}]
NoFetch == [on |-> FALSE, sys |-> All]
LogReqs == [n : 1 .. MaxOpened, for : Containers, cancelled : BOOLEAN, refresh : BOOLEAN]

TypeOK ==
    /\ scope \in Systems \cup {All} /\ clock \in 0 .. MaxTime
    /\ cHub \subseteq Records /\ fetch \in Fetches
    /\ cData \subseteq Records /\ loaded \in BOOLEAN /\ ports \in BOOLEAN
    /\ term \subseteq Containers
    /\ sheet.for \in Containers \cup {NoOne}
    /\ logs \in Containers \cup {NoOne} /\ logReqs \subseteq LogReqs
    /\ refreshing \in BOOLEAN /\ openings \in 0 .. MaxOpened

\* initial load
Init ==
    /\ scope \in Systems \cup {All}
    /\ clock = 0
    /\ cHub = {[id |-> c, updated |-> 0] : c \in Containers}
    /\ fetch = [on |-> TRUE, sys |-> scope]
    /\ cData = {} /\ loaded = FALSE /\ ports = TRUE /\ term = Containers
    /\ sheet = [for |-> NoOne, open |-> FALSE, full |-> FALSE]
    /\ logs = NoOne /\ logReqs = {} /\ refreshing = FALSE /\ openings = 0

-----------------------------------------------------------------------------
(* The list.                                                               *)

IdsOf(s) == {r.id : r \in s}
Max2(a, b) == IF a > b THEN a ELSE b

\* The merge of the answer, items, with what is there.  lastUpdated is the newer
\* one of the first and the last item.
Merged(items, cur, lastUpdated) ==
    LET new == {r \in items : r.updated + 1 >= lastUpdated /\ r.updated <= lastUpdated + 1}
    IN  new \cup {r \in cur : r.id \notin IdsOf(new) /\ r.updated + 1 >= lastUpdated}

\* setData, and the effect that hides the ports column.
SetData(d) ==
    /\ cData' = d /\ loaded' = TRUE
    /\ ports' = (IdsOf(d) \cap Exposed # {})
    /\ UNCHANGED <<term, panel>>

FetchAnswer ==
    LET items == {r \in cHub : fetch.sys = All \/ SystemOf[r.id] = fetch.sys}
    IN  /\ fetch.on
        /\ fetch' = NoFetch
        /\ \/ /\ items = {}
              /\ SetData(IF fetch.sys = All THEN {}
                         ELSE {r \in cData : SystemOf[r.id] # fetch.sys})
           \/ \E first, last \in items :
                 /\ Cardinality(items) > 1 => first # last
                 /\ SetData(Merged(items, cData, Max2(first.updated, last.updated)))
        /\ UNCHANGED <<scope, clock, cHub>>

\* A failed request is not caught: the list stays as it is.
FetchFails ==
    /\ fetch.on
    /\ fetch' = NoFetch
    /\ UNCHANGED <<scope, clock, cHub, list, panel>>

\* The hub hears from system s: its containers are saved anew, those that are
\* gone are deleted; then the system's record changes and the listener fetches.
Update(s, gone) ==
    LET mine == {r \in cHub : SystemOf[r.id] = s}
    IN  /\ clock < MaxTime
        /\ clock' = clock + 1
        /\ gone \subseteq mine
        /\ cHub' = (cHub \ mine) \cup {[r EXCEPT !.updated = clock'] : r \in mine \ gone}
        /\ \/ scope \in {All, s} /\ fetch' = [on |-> TRUE, sys |-> s]
           \/ scope \notin {All, s} /\ UNCHANGED fetch
           \/ scope = All /\ clock = 0 /\ UNCHANGED fetch    \* in the first 500 ms
        /\ UNCHANGED <<scope, list, panel>>

\* globalFilterFn: the rows that contain every word.
SetFilter(cs) ==
    /\ term' = cs
    /\ cs # term
    /\ ~sheet.open
    /\ UNCHANGED <<scope, clock, cHub, fetch, cData, loaded, ports, panel>>

Rows == {r \in cData : r.id \in term}

-----------------------------------------------------------------------------
(* The sheet.                                                              *)

\* getLogs: a request on its way is cancelled.
GetLogsUncancelled(c, refresh) ==    \* a bug: the earlier one goes on
    /\ openings < MaxOpened /\ openings' = openings + 1
    /\ logReqs' = logReqs \cup {[n |-> openings', for |-> c, cancelled |-> FALSE, refresh |-> refresh]}
GetLogs(c, refresh) ==
    /\ openings < MaxOpened /\ openings' = openings + 1
    /\ logReqs' = {[r EXCEPT !.cancelled = TRUE] : r \in logReqs}
                  \cup {[n |-> openings', for |-> c, cancelled |-> FALSE, refresh |-> refresh]}

\* openSheet, and the effect on the container: a row that was fetched anew since
\* is another object.
OpenSheet(r) ==
    /\ ~sheet.open /\ r \in Rows
    /\ sheet' = [for |-> r.id, open |-> TRUE, full |-> FALSE]
    /\ \/ logs' = NoOne /\ GetLogs(r.id, FALSE)
       \/ sheet.for = r.id /\ UNCHANGED <<logs, logReqs, openings>>
    /\ UNCHANGED <<scope, clock, cHub, fetch, list, refreshing>>

CloseSheet ==
    /\ sheet.open /\ ~sheet.full
    /\ sheet' = [sheet EXCEPT !.open = FALSE]
    /\ UNCHANGED <<scope, clock, cHub, fetch, list, logs, logReqs, refreshing, openings>>

\* LogsFullscreenDialog
Fullscreen ==
    /\ sheet.open
    /\ sheet' = [sheet EXCEPT !.full = ~@]
    /\ UNCHANGED <<scope, clock, cHub, fetch, list, logs, logReqs, refreshing, openings>>

\* refreshLogs; the button is disabled while it runs.
RefreshLogs ==
    /\ sheet.open /\ ~refreshing
    /\ refreshing' = TRUE
    /\ GetLogs(sheet.for, TRUE)
    /\ UNCHANGED <<scope, clock, cHub, fetch, list, sheet, logs>>

\* finally: the button is enabled again, after 500 ms at least.
Refreshed(r) == IF r.refresh THEN FALSE ELSE refreshing

\* The promise is settled: with the logs, or, failed or cancelled, with none.
\* A cancelled one is settled before any answer that comes later.
LogsAnswer(r) ==
    /\ r.cancelled \/ \A q \in logReqs : ~q.cancelled
    /\ logReqs' = logReqs \ {r}
    /\ \E ok \in IF r.cancelled THEN {FALSE} ELSE BOOLEAN :
          logs' = IF ok THEN r.for ELSE NoOne
    /\ refreshing' = Refreshed(r)
    /\ UNCHANGED <<scope, clock, cHub, fetch, list, sheet, openings>>

-----------------------------------------------------------------------------
Answers == FetchAnswer \/ \E r \in logReqs : LogsAnswer(r)

Next ==
    \/ Answers \/ FetchFails
    \/ \E s \in Systems, gone \in SUBSET cHub : Update(s, gone)
    \/ \E cs \in {Containers, Matching} : SetFilter(cs)
    \/ \E r \in cData : OpenSheet(r)
    \/ CloseSheet \/ Fullscreen \/ RefreshLogs

Spec == Init /\ [][Next]_vars

-----------------------------------------------------------------------------
(* Properties.                                                             *)

\* However the list of one system is merged into the others, a container is in
\* the table once, and a table of one system holds no container of another.
MergedOnce ==
    /\ \A r, q \in cData : r.id = q.id => r = q
    /\ scope # All => \A r \in cData : SystemOf[r.id] = scope

\* "Live output from {name}": the logs shown are those of the container whose
\* name is above them, although a request for the last one may be on its way.
LogsOwned == logs \in {NoOne, sheet.for}

\* The refresh button comes back, also when its request was cancelled.
RefreshEnds == refreshing ~> ~refreshing
=============================================================================
