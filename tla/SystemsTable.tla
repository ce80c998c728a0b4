---------------------------- MODULE SystemsTable ----------------------------
(***************************************************************************)
(* The table or grid of systems on the home page (components/              *)
(* systems-table): what is filtered out, what a row renders and keeps      *)
(* rendered, and the actions of a row with their dialog.                   *)
(*                                                                         *)
(* TanStack Table gives a row the index of its record in the data as id;   *)
(* the table uses it as the key of the row's component, the grid uses the  *)
(* system's id.  A component's state and memo go with its key.             *)
(***************************************************************************)
EXTENDS Filtering

CONSTANTS Ids,          \* ids of systems, 1 .. n; all but the last are there at first
          Columns,      \* columns that can be hidden
          MaxEvents     \* bound on what happens

VARIABLES
    list,       \* $systems: records in the order of the store
    ui,         \* the state of the page
    storage,    \* what the browser keeps of it
    rendered,   \* memo of the component of each row
    dialog,     \* the open deletion dialog
    requests,   \* requests on their way to the hub
    deleted,    \* the last confirmed deletion
    events      \* what happened so far

vars == <<list, ui, storage, rendered, dialog, requests, deleted, events>>

Statuses == {"up", "down", "paused", "pending"}
Levels == {"none", "good", "warn", "crit"}    \* of its metrics: none yet, or their meter state
Systems == [id : Ids, status : Statuses, level : Levels]
NoDialog == [open |-> FALSE, key |-> 0, for |-> 0]
None == [id |-> 0, wanted |-> 0, view |-> "grid"]

TypeOK ==
    /\ list \in Seq(Systems)
    /\ \A i, j \in DOMAIN list : list[i].id = list[j].id => i = j
    /\ ui \in [status : {"all", "up", "down", "paused"}, filter : BOOLEAN, sort : Columns \cup {"system"},
               desc : BOOLEAN, view : {"table", "grid"}, hidden : SUBSET Columns, crashed : BOOLEAN]
    /\ storage.view \in {"table", "grid"} /\ storage.hidden \subseteq Columns
    /\ dialog.open \in BOOLEAN /\ events \in 0 .. MaxEvents
    /\ \A k \in DOMAIN rendered : rendered[k].sys \in Systems
    /\ \A r \in requests : r.id \in Ids

-----------------------------------------------------------------------------
(* Rows.                                                                   *)

\* filteredData: all records, or those of the chosen status.
FilteredData(l, f) == IF f = "all" THEN l ELSE Filter(l, LAMBDA r : r.status = f)

\* filterFn reads sys.host, which is none of the fields that are fetched: with
\* a filter text the first row throws, and the page is gone.
FilterThrows(l, u) == u.filter /\ FilteredData(l, u.status) # <<>>

VisibleColumns(u) == Columns \ u.hidden

\* TableCellWithMeter: the class of a meter, grey unless the system is up.
MeterClass(r) == IF r.status # "up" THEN "paused"
                 ELSE CASE r.level \in {"none", "good"} -> "up"
                        [] r.level = "warn" -> "pending"
                        [] OTHER -> "down"

\* DiskCellWithMultiple: a dot for the state of other disks, if it is up.
DiskCell(r) == <<MeterClass(r), IF r.status = "up" THEN {r.level} ELSE {}>>

\* Nothing for no load of a paused system, nothing for the traffic of one that
\* is not up.
LoadCell(r) == IF r.level = "none" /\ r.status = "paused" THEN <<>> ELSE <<MeterClass(r)>>
NetCell(r) == IF r.status = "up" THEN <<"traffic">> ELSE <<>>

CellOf(c, r) == CASE c = "disk" -> DiskCell(r)
                  [] c = "loadAverage" -> LoadCell(r)
                  [] c = "net" -> NetCell(r)
                  [] OTHER -> <<MeterClass(r)>>

\* IndicatorDot.
IndicatorDot(r) == r.status

\* The keys of the rows' components.
RowKey(rows, view, i) == IF view = "table" THEN i ELSE rows[i].id
RowKeys(rows, view) == {RowKey(rows, view, i) : i \in DOMAIN rows}
RowOf(rows, view, k) == rows[CHOOSE i \in DOMAIN rows : RowKey(rows, view, i) = k]

\* A row's cells, and its memo on the system and on the number of columns.
Cells(r, u) == [sys |-> r, dot |-> IndicatorDot(r), cols |-> VisibleColumns(u),
                cells |-> [c \in VisibleColumns(u) |-> CellOf(c, r)]]
SameDepsWithoutLength(m, r, u) == m.sys = r    \* a bug: colLength is forgotten
SameDeps(m, r, u) == m.sys = r /\ Cardinality(m.cols) = Cardinality(VisibleColumns(u))

\* A render: components whose key is still there keep their memo.
Render(l, u) ==
    LET rows == FilteredData(l, u.status)
        keys == IF FilterThrows(l, u) THEN {} ELSE RowKeys(rows, u.view)
    IN  rendered' = [k \in keys |->
            LET r == RowOf(rows, u.view, k)
            IN  IF u.view = ui.view /\ k \in DOMAIN rendered /\ SameDeps(rendered[k], r, u)
                THEN rendered[k] ELSE Cells(r, u)]

\* The dialog is part of the row's ActionsButton.
DialogAfter == IF dialog.open /\ dialog.key \in DOMAIN rendered' THEN dialog ELSE NoDialog

Event == events < MaxEvents /\ events' = events + 1 /\ ~ui.crashed

\* The page with records l and state u; useBrowserStorage saves what it keeps.
Page(l, u) ==
    /\ list' = l
    /\ ui' = [u EXCEPT !.crashed = FilterThrows(l, u)]
    /\ storage' = [sort |-> u.sort, desc |-> u.desc, view |-> u.view, hidden |-> u.hidden]
    /\ Render(l, u)
    /\ dialog' = DialogAfter

-----------------------------------------------------------------------------
(* The user.                                                               *)

\* While the dialog is open nothing else of the page can be reached.
Set(u) == ~dialog.open /\ Event /\ Page(list, u) /\ UNCHANGED <<requests, deleted>>

\* A text is typed, or cleared.
SetFilter == Set([ui EXCEPT !.filter = ~@])
SetStatusFilter(s) == s # ui.status /\ Set([ui EXCEPT !.status = s])
SetViewMode(v) == v # ui.view /\ Set([ui EXCEPT !.view = v])

\* The menu and a click on a header: another column starts ascending.
SetSorting(c) == Set([ui EXCEPT !.sort = c, !.desc = ui.sort = c /\ ~ui.desc])

ToggleVisibility(c) ==
    Set([ui EXCEPT !.hidden = IF c \in @ THEN @ \ {c} ELSE @ \cup {c}])

\* Pause or resume: a request with the status that the row does not show.
TogglePause(k) ==
    /\ ~dialog.open /\ Event
    /\ k \in DOMAIN rendered
    /\ requests' = requests \cup {[id |-> rendered[k].sys.id,
                                   status |-> IF rendered[k].sys.status = "paused" THEN "pending" ELSE "paused"]}
    /\ UNCHANGED <<list, ui, storage, rendered, dialog, deleted>>

OpenDelete(k) ==
    /\ ~dialog.open /\ Event
    /\ k \in DOMAIN rendered
    /\ dialog' = [open |-> TRUE, key |-> k, for |-> rendered[k].sys.id]
    /\ UNCHANGED <<list, ui, storage, rendered, requests, deleted>>

\* The dialog acts on the system of its row.
ConfirmDelete ==
    /\ dialog.open /\ Event
    /\ LET id == rendered[dialog.key].sys.id
       IN  /\ requests' = requests \cup {[id |-> id, status |-> "deleted"]}
           /\ deleted' = [id |-> id, wanted |-> dialog.for, view |-> ui.view]
    /\ dialog' = NoDialog
    /\ UNCHANGED <<list, ui, storage, rendered>>

CancelDelete ==
    /\ dialog.open /\ Event
    /\ dialog' = NoDialog
    /\ UNCHANGED <<list, ui, storage, rendered, requests, deleted>>

\* The page is loaded again: the state comes from the storage.
Reload ==
    /\ events < MaxEvents /\ events' = events + 1
    /\ LET u == [status |-> "all", filter |-> FALSE, sort |-> storage.sort, desc |-> storage.desc,
                 view |-> storage.view, hidden |-> storage.hidden, crashed |-> FALSE]
       IN  ui' = u /\ rendered' = [k \in RowKeys(list, u.view) |-> Cells(RowOf(list, u.view, k), u)]
    /\ dialog' = NoDialog
    /\ UNCHANGED <<list, storage, requests, deleted>>

-----------------------------------------------------------------------------
(* The hub: a request is carried out, a system changes or is enrolled, and *)
(* the stores follow.                                                      *)

Changed(id, s, c) == [i \in DOMAIN list |-> IF list[i].id = id
                                            THEN [list[i] EXCEPT !.status = s, !.level = c] ELSE list[i]]
Without(id) == Filter(list, LAMBDA r : r.id # id)

Handle(r) ==
    /\ ~ui.crashed
    /\ requests' = requests \ {r}
    /\ \/ \E i \in DOMAIN list :
             /\ list[i].id = r.id
             /\ Page(IF r.status = "deleted" THEN Without(r.id) ELSE Changed(r.id, r.status, list[i].level), ui)
       \/ /\ Without(r.id) = list    \* it is gone
          /\ UNCHANGED <<list, ui, storage, rendered, dialog>>
    /\ UNCHANGED <<deleted, events>>

HubChange(id, s, c) ==
    /\ Event
    /\ \E i \in DOMAIN list : list[i].id = id /\ Page(Changed(id, s, c), ui)
    /\ UNCHANGED <<requests, deleted>>

HubEnroll(id) ==
    /\ Event
    /\ \A i \in DOMAIN list : list[i].id # id
    /\ Page(Append(list, [id |-> id, status |-> "up", level |-> "good"]), ui)
    /\ UNCHANGED <<requests, deleted>>

HubDelete(id) ==
    /\ Event
    /\ Without(id) # list
    /\ Page(Without(id), ui)
    /\ UNCHANGED <<requests, deleted>>

Start == [status |-> "all", filter |-> FALSE, sort |-> "system", desc |-> FALSE,
          view |-> "table", hidden |-> {}, crashed |-> FALSE]

Init ==
    /\ list = [i \in 1 .. Cardinality(Ids) - 1 |-> [id |-> i, status |-> "up", level |-> "good"]]
    /\ ui = Start
    /\ storage = [sort |-> "system", desc |-> FALSE, view |-> "table", hidden |-> {}]
    /\ rendered = [i \in DOMAIN list |-> Cells(list[i], ui)]
    /\ dialog = NoDialog
    /\ requests = {} /\ deleted = None /\ events = 0

User ==
    \/ SetFilter \/ ConfirmDelete \/ CancelDelete \/ Reload
    \/ \E s \in {"all", "up", "down", "paused"} : SetStatusFilter(s)
    \/ \E v \in {"table", "grid"} : SetViewMode(v)
    \/ \E c \in Columns \cup {"system"} : SetSorting(c)
    \/ \E c \in Columns : ToggleVisibility(c)
    \/ \E k \in DOMAIN rendered : TogglePause(k) \/ OpenDelete(k)

Next ==
    \/ User
    \/ \E r \in requests : Handle(r)
    \/ \E id \in Ids : HubEnroll(id) \/ HubDelete(id)
    \/ \E id \in Ids, s \in {"up", "down"}, c \in Levels : HubChange(id, s, c)

Spec == Init /\ [][Next]_vars

-----------------------------------------------------------------------------
(* Properties.                                                             *)

\* A row that was not rendered anew shows the record and the columns it would
\* show if it had been.
RowsCurrent ==
    ~ui.crashed =>
        \A k \in DOMAIN rendered :
            rendered[k] = Cells(RowOf(FilteredData(list, ui.status), ui.view, k), ui)

\* "Are you sure you want to delete {name}?": in the grid a deletion that was
\* asked for one system is never carried out on another, although systems come
\* and go while the dialog is open.
GridDeletesAsked == deleted.view = "grid" => deleted.id = deleted.wanted
=============================================================================
