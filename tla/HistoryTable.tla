---------------------------- MODULE HistoryTable ----------------------------
(***************************************************************************)
(* The alert history of the settings page (components/routes/settings/     *)
(* alerts-history-data-table.tsx): a list and a subscription that start at *)
(* the same time, a selection of rows, and their deletion in batches.      *)
(*                                                                         *)
(* TanStack Table keeps the selection by row id, which is the index in the *)
(* data, and goes back to the first page when the data or a filter change. *)
(* The page number itself comes from the local storage, where an earlier   *)
(* visit left it.                                                          *)
(***************************************************************************)
EXTENDS Filtering, SequencesExt

CONSTANTS MaxRecords,   \* records made at most, one after the other
          BatchMax,     \* a batch with more records than this is sent (20)
          PageSizes,    \* rows per page
          Spans,        \* durations in seconds for which formatDuration is checked
          MaxSteps      \* bound on what the user and the hub do

VARIABLES
    made,       \* records made so far: 1 .. made
    hHub,       \* the hub's records, newest first
    hLoad,      \* the request for the list
    hSub,       \* the subscription
    hWire,      \* messages on their way
    hData,      \* data
    picked,     \* rowSelection: indexes
    confirming, \* the deletion dialog is open
    del,        \* the runs of handleBulkDelete: what each has left to send, by row, and what was chosen
    gone,       \* records deleted at the hub by handleBulkDelete
    pager,      \* pagination
    found,      \* globalFilter: the records it leaves
    steps       \* what the user and the hub did so far

server == <<made, hHub>>
link == <<hLoad, hSub, hWire>>
job == <<confirming, del, gone>>
vars == <<server, link, hData, picked, job, pager, found, steps>>

RecordIds == 1 .. MaxRecords
Records == [id : RecordIds, resolved : BOOLEAN]
Messages == [action : {"create", "update", "delete"}, record : Records]

\* A run of handleBulkDelete, told from others by the click that opened its dialog.
Deletions == [click : 0 .. MaxSteps, left : SUBSET [row : Nat, id : RecordIds], chosen : SUBSET RecordIds]

TypeOK ==
    /\ made \in 0 .. MaxRecords /\ hHub \in Seq(Records)
    /\ hLoad \in {"sent", "failed", "done"} /\ hSub \in {"opening", "live", "failed"}
    /\ hWire \in Seq(Messages) /\ hData \in Seq(Records)
    /\ picked \subseteq Nat /\ confirming \in BOOLEAN
    /\ del \subseteq Deletions
    /\ gone \subseteq RecordIds /\ pager.size \in PageSizes /\ pager.index \in Nat
    /\ found \subseteq RecordIds /\ steps \in 0 .. MaxSteps

\* useBrowserStorage: the page and the size of an earlier visit, when there may
\* have been other records, or the default.
StoredPages == [index : 0 .. MaxRecords, size : PageSizes]
DefaultPage == [index |-> 0, size |-> CHOOSE n \in PageSizes : \A m \in PageSizes : n <= m]

Init ==
    /\ made = 2 /\ hHub = <<[id |-> 2, resolved |-> FALSE], [id |-> 1, resolved |-> TRUE]>>
    /\ hLoad = "sent" /\ hSub = "opening" /\ hWire = <<>>
    /\ hData = <<>> /\ picked = {} /\ confirming = FALSE /\ del = {} /\ gone = {}
    /\ pager \in StoredPages
    /\ found = RecordIds /\ steps = 0

Step == steps < MaxSteps /\ steps' = steps + 1

-----------------------------------------------------------------------------
(* The data.                                                               *)

\* globalFilterFn
Filtered(d, f) == Filter(d, LAMBDA r : r.id \in f)
PageCount(d, f, size) == (Len(Filtered(d, f)) + size - 1) \div size

\* Another page number when the data or the filter have changed.
PageKept(p) == p    \* a bug: the page stays as it is
PageReset(p) == [p EXCEPT !.index = 0]

SetData(d) == hData' = d /\ pager' = PageReset(pager)

\* getList, newest first, replaces what is there ...
Loaded ==
    /\ hLoad = "sent"
    /\ hLoad' = "done"
    /\ SetData(hHub)
    /\ UNCHANGED <<server, hSub, hWire, picked, job, found, steps>>

\* ... or fails, which nobody handles.
LoadFails ==
    /\ hLoad = "sent"
    /\ hLoad' = "failed"
    /\ UNCHANGED <<server, hSub, hWire, hData, picked, job, pager, found, steps>>

Subscribed ==
    /\ hSub = "opening"
    /\ hSub' \in {"live", "failed"}
    /\ UNCHANGED <<server, hLoad, hWire, hData, picked, job, pager, found, steps>>

\* The callback of the subscription.
OnEvent(d, m) ==
    CASE m.action = "create" -> <<m.record>> \o d
      [] m.action = "update" -> [i \in DOMAIN d |-> IF d[i].id = m.record.id THEN m.record ELSE d[i]]
      [] m.action = "delete" -> Filter(d, LAMBDA r : r.id # m.record.id)

Deliver ==
    /\ hWire # <<>>
    /\ SetData(OnEvent(hData, Head(hWire)))
    /\ hWire' = Tail(hWire)
    /\ UNCHANGED <<server, hLoad, hSub, picked, job, found, steps>>

-----------------------------------------------------------------------------
(* The user.                                                               *)

\* setGlobalFilter
SetFilter(f) ==
    /\ ~confirming /\ f # found /\ Step
    /\ found' = f
    /\ pager' = PageReset(pager)
    /\ UNCHANGED <<server, link, hData, picked, job>>

\* The buttons for the first and the previous, and for the next and the last
\* page: getCanPreviousPage looks at the number only, getCanNextPage also at how
\* many there are.
PageTargets ==
    LET last == PageCount(hData, found, pager.size) - 1
    IN  {i \in {0, pager.index - 1} : pager.index > 0}
            \cup {i \in {pager.index + 1, last} : pager.index < last}
GoToPage(i) ==
    /\ ~confirming /\ Step
    /\ pager' = [pager EXCEPT !.index = i]
    /\ UNCHANGED <<server, link, hData, picked, job, found>>

\* setPageSize keeps the row at the top.
SetPageSize(n) ==
    /\ ~confirming /\ n # pager.size /\ Step
    /\ pager' = [index |-> (pager.index * pager.size) \div n, size |-> n]
    /\ UNCHANGED <<server, link, hData, picked, job, found>>

\* The checkbox of a row, and the one of the header for all rows of the page.
Toggle(i) ==
    /\ ~confirming /\ Step
    /\ picked' = IF i \in picked THEN picked \ {i} ELSE picked \cup {i}
    /\ UNCHANGED <<server, link, hData, job, pager, found>>

OnPage == {i \in DOMAIN hData : hData[i].id \in found
              /\ Cardinality({j \in 1 .. i - 1 : hData[j].id \in found}) \div pager.size = pager.index}
ToggleAll ==
    /\ ~confirming /\ Step
    /\ picked' = IF OnPage \subseteq picked THEN picked \ OnPage ELSE picked \cup OnPage
    /\ UNCHANGED <<server, link, hData, job, pager, found>>

\* The button is there while a selected row passes the filter, be it that an
\* earlier deletion still waits for its batches.
OpenDelete ==
    /\ ~confirming /\ Step
    /\ \E i \in picked \cap DOMAIN hData : hData[i].id \in found
    /\ confirming' = TRUE
    /\ UNCHANGED <<server, link, hData, picked, del, gone, pager, found>>

CancelDelete ==
    /\ confirming /\ Step
    /\ confirming' = FALSE
    /\ UNCHANGED <<server, link, hData, picked, del, gone, pager, found>>

\* handleBulkDelete: the ids are read once, before the first request, in the
\* order of the rows.
IdsOf(rows) == {r.id : r \in rows}
SelectedIds == {[row |-> i, id |-> hData[i].id] : i \in picked \cap DOMAIN hData}
handleBulkDelete ==
    /\ confirming
    /\ confirming' = FALSE
    /\ del' = del \cup {[click |-> steps, left |-> SelectedIds, chosen |-> IdsOf(SelectedIds)]}
    /\ UNCHANGED <<server, link, hData, picked, gone, pager, found, steps>>

-----------------------------------------------------------------------------
(* The hub.                                                                *)

Tell(msgs) == hWire' = IF hSub = "live" THEN hWire \o msgs ELSE hWire

Present(id) == \E i \in DOMAIN hHub : hHub[i].id = id
RemoveIds(ids) ==
    /\ hHub' = Filter(hHub, LAMBDA r : r.id \notin ids)
    /\ LET out == Filter(hHub, LAMBDA r : r.id \in ids)
       IN  Tell([i \in DOMAIN out |-> [action |-> "delete", record |-> out[i]]])

\* The next batch, the first that are left: it is sent when it holds more than
\* BatchMax.
FirstOf(rows) == {r \in rows : Cardinality({q \in rows : q.row < r.row}) <= BatchMax}
BatchFromSelection(d) == FirstOf(SelectedIds)    \* a bug: the selection is read again
NextBatch(d) == FirstOf(d.left)

\* batch.send is one transaction: a record that is no longer there fails
\* it, and so does one that is in it twice.
SendBatch(d) ==
    LET ids == IdsOf(NextBatch(d))
    IN  /\ d.left # {}
        /\ \/ /\ Cardinality(ids) = Cardinality(NextBatch(d)) /\ \A id \in ids : Present(id)
              /\ RemoveIds(ids)
              /\ gone' = gone \cup ids
              /\ del' = (del \ {d}) \cup {[d EXCEPT !.left = @ \ NextBatch(d)]}
           \/ /\ del' = del \ {d}    \* toast: "Failed to delete records."
              /\ UNCHANGED <<hHub, hWire, gone>>
        /\ UNCHANGED <<made, hLoad, hSub, hData, picked, confirming, pager, found, steps>>

\* table.resetRowSelection(), whatever has been selected in the meantime
BulkDeleted(d) ==
    /\ d.left = {}
    /\ del' = del \ {d}
    /\ picked' = {}
    /\ UNCHANGED <<server, link, hData, confirming, gone, pager, found, steps>>

\* A new alert, one that is resolved, one that is pruned.
HubCreate ==
    /\ made < MaxRecords /\ Step
    /\ made' = made + 1
    /\ LET r == [id |-> made', resolved |-> FALSE]
       IN  hHub' = <<r>> \o hHub /\ Tell(<<[action |-> "create", record |-> r]>>)
    /\ UNCHANGED <<hLoad, hSub, hData, picked, job, pager, found>>

HubResolve(i) ==
    /\ ~hHub[i].resolved /\ Step
    /\ hHub' = [hHub EXCEPT ![i].resolved = TRUE]
    /\ Tell(<<[action |-> "update", record |-> hHub'[i]]>>)
    /\ UNCHANGED <<made, hLoad, hSub, hData, picked, job, pager, found>>

HubPrune ==
    /\ hHub # <<>> /\ Step
    /\ RemoveIds({Last(hHub).id})
    /\ UNCHANGED <<made, hLoad, hSub, hData, picked, job, pager, found>>

-----------------------------------------------------------------------------
Next ==
    \/ Loaded \/ LoadFails \/ Subscribed \/ Deliver
    \/ \E f \in {RecordIds, {1}} : SetFilter(f)
    \/ \E i \in PageTargets : GoToPage(i)
    \/ \E n \in PageSizes : SetPageSize(n)
    \/ \E i \in OnPage : Toggle(i)
    \/ ToggleAll \/ OpenDelete \/ CancelDelete \/ handleBulkDelete
    \/ \E d \in del : SendBatch(d) \/ BulkDeleted(d)
    \/ HubCreate \/ HubPrune \/ \E i \in DOMAIN hHub : HubResolve(i)

Spec == Init /\ [][Next]_vars

-----------------------------------------------------------------------------
(* formatDuration: hours, minutes and seconds; [0, 0, 0] shows nothing.    *)

formatDuration(t) ==
    LET up == t % 60 >= 58
        m0 == (t % 3600) \div 60 + (IF up THEN 1 ELSE 0)
        h == t \div 3600 + (IF m0 >= 60 THEN 1 ELSE 0)
    IN  <<h, IF m0 >= 60 THEN 0 ELSE m0, IF up \/ h > 0 THEN 0 ELSE t % 60>>

(* Properties.                                                             *)

\* "This will permanently delete all selected records": whatever messages move
\* the rows while the batches of one or of several deletions are sent, only
\* records that were selected at the click are deleted.
DeletesChosen == [][gone' # gone => \E d \in del : gone' \ gone \subseteq d.chosen]_vars

\* While there are rows to show, the page that is shown has some, however the
\* list shrinks and whichever page number the local storage had.
PageExists == Len(Filtered(hData, found)) > 0 => pager.index < PageCount(hData, found, pager.size)

\* A duration is shown with minutes and seconds below 60, at most 2 s off below
\* an hour and less than a minute off above.
DurationRounds ==
    \A t \in Spans :
        LET d == formatDuration(t)
            v == d[1] * 3600 + d[2] * 60 + d[3]
        IN  /\ d[2] < 60 /\ d[3] < 58
            /\ v <= t + 2 /\ t < v + (IF d[1] = 0 THEN 1 ELSE 60)
=============================================================================
