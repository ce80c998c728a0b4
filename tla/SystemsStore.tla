---------------------------- MODULE SystemsStore ----------------------------
(***************************************************************************)
(* The browser's copy of the systems collection (lib/systemsManager.ts):   *)
(* the list that App fetches when it is mounted, the realtime subscription *)
(* it opens afterwards, and the five map stores that the two fill.         *)
(*                                                                         *)
(* A map store is the set of the records in it; its key is the id, for     *)
(* byName the name.  The JavaScript of one callback runs to its end before *)
(* anything else happens, the listener of $allSystemsById included, so a   *)
(* callback is one step.  The steps in between are the hub's.              *)
(***************************************************************************)
EXTENDS Integers, FiniteSets, Sequences

CONSTANTS Ids,          \* ids of systems; an id is used once
          Names,        \* names of systems; two systems may have the same one
          Width,        \* Width[n]: getVisualStringWidth(n)
          MaxChanges    \* bound on the changes made at the hub

\* What is assumed of them.
StoreConstants == /\ Width \in [Names -> Nat]
                  /\ MaxChanges \in Nat

Statuses == {"up", "down", "paused", "pending"}

\* cpu: whether info has CPU info.  The hub fills info when it makes a record;
\* only a record that some other program wrote has none, and add and update
\* guard against it.
Records == [id : Ids, name : Names, status : Statuses, cpu : BOOLEAN]

VARIABLES
    db,         \* the hub's collection
    fresh,      \* ids not used yet
    byName,     \* $allSystemsByName
    byId,       \* $allSystemsById
    up,         \* $upSystems
    down,       \* $downSystems
    paused,     \* $pausedSystems
    longest,    \* $longestSystemNameLen
    favicon,    \* the number updateFavicon was last called with
    phase,      \* how far App's effect has got
    answer,     \* the answer to fetchSystems on its way to the browser
    wire,       \* realtime messages on their way to the browser
    online,     \* the realtime connection is there
    missed,     \* ids whose last change the browser will not hear of
    changes     \* changes made at the hub so far

hub == <<db, fresh, changes>>
stores == <<byName, byId, up, down, paused, longest, favicon>>
net == <<phase, answer, wire, online, missed>>
vars == <<hub, stores, net>>

Phases == {"fetch", "refresh", "subscribe", "live", "unsubscribed", "closed"}
Messages == [action : {"create", "update", "delete"}, record : Records]

TypeOK ==
    /\ db \subseteq Records /\ fresh \subseteq Ids /\ changes \in Nat
    /\ byName \subseteq Records /\ byId \subseteq Records
    /\ up \subseteq Records /\ down \subseteq Records /\ paused \subseteq Records
    /\ longest \in Nat /\ favicon \in Nat
    /\ phase \in Phases /\ answer \subseteq Records
    /\ wire \in Seq(Messages)
    /\ online \in BOOLEAN /\ missed \subseteq Ids

Init ==
    /\ db \in {{}} \cup {{r} : r \in Records}
    /\ fresh = Ids \ {r.id : r \in db}
    /\ changes = 0
    /\ byName = {} /\ byId = {} /\ up = {} /\ down = {} /\ paused = {}
    /\ longest = 8
    /\ favicon = 0
    /\ phase = "fetch"
    /\ answer = {}
    /\ wire = <<>>
    /\ online = TRUE
    /\ missed = {}

-----------------------------------------------------------------------------
(* nanostores: setKey with a record, and with undefined.                   *)

WithoutId(s, r) == {x \in s : x.id # r.id}
SetId(s, r) == WithoutId(s, r) \cup {r}
WithoutName(s, n) == {x \in s : x.name # n}
SetName(s, r) == WithoutName(s, r.name) \cup {r}

MaxNameLength == 22    \* MAX_SYSTEM_NAME_LENGTH
AtMost(a, b) == IF a < b THEN a ELSE b

\* onSystemsChanged, in the state in which the status stores are down'.
Wider(n) == LET w == AtMost(MaxNameLength, Width[n])
            IN  IF w > longest THEN w ELSE longest

\* The status store of status s, when record r has been put into byId.
SyncedWith(s, st, r) == IF r.status = st THEN SetId(s, r) ELSE WithoutId(s, r)

\* The listener of $allSystemsById after record r was put into it.
ListenerSet(r) ==
    /\ up' = SyncedWith(up, "up", r)
    /\ down' = SyncedWith(down, "down", r)
    /\ paused' = SyncedWith(paused, "paused", r)
    /\ longest' = Wider(r.name)
    /\ favicon' = Cardinality(down')

\* add, when info is valid: both maps, then the listener.
Add(r, names) ==
    /\ byName' = SetName(names, r)
    /\ byId' = SetId(byId, r)
    /\ ListenerSet(r)

\* add: a system without CPU info is refused.
add(r) == IF r.cpu THEN Add(r, byName) ELSE UNCHANGED stores

\* update: an old name is taken out of the name store first.
OldNamesKept(r) == byName    \* a bug: the old name stays
OldNamesDropped(r) == {x \in byName : \A o \in byId :
                          (o.id = r.id /\ o.name # r.name) => x.name # o.name}
update(r) == IF r.cpu THEN Add(r, OldNamesDropped(r)) ELSE UNCHANGED stores

\* remove.  The listener runs if there was a record under the id.
FaviconAfter(r) == IF \E x \in byId : x.id = r.id
                   THEN Cardinality(WithoutId(down, r)) ELSE favicon
remove(r) ==
    /\ byName' = WithoutName(byName, r.name)
    /\ byId' = WithoutId(byId, r)
    /\ up' = WithoutId(up, r)
    /\ down' = WithoutId(down, r)
    /\ paused' = WithoutId(paused, r)
    /\ favicon' = FaviconAfter(r)
    /\ UNCHANGED longest

-----------------------------------------------------------------------------
(* App's effect: refresh, then subscribe.                                  *)

\* The hub reads the list for getFullList ...
fetchSystems ==
    /\ phase = "fetch"
    /\ answer' = db
    /\ phase' = "refresh"
    /\ UNCHANGED <<hub, stores, wire, online, missed>>

\* ... or the request fails, which counts as an empty list.
FetchFails ==
    /\ phase = "fetch"
    /\ phase' = "subscribe"
    /\ missed' = {r.id : r \in db}
    /\ UNCHANGED <<hub, stores, answer, wire, online>>

\* refresh: add every record of the answer, one after the other.  Of several
\* with the same name the last one added stays in the name store.
refresh ==
    /\ phase = "refresh"
    /\ LET valid == {r \in answer : r.cpu}
           widths == {AtMost(MaxNameLength, Width[r.name]) : r \in valid} \cup {longest}
       IN  /\ byId' = {x \in byId : \A r \in valid : x.id # r.id} \cup valid
           /\ byName' \in {s \in SUBSET valid :
                             /\ \A a, b \in s : a.name = b.name => a = b
                             /\ {r.name : r \in s} = {r.name : r \in valid}}
           /\ up' = {r \in byId' : r.status = "up"}
           /\ down' = {r \in byId' : r.status = "down"}
           /\ paused' = {r \in byId' : r.status = "paused"}
           /\ longest' \in widths /\ \A v \in widths : v <= longest'
           /\ favicon' = IF valid = {} THEN favicon ELSE Cardinality(down')
    /\ answer' = {}
    /\ phase' = "subscribe"
    /\ UNCHANGED <<hub, wire, online, missed>>

\* The hub knows of the subscription: from now on it sends messages.
subscribe ==
    /\ phase = "subscribe"
    /\ online
    /\ phase' = "live"
    /\ UNCHANGED <<hub, stores, answer, wire, online, missed>>

\* The subscription failed: it is logged and not tried again.
SubscribeFails ==
    /\ phase = "subscribe"
    /\ phase' = "unsubscribed"
    /\ UNCHANGED <<hub, stores, answer, wire, online, missed>>

\* A realtime message: actionFns[action](record).
Deliver ==
    /\ wire # <<>>
    /\ LET m == Head(wire)
       IN  CASE m.action = "create" -> add(m.record)
             [] m.action = "update" -> update(m.record)
             [] m.action = "delete" -> remove(m.record)
    /\ wire' = Tail(wire)
    /\ UNCHANGED <<hub, phase, answer, online, missed>>

\* App is unmounted: unsubscribe.
unsubscribe ==
    /\ phase = "live"
    /\ phase' = "closed"
    /\ wire' = <<>>
    /\ UNCHANGED <<hub, stores, answer, online, missed>>

-----------------------------------------------------------------------------
(* The connection, which the PocketBase client opens again by itself, and  *)
(* the hub.  What changes while nobody listens is not sent later.          *)

Disconnect ==
    /\ online
    /\ online' = FALSE
    /\ wire' = <<>>
    /\ missed' = missed \cup {wire[k].record.id : k \in 1 .. Len(wire)}
    /\ UNCHANGED <<hub, stores, phase, answer>>

Reconnect ==
    /\ ~online
    /\ online' = TRUE
    /\ UNCHANGED <<hub, stores, phase, answer, wire, missed>>

\* The hub has changed record r and tells those who have subscribed.
Announce(action, r) ==
    /\ changes < MaxChanges
    /\ changes' = changes + 1
    /\ IF phase = "live" /\ online
       THEN /\ wire' = Append(wire, [action |-> action, record |-> r])
            /\ missed' = missed \ {r.id}
       ELSE /\ missed' = IF phase = "fetch" THEN missed ELSE missed \cup {r.id}
            /\ UNCHANGED wire
    /\ UNCHANGED <<stores, phase, answer, online>>

\* A system is enrolled.  onRecordCreate makes it pending and gives it the empty
\* system.Info, whose cpu is 0 and is sent, so that add takes it.
HubCreate(i, n) ==
    LET r == [id |-> i, name |-> n, status |-> "pending", cpu |-> TRUE]
    IN  /\ i \in fresh
        /\ fresh' = fresh \ {i}
        /\ db' = db \cup {r}
        /\ Announce("create", r)

\* An update comes in, the status changes, or the user renames it.  Info, once
\* filled, stays: onRecordUpdate sets the empty one, with its cpu, when it is
\* paused.
HubUpdate(r, n, s, c) ==
    LET new == [id |-> r.id, name |-> n, status |-> s, cpu |-> c]
    IN  /\ r.cpu => c
        /\ new # r
        /\ db' = (db \ {r}) \cup {new}
        /\ Announce("update", new)
        /\ UNCHANGED fresh

HubDelete(r) ==
    /\ db' = db \ {r}
    /\ Announce("delete", r)
    /\ UNCHANGED fresh

-----------------------------------------------------------------------------
Mounting == fetchSystems \/ FetchFails \/ refresh \/ subscribe \/ SubscribeFails

Next ==
    \/ Mounting \/ Deliver \/ unsubscribe
    \/ Disconnect \/ Reconnect
    \/ \E i \in Ids, n \in Names : HubCreate(i, n)
    \/ \E r \in db : HubDelete(r)
    \/ \E r \in db, n \in Names, s \in Statuses, c \in BOOLEAN : HubUpdate(r, n, s, c)

Spec == Init /\ [][Next]_vars

-----------------------------------------------------------------------------
(* What the systems table shows (components/systems-table).                *)

\* filteredData: the record list of the status filter.
FilteredData(f) == CASE f = "all" -> byId
                     [] f = "up" -> up
                     [] f = "down" -> down
                     [] OTHER -> paused

(* Properties.                                                             *)

\* "sync system stores on change": the status stores hold exactly the records
\* of their status, the same versions of them, whatever messages came in.  The
\* table's filters and its counts read them.
StatusStoresAgree ==
    \A f \in {"up", "down", "paused"} : FilteredData(f) = {r \in byId : r.status = f}

\* "make sure old name is removed from the name store": a system that is still
\* known is never found under a name it no longer has, nor in an old version.
NamesCurrent == \A r \in byName : \A x \in byId : x.id = r.id => x = r

\* The number on the favicon is the number of systems shown as down.
FaviconCounts == favicon = Cardinality({r \in byId : r.status = "down"})

\* The table's name column is wide enough for every name up to the maximum.
NamesFit == \A r \in byId : AtMost(MaxNameLength, Width[r.name]) <= longest

\* The copies of a system's record agree after every message.
StoresAgree == StatusStoresAgree /\ NamesCurrent /\ FaviconCounts /\ NamesFit

Of(s, i) == {r \in s : r.id = i}
Agrees(i) == Of(byId, i) = {r \in Of(db, i) : r.cpu}

\* "subscribe to new system updates": once every message has arrived, the
\* browser shows what the hub has of every system whose last change it was
\* told of.  A change made between the list and the subscription, or without
\* a connection, stays unseen until the system changes again.
Synced == phase = "live" /\ wire = <<>> => \A i \in Ids \ missed : Agrees(i)

\* Every change that is announced gets to be shown.
ChangeShown == \A i \in Ids :
    (phase = "live" /\ i \notin missed) ~> (Agrees(i) \/ i \in missed \/ phase # "live")
=============================================================================
