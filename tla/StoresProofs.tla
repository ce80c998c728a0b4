---------------------------- MODULE StoresProofs ----------------------------
(***************************************************************************)
(* Proofs about the store of systems, for any systems, names, changes and  *)
(* losses of the connection, and about the store of alerts, for any        *)
(* alerts, messages and copies; then the theorems for the specification    *)
(* that composes them: a behaviour of Stores is one of each store.         *)
(***************************************************************************)
EXTENDS Stores, FiniteSetTheorems, TLAPS

-----------------------------------------------------------------------------
(* The systems.                                                            *)

\* The instance counts like everybody else.
LEMMA SystemCardinality == ASSUME NEW S PROVE Sys!Cardinality(S) = Cardinality(S)
BY DEF Sys!Cardinality, Cardinality

\* The types, but for the favicon's number, which FaviconCounts determines.
SystemTypes ==
    /\ db \subseteq Sys!Records /\ fresh \subseteq Ids /\ changes \in Nat
    /\ byName \subseteq Sys!Records /\ byId \subseteq Sys!Records
    /\ up \subseteq Sys!Records /\ down \subseteq Sys!Records /\ paused \subseteq Sys!Records
    /\ longest \in Nat
    /\ phase \in Sys!Phases /\ answer \subseteq Sys!Records
    /\ wire \in Seq(Sys!Messages)
    /\ online \in BOOLEAN /\ missed \subseteq Ids

\* The steps of Next, for the proofs by cases.
LEMMA SystemNextCases ==
    ASSUME Sys!Next
    PROVE  \/ Sys!fetchSystems \/ Sys!FetchFails \/ Sys!refresh \/ Sys!subscribe \/ Sys!SubscribeFails
           \/ Sys!Deliver \/ Sys!unsubscribe \/ Sys!Disconnect \/ Sys!Reconnect
           \/ \E i \in Ids, n \in Names : Sys!HubCreate(i, n)
           \/ \E r \in db : Sys!HubDelete(r)
           \/ \E r \in db, n \in Names, s \in Sys!Statuses, c \in BOOLEAN : Sys!HubUpdate(r, n, s, c)
BY DEF Sys!Next, Sys!Mounting

\* Names have widths.
LEMMA WiderType ==
    ASSUME Sys!StoreConstants, NEW n \in Names, longest \in Nat
    PROVE  /\ Sys!AtMost(Sys!MaxNameLength, Width[n]) \in Nat
           /\ Sys!Wider(n) \in Nat /\ longest <= Sys!Wider(n) /\ Sys!AtMost(Sys!MaxNameLength, Width[n]) <= Sys!Wider(n)
BY DEF Sys!StoreConstants, Sys!Wider, Sys!AtMost, Sys!MaxNameLength

\* Putting a record into the stores keeps the types.
LEMMA AddTypes ==
    ASSUME Sys!StoreConstants, SystemTypes, NEW r \in Sys!Records, NEW names \in SUBSET Sys!Records, Sys!Add(r, names)
    PROVE  /\ byName' \subseteq Sys!Records /\ byId' \subseteq Sys!Records
           /\ up' \subseteq Sys!Records /\ down' \subseteq Sys!Records /\ paused' \subseteq Sys!Records
           /\ longest' \in Nat
<1>1. r.name \in Names
  BY DEF Sys!Records
<1>2. longest' \in Nat
  BY <1>1, WiderType DEF SystemTypes, Sys!Add, Sys!ListenerSet
<1> QED BY <1>2 DEF SystemTypes, Sys!Add, Sys!ListenerSet, Sys!SyncedWith, Sys!SetName, Sys!SetId, Sys!WithoutName, Sys!WithoutId

\* So does a message.
LEMMA DeliverTypes ==
    ASSUME Sys!StoreConstants, SystemTypes, Sys!Deliver
    PROVE  SystemTypes'
<1> DEFINE m == Head(wire)
<1>1. m \in Sys!Messages /\ wire' \in Seq(Sys!Messages)
  BY DEF Sys!Deliver, SystemTypes
<1>2. m.record \in Sys!Records
  BY <1>1 DEF Sys!Messages
<1>3. Sys!add(m.record) \/ Sys!update(m.record) \/ Sys!remove(m.record)
  BY <1>1 DEF Sys!Deliver, Sys!Messages
<1> HIDE DEF m
<1>4. \/ UNCHANGED Sys!stores
      \/ \E names \in SUBSET Sys!Records : Sys!Add(m.record, names)
      \/ Sys!remove(m.record)
  BY <1>3 DEF Sys!add, Sys!update, Sys!OldNamesDropped, SystemTypes
<1>5. /\ byName' \subseteq Sys!Records /\ byId' \subseteq Sys!Records
      /\ up' \subseteq Sys!Records /\ down' \subseteq Sys!Records /\ paused' \subseteq Sys!Records
      /\ longest' \in Nat
  <2>1. CASE UNCHANGED Sys!stores
    BY <2>1 DEF Sys!stores, SystemTypes
  <2>2. CASE \E names \in SUBSET Sys!Records : Sys!Add(m.record, names)
    BY <1>2, <2>2, AddTypes
  <2>3. CASE Sys!remove(m.record)
    BY <2>3 DEF Sys!remove, Sys!WithoutName, Sys!WithoutId, SystemTypes
  <2> QED BY <1>4, <2>1, <2>2, <2>3
<1> QED BY <1>1, <1>5 DEF Sys!Deliver, Sys!hub, SystemTypes

\* So does what the hub announces.
LEMMA SystemAnnounceTypes ==
    ASSUME SystemTypes, NEW act \in {"create", "update", "delete"}, NEW r \in Sys!Records, Sys!Announce(act, r),
           db' \subseteq Sys!Records, fresh' \subseteq Ids
    PROVE  SystemTypes'
<1>1. [action |-> act, record |-> r] \in Sys!Messages /\ r.id \in Ids
  BY DEF Sys!Messages, Sys!Records
<1>2. wire' \in Seq(Sys!Messages) /\ missed' \subseteq Ids
  BY <1>1 DEF Sys!Announce, SystemTypes
<1> QED BY <1>2 DEF Sys!Announce, Sys!stores, SystemTypes

\* Every step keeps the types.
LEMMA SystemTypesStep == Sys!StoreConstants /\ SystemTypes /\ [Sys!Next]_(Sys!vars) => SystemTypes'
<1> SUFFICES ASSUME Sys!StoreConstants, SystemTypes, [Sys!Next]_(Sys!vars) PROVE SystemTypes'
  OBVIOUS
<1>1. CASE Sys!fetchSystems
  BY <1>1 DEF Sys!fetchSystems, Sys!hub, Sys!stores, Sys!Phases, SystemTypes
<1>2. CASE Sys!FetchFails
  BY <1>2 DEF Sys!FetchFails, Sys!hub, Sys!stores, Sys!Phases, Sys!Records, SystemTypes
<1>3. CASE Sys!refresh
  <2> DEFINE valid == {r \in answer : r.cpu}
             widths == {Sys!AtMost(Sys!MaxNameLength, Width[r.name]) : r \in valid} \cup {longest}
  <2>1. /\ byId' = {x \in byId : \A r \in valid : x.id # r.id} \cup valid
        /\ byName' \subseteq valid
        /\ up' \subseteq byId' /\ down' \subseteq byId' /\ paused' \subseteq byId'
        /\ longest' \in widths
    BY <1>3 DEF Sys!refresh
  <2>2. valid \subseteq Sys!Records
    BY DEF SystemTypes
  <2>3. widths \subseteq Nat
    <3>1. \A r \in valid : r.name \in Names
      BY <2>2 DEF Sys!Records
    <3> QED BY <3>1, WiderType DEF SystemTypes
  <2> HIDE DEF valid, widths
  <2>4. /\ byName' \subseteq Sys!Records /\ byId' \subseteq Sys!Records
        /\ up' \subseteq Sys!Records /\ down' \subseteq Sys!Records /\ paused' \subseteq Sys!Records
        /\ longest' \in Nat
    BY <2>1, <2>2, <2>3 DEF SystemTypes
  <2> QED BY <1>3, <2>4 DEF Sys!refresh, Sys!hub, Sys!Phases, SystemTypes
<1>4. CASE Sys!subscribe
  BY <1>4 DEF Sys!subscribe, Sys!hub, Sys!stores, Sys!Phases, SystemTypes
<1>5. CASE Sys!SubscribeFails
  BY <1>5 DEF Sys!SubscribeFails, Sys!hub, Sys!stores, Sys!Phases, SystemTypes
<1>6. CASE Sys!Deliver
  BY <1>6, DeliverTypes
<1>7. CASE Sys!unsubscribe
  BY <1>7 DEF Sys!unsubscribe, Sys!hub, Sys!stores, Sys!Phases, SystemTypes
<1>8. CASE Sys!Disconnect
  <2>1. \A k \in 1 .. Len(wire) : wire[k] \in Sys!Messages
    BY DEF SystemTypes
  <2>2. \A m \in Sys!Messages : m.record.id \in Ids
    BY DEF Sys!Messages, Sys!Records
  <2>3. missed' \subseteq Ids
    BY <1>8, <2>1, <2>2 DEF Sys!Disconnect, SystemTypes
  <2>4. wire' \in Seq(Sys!Messages)
    BY <1>8 DEF Sys!Disconnect
  <2> QED BY <1>8, <2>3, <2>4 DEF Sys!Disconnect, Sys!hub, Sys!stores, SystemTypes
<1>9. CASE Sys!Reconnect
  BY <1>9 DEF Sys!Reconnect, Sys!hub, Sys!stores, SystemTypes
<1>10. ASSUME NEW i \in Ids, NEW n \in Names, Sys!HubCreate(i, n) PROVE SystemTypes'
  <2> DEFINE r == [id |-> i, name |-> n, status |-> "pending", cpu |-> TRUE]
  <2>1. r \in Sys!Records
    BY DEF Sys!Records, Sys!Statuses
  <2>2. fresh' = fresh \ {i} /\ db' = db \cup {r} /\ Sys!Announce("create", r)
    BY <1>10 DEF Sys!HubCreate
  <2> HIDE DEF r
  <2>3. db' \subseteq Sys!Records /\ fresh' \subseteq Ids
    BY <2>1, <2>2 DEF SystemTypes
  <2> QED BY <2>1, <2>2, <2>3, SystemAnnounceTypes
<1>11. ASSUME NEW r \in db, Sys!HubDelete(r) PROVE SystemTypes'
  <2>1. r \in Sys!Records /\ db' \subseteq Sys!Records /\ fresh' \subseteq Ids /\ Sys!Announce("delete", r)
    BY <1>11 DEF Sys!HubDelete, SystemTypes
  <2> QED BY <2>1, SystemAnnounceTypes
<1>12. ASSUME NEW r \in db, NEW n \in Names, NEW s \in Sys!Statuses, NEW c \in BOOLEAN, Sys!HubUpdate(r, n, s, c)
       PROVE  SystemTypes'
  <2> DEFINE new == [id |-> r.id, name |-> n, status |-> s, cpu |-> c]
  <2>1. new \in Sys!Records
    BY DEF SystemTypes, Sys!Records
  <2>2. fresh' = fresh /\ db' = (db \ {r}) \cup {new} /\ Sys!Announce("update", new)
    BY <1>12 DEF Sys!HubUpdate
  <2> HIDE DEF new
  <2>3. db' \subseteq Sys!Records /\ fresh' \subseteq Ids
    BY <2>1, <2>2 DEF SystemTypes
  <2> QED BY <2>1, <2>2, <2>3, SystemAnnounceTypes
<1>13. CASE UNCHANGED Sys!vars
  BY <1>13 DEF Sys!vars, Sys!hub, Sys!stores, Sys!net, SystemTypes
<1> QED BY <1>1, <1>2, <1>3, <1>4, <1>5, <1>6, <1>7, <1>8, <1>9, <1>10, <1>11, <1>12, <1>13, SystemNextCases

-----------------------------------------------------------------------------
(* Identity.  An id is used once: a deleted system never comes back, and   *)
(* nothing is said of it after its "delete".                               *)

OneOfId(s) == \A x, y \in s : x.id = y.id => x = y

\* There was a system i, and there is none any more.
Gone(i, d, f) == i \notin f /\ \A r \in d : r.id # i

\* Nothing on the wire w, from message k on, is about i.
SystemSilent(w, k, i) == \A j \in 1 .. Len(w) : j >= k => w[j].record.id # i

\* Nothing on the wire w, before message k, is about i.
Before(w, k, i) == \A j \in 1 .. Len(w) : j < k => w[j].record.id # i

\* A "create" is the first word about a system, a "delete" the last one.
Proper(w, d, f) == \A k \in 1 .. Len(w) :
    /\ w[k].action = "create" => Before(w, k, w[k].record.id)
    /\ w[k].action = "delete" => /\ Gone(w[k].record.id, d, f)
                                /\ SystemSilent(w, k + 1, w[k].record.id)

\* The records s know nothing of a system whose "create" is on the wire w.
Unknown(w, s) == \A k \in 1 .. Len(w) :
    w[k].action = "create" => \A x \in s : x.id # w[k].record.id

\* Nobody has heard of a system that does not exist yet.
Unheard == \A i \in fresh : /\ \A x \in db \cup answer \cup byId : x.id # i
                            /\ SystemSilent(wire, 1, i)

HubInv ==
    /\ OneOfId(db) /\ OneOfId(answer)
    /\ Unheard
    /\ Proper(wire, db, fresh)
    /\ Unknown(wire, byId)
    /\ phase \in {"fetch", "refresh", "subscribe"} => wire = <<>>

\* A name that is left of a system the id store has not: the system is gone
\* and no message is going to bring it back.
LeftOver == \A x \in byName :
    (\A y \in byId : y.id # x.id) => Gone(x.id, db, fresh) /\ SystemSilent(wire, 1, x.id)

\* The rest of a wire.
LEMMA TailFacts ==
    ASSUME NEW w \in Seq(Sys!Messages), w # <<>>
    PROVE  /\ Len(w) \in Nat /\ 1 \in 1 .. Len(w) /\ Head(w) = w[1]
           /\ Len(Tail(w)) = Len(w) - 1
           /\ \A k \in 1 .. Len(Tail(w)) : k + 1 \in 1 .. Len(w) /\ Tail(w)[k] = w[k + 1]
OBVIOUS

\* A longer wire.
LEMMA AppendFacts ==
    ASSUME NEW w \in Seq(Sys!Messages), NEW m \in Sys!Messages, NEW v, v = Append(w, m)
    PROVE  /\ Len(w) \in Nat /\ Len(v) = Len(w) + 1 /\ v[Len(w) + 1] = m
           /\ \A k \in 1 .. Len(w) : v[k] = w[k]
           /\ \A k \in 1 .. Len(v) : k \in 1 .. Len(w) \/ k = Len(w) + 1
OBVIOUS

LEMMA TailSilent ==
    ASSUME NEW w \in Seq(Sys!Messages), w # <<>>, NEW i, SystemSilent(w, 1, i) \/ SystemSilent(w, 2, i)
    PROVE  SystemSilent(Tail(w), 1, i)
<1>1. \A k \in 1 .. Len(w) : k >= 2 => w[k].record.id # i
  BY DEF SystemSilent
<1>2. \A k \in 1 .. Len(Tail(w)) : Tail(w)[k].record.id # i
  BY <1>1, TailFacts
<1> QED BY <1>2 DEF SystemSilent

LEMMA TailProper ==
    ASSUME NEW w \in Seq(Sys!Messages), w # <<>>, NEW d, NEW f, Proper(w, d, f)
    PROVE  Proper(Tail(w), d, f)
<1> SUFFICES ASSUME NEW k \in 1 .. Len(Tail(w))
             PROVE  /\ Tail(w)[k].action = "create" => Before(Tail(w), k, Tail(w)[k].record.id)
                    /\ Tail(w)[k].action = "delete" =>
                          /\ Gone(Tail(w)[k].record.id, d, f)
                          /\ SystemSilent(Tail(w), k + 1, Tail(w)[k].record.id)
  BY DEF Proper
<1>1. k + 1 \in 1 .. Len(w) /\ Tail(w)[k] = w[k + 1]
  BY TailFacts
<1> DEFINE m == w[k + 1]
<1>2. /\ m.action = "create" => Before(w, k + 1, m.record.id)
      /\ m.action = "delete" => Gone(m.record.id, d, f) /\ SystemSilent(w, (k + 1) + 1, m.record.id)
  BY <1>1 DEF Proper
<1>3. ASSUME SystemSilent(w, (k + 1) + 1, m.record.id) PROVE SystemSilent(Tail(w), k + 1, m.record.id)
  <2>1. ASSUME NEW j \in 1 .. Len(Tail(w)), j >= k + 1 PROVE Tail(w)[j].record.id # m.record.id
    <3>1. j + 1 \in 1 .. Len(w) /\ Tail(w)[j] = w[j + 1] /\ j + 1 >= (k + 1) + 1
      BY <2>1, TailFacts
    <3> QED BY <1>3, <3>1 DEF SystemSilent
  <2> QED BY <2>1 DEF SystemSilent
<1>4. ASSUME Before(w, k + 1, m.record.id) PROVE Before(Tail(w), k, m.record.id)
  <2>1. ASSUME NEW j \in 1 .. Len(Tail(w)), j < k PROVE Tail(w)[j].record.id # m.record.id
    <3>1. j + 1 \in 1 .. Len(w) /\ Tail(w)[j] = w[j + 1] /\ j + 1 < k + 1
      BY <2>1, TailFacts
    <3> QED BY <1>4, <3>1 DEF Before
  <2> QED BY <2>1 DEF Before
<1> QED BY <1>1, <1>2, <1>3, <1>4

LEMMA TailUnknown ==
    ASSUME NEW w \in Seq(Sys!Messages), w # <<>>, NEW s, Unknown(w, s)
    PROVE  Unknown(Tail(w), s)
<1> SUFFICES ASSUME NEW k \in 1 .. Len(Tail(w)), Tail(w)[k].action = "create"
             PROVE  \A x \in s : x.id # Tail(w)[k].record.id
  BY DEF Unknown
<1>1. k + 1 \in 1 .. Len(w) /\ Tail(w)[k] = w[k + 1]
  BY TailFacts
<1> QED BY <1>1 DEF Unknown

\* What follows a message about i is not the "create" of i.
LEMMA HeadBefore ==
    ASSUME NEW w \in Seq(Sys!Messages), w # <<>>, NEW d, NEW f, Proper(w, d, f),
           NEW k \in 1 .. Len(Tail(w)), Tail(w)[k].action = "create"
    PROVE  Tail(w)[k].record.id # Head(w).record.id
<1>1. /\ k + 1 \in 1 .. Len(w) /\ Tail(w)[k] = w[k + 1] /\ 1 \in 1 .. Len(w) /\ Head(w) = w[1]
      /\ 1 < k + 1
  BY TailFacts
<1>2. Before(w, k + 1, w[k + 1].record.id)
  BY <1>1 DEF Proper
<1> QED BY <1>1, <1>2 DEF Before

\* A message about j says nothing of i.
LEMMA AppendSilent ==
    ASSUME NEW w \in Seq(Sys!Messages), NEW m \in Sys!Messages, NEW v, v = Append(w, m),
           NEW k, NEW i, SystemSilent(w, k, i), m.record.id # i
    PROVE  SystemSilent(v, k, i)
<1>1. ASSUME NEW j \in 1 .. Len(v), j >= k PROVE v[j].record.id # i
  BY <1>1, AppendFacts DEF SystemSilent
<1> QED BY <1>1 DEF SystemSilent

\* The hub announces message m; what was gone stays gone and m is not about it.
LEMMA AppendProper ==
    ASSUME NEW w \in Seq(Sys!Messages), NEW m \in Sys!Messages, NEW v, v = Append(w, m),
           NEW d, NEW f, NEW e, NEW g, Proper(w, d, f),
           \A i : Gone(i, d, f) => Gone(i, e, g) /\ m.record.id # i,
           m.action = "create" => SystemSilent(w, 1, m.record.id),
           m.action = "delete" => Gone(m.record.id, e, g)
    PROVE  Proper(v, e, g)
<1> SUFFICES ASSUME NEW k \in 1 .. Len(v)
             PROVE  /\ v[k].action = "create" => Before(v, k, v[k].record.id)
                    /\ v[k].action = "delete" => /\ Gone(v[k].record.id, e, g)
                                                /\ SystemSilent(v, k + 1, v[k].record.id)
  BY DEF Proper
<1>1. CASE k \in 1 .. Len(w)
  <2>1. v[k] = w[k]
    BY <1>1, AppendFacts
  <2>2. /\ w[k].action = "create" => Before(w, k, w[k].record.id)
        /\ w[k].action = "delete" => Gone(w[k].record.id, d, f) /\ SystemSilent(w, k + 1, w[k].record.id)
    BY <1>1 DEF Proper
  <2>3. w[k].action = "delete" => SystemSilent(v, k + 1, w[k].record.id)
    BY <2>2, AppendSilent
  <2>4. ASSUME Before(w, k, w[k].record.id), NEW j \in 1 .. Len(v), j < k PROVE v[j].record.id # w[k].record.id
    <3>1. j \in 1 .. Len(w) /\ v[j] = w[j]
      BY <1>1, <2>4, AppendFacts
    <3> QED BY <2>4, <3>1 DEF Before
  <2>5. w[k].action = "create" => Before(v, k, w[k].record.id)
    BY <2>2, <2>4 DEF Before
  <2> QED BY <2>1, <2>2, <2>3, <2>5
<1>2. CASE k = Len(w) + 1
  <2>1. v[k] = m /\ Len(w) \in Nat /\ Len(v) = k
    BY <1>2, AppendFacts
  <2>2. SystemSilent(v, k + 1, m.record.id)
    BY <1>2, <2>1 DEF SystemSilent
  <2>3. ASSUME SystemSilent(w, 1, m.record.id), NEW j \in 1 .. Len(v), j < k PROVE v[j].record.id # m.record.id
    <3>1. j \in 1 .. Len(w) /\ v[j] = w[j] /\ j >= 1
      BY <1>2, <2>1, <2>3, AppendFacts
    <3> QED BY <2>3, <3>1 DEF SystemSilent
  <2>4. m.action = "create" => Before(v, k, m.record.id)
    BY <2>3 DEF Before
  <2> QED BY <2>1, <2>2, <2>4
<1> QED BY <1>1, <1>2, AppendFacts

LEMMA AppendUnknown ==
    ASSUME NEW w \in Seq(Sys!Messages), NEW m \in Sys!Messages, NEW v, v = Append(w, m), NEW s, Unknown(w, s),
           m.action = "create" => \A x \in s : x.id # m.record.id
    PROVE  Unknown(v, s)
BY AppendFacts DEF Unknown

-----------------------------------------------------------------------------
(* The hub's steps: what is gone stays gone.                               *)

\* A change announced about a system that is not gone keeps the wire proper
\* and leaves the names of gone systems without a message.
LEMMA SystemAnnounceKeeps ==
    ASSUME SystemTypes, HubInv, LeftOver,
           NEW act \in {"create", "update", "delete"}, NEW r \in Sys!Records, Sys!Announce(act, r),
           \A i : Gone(i, db, fresh) => Gone(i, db', fresh') /\ r.id # i,
           act = "create" => r.id \in fresh,
           act = "delete" => Gone(r.id, db', fresh'),
           \A i \in fresh' : i \in fresh /\ r.id # i /\ \A x \in db' : x.id # i,
           OneOfId(db')
    PROVE  HubInv' /\ LeftOver'
<1> DEFINE m == [action |-> act, record |-> r]
<1>1. m \in Sys!Messages /\ m.action = act /\ m.record = r
  BY DEF Sys!Messages
<1>2. wire' = wire \/ wire' = Append(wire, m)
  BY DEF Sys!Announce
<1> HIDE DEF m
<1>3. wire \in Seq(Sys!Messages)
  BY DEF SystemTypes
<1>4. Proper(wire', db', fresh')
  <2>1. CASE wire' = wire
    BY <2>1 DEF Proper, HubInv
  <2>2. CASE wire' = Append(wire, m)
    BY <1>1, <1>3, <2>2, AppendProper DEF HubInv, Unheard
  <2> QED BY <1>2, <2>1, <2>2
<1>5. \A i : Gone(i, db, fresh) /\ SystemSilent(wire, 1, i) => SystemSilent(wire', 1, i)
  <2>1. CASE wire' = wire
    BY <2>1
  <2>2. CASE wire' = Append(wire, m)
    BY <1>1, <1>3, <2>2, AppendSilent
  <2> QED BY <1>2, <2>1, <2>2
<1>6. byName' = byName /\ byId' = byId
  BY DEF Sys!Announce, Sys!stores
<1>7. ASSUME NEW x \in byName, \A y \in byId : y.id # x.id
      PROVE  Gone(x.id, db', fresh') /\ SystemSilent(wire', 1, x.id)
  BY <1>5, <1>7 DEF LeftOver
<1>8. Unknown(wire', byId)
  <2>1. CASE wire' = wire
    BY <2>1 DEF HubInv
  <2>2. CASE wire' = Append(wire, m)
    BY <1>1, <1>3, <2>2, AppendUnknown DEF HubInv, Unheard
  <2> QED BY <1>2, <2>1, <2>2
<1>9. \A i \in fresh' : SystemSilent(wire', 1, i)
  <2>1. CASE wire' = wire
    BY <2>1 DEF HubInv, Unheard
  <2>2. CASE wire' = Append(wire, m)
    BY <1>1, <1>3, <2>2, AppendSilent DEF HubInv, Unheard
  <2> QED BY <1>2, <2>1, <2>2
<1>10. answer' = answer /\ phase' = phase /\ (phase # "live" => wire' = wire)
  BY DEF Sys!Announce
<1>11. Unheard'
  BY <1>6, <1>9, <1>10 DEF HubInv, Unheard
<1>12. HubInv'
  BY <1>4, <1>6, <1>8, <1>10, <1>11 DEF HubInv
<1> QED BY <1>6, <1>7, <1>12 DEF LeftOver

LEMMA CreateKeeps ==
    ASSUME SystemTypes, HubInv, LeftOver, NEW i \in Ids, NEW n \in Names, Sys!HubCreate(i, n)
    PROVE  HubInv' /\ LeftOver'
<1> DEFINE r == [id |-> i, name |-> n, status |-> "pending", cpu |-> TRUE]
<1>1. r \in Sys!Records /\ r.id = i
  BY DEF Sys!Records, Sys!Statuses
<1>2. i \in fresh /\ fresh' = fresh \ {i} /\ db' = db \cup {r} /\ Sys!Announce("create", r)
  BY DEF Sys!HubCreate
<1> HIDE DEF r
<1>3. \A j : Gone(j, db, fresh) => Gone(j, db', fresh') /\ r.id # j
  BY <1>1, <1>2 DEF Gone
<1>4. OneOfId(db') /\ \A j \in fresh' : j \in fresh /\ r.id # j /\ \A x \in db' : x.id # j
  BY <1>1, <1>2 DEF HubInv, Unheard, OneOfId
<1> QED BY <1>1, <1>2, <1>3, <1>4, SystemAnnounceKeeps

LEMMA DeleteKeeps ==
    ASSUME SystemTypes, HubInv, LeftOver, NEW r \in db, Sys!HubDelete(r)
    PROVE  HubInv' /\ LeftOver'
<1>1. r \in Sys!Records
  BY DEF SystemTypes
<1>2. fresh' = fresh /\ db' = db \ {r} /\ Sys!Announce("delete", r)
  BY DEF Sys!HubDelete
<1>3. \A j : Gone(j, db, fresh) => Gone(j, db', fresh') /\ r.id # j
  BY <1>2 DEF Gone
<1>4. Gone(r.id, db', fresh')
  BY <1>2 DEF Gone, HubInv, Unheard, OneOfId
<1>5. OneOfId(db') /\ \A j \in fresh' : j \in fresh /\ r.id # j /\ \A x \in db' : x.id # j
  BY <1>2 DEF HubInv, Unheard, OneOfId
<1> QED BY <1>1, <1>2, <1>3, <1>4, <1>5, SystemAnnounceKeeps

LEMMA UpdateKeeps ==
    ASSUME SystemTypes, HubInv, LeftOver,
           NEW r \in db, NEW n \in Names, NEW s \in Sys!Statuses, NEW c \in BOOLEAN, Sys!HubUpdate(r, n, s, c)
    PROVE  HubInv' /\ LeftOver'
<1> DEFINE new == [id |-> r.id, name |-> n, status |-> s, cpu |-> c]
<1>1. new \in Sys!Records /\ new.id = r.id
  BY DEF SystemTypes, Sys!Records
<1>2. fresh' = fresh /\ db' = (db \ {r}) \cup {new} /\ Sys!Announce("update", new)
  BY DEF Sys!HubUpdate
<1> HIDE DEF new
<1>3. \A j : Gone(j, db, fresh) => Gone(j, db', fresh') /\ new.id # j
  BY <1>1, <1>2 DEF Gone
<1>4. OneOfId(db') /\ \A j \in fresh' : j \in fresh /\ new.id # j /\ \A x \in db' : x.id # j
  BY <1>1, <1>2 DEF HubInv, Unheard, OneOfId
<1> QED BY <1>1, <1>2, <1>3, <1>4, SystemAnnounceKeeps

-----------------------------------------------------------------------------
(* The browser's steps.                                                    *)

\* What the stores are after a record was put into them.
LEMMA AddKeeps ==
    ASSUME Sys!StoreConstants, SystemTypes, Sys!StatusStoresAgree, Sys!NamesFit,
           NEW r \in Sys!Records, NEW names, Sys!Add(r, names)
    PROVE  Sys!StatusStoresAgree' /\ Sys!FaviconCounts' /\ Sys!NamesFit'
<1>1. /\ byId' = Sys!SetId(byId, r)
      /\ up' = Sys!SyncedWith(up, "up", r) /\ down' = Sys!SyncedWith(down, "down", r)
      /\ paused' = Sys!SyncedWith(paused, "paused", r)
      /\ longest' = Sys!Wider(r.name) /\ favicon' = Cardinality(down')
  BY SystemCardinality DEF Sys!Add, Sys!ListenerSet
<1>2. /\ up = {x \in byId : x.status = "up"} /\ down = {x \in byId : x.status = "down"}
      /\ paused = {x \in byId : x.status = "paused"}
  BY DEF Sys!StatusStoresAgree, Sys!FilteredData
<1>3. /\ up' = {x \in byId' : x.status = "up"} /\ down' = {x \in byId' : x.status = "down"}
      /\ paused' = {x \in byId' : x.status = "paused"}
  BY <1>1, <1>2 DEF Sys!SyncedWith, Sys!SetId, Sys!WithoutId
<1>4. Sys!NamesFit'
  <2>1. \A x \in Sys!Records : x.name \in Names
    BY DEF Sys!Records
  <2>2. \A x \in byId : Sys!AtMost(Sys!MaxNameLength, Width[x.name]) \in Nat
    BY <2>1, WiderType DEF SystemTypes
  <2>3. /\ longest \in Nat /\ longest' \in Nat /\ longest <= longest'
        /\ Sys!AtMost(Sys!MaxNameLength, Width[r.name]) <= longest'
    BY <1>1, <2>1, WiderType DEF SystemTypes
  <2>4. \A x \in byId' : x \in byId \/ x = r
    BY <1>1 DEF Sys!SetId, Sys!WithoutId
  <2>5. ASSUME NEW x \in byId' PROVE Sys!AtMost(Sys!MaxNameLength, Width[x.name]) <= longest'
    <3>1. CASE x = r
      BY <2>3, <3>1
    <3>2. CASE x \in byId
      BY <2>2, <2>3, <3>2 DEF Sys!NamesFit
    <3> QED BY <2>4, <3>1, <3>2
  <2> QED BY <2>5 DEF Sys!NamesFit
<1>5. Sys!StatusStoresAgree'
  BY <1>3 DEF Sys!StatusStoresAgree, Sys!FilteredData
<1>6. Sys!FaviconCounts'
  BY <1>1, <1>3, SystemCardinality DEF Sys!FaviconCounts
<1> QED BY <1>4, <1>5, <1>6

\* ... after one was taken out of them.
LEMMA RemoveKeeps ==
    ASSUME Sys!StatusStoresAgree, Sys!FaviconCounts, Sys!NamesFit, NEW r, Sys!remove(r)
    PROVE  Sys!StatusStoresAgree' /\ Sys!FaviconCounts' /\ Sys!NamesFit'
<1>1. /\ byId' = Sys!WithoutId(byId, r)
      /\ up' = Sys!WithoutId(up, r) /\ down' = Sys!WithoutId(down, r)
      /\ paused' = Sys!WithoutId(paused, r)
      /\ longest' = longest /\ favicon' = Sys!FaviconAfter(r)
  BY DEF Sys!remove
<1>2. /\ up = {x \in byId : x.status = "up"} /\ down = {x \in byId : x.status = "down"}
      /\ paused = {x \in byId : x.status = "paused"}
  BY DEF Sys!StatusStoresAgree, Sys!FilteredData
<1>3. /\ up' = {x \in byId' : x.status = "up"} /\ down' = {x \in byId' : x.status = "down"}
      /\ paused' = {x \in byId' : x.status = "paused"}
  BY <1>1, <1>2 DEF Sys!WithoutId
<1>4. Sys!NamesFit'
  BY <1>1 DEF Sys!NamesFit, Sys!WithoutId
<1>5. favicon' = Cardinality(down')
  <2>1. CASE \E x \in byId : x.id = r.id
    BY <1>1, <2>1, SystemCardinality DEF Sys!FaviconAfter
  <2>2. CASE ~\E x \in byId : x.id = r.id
    <3>1. down' = down
      BY <1>1, <1>2, <2>2 DEF Sys!WithoutId
    <3> QED BY <1>1, <1>2, <2>2, <3>1, SystemCardinality DEF Sys!FaviconAfter, Sys!FaviconCounts
  <2> QED BY <2>1, <2>2
<1>6. Sys!StatusStoresAgree'
  BY <1>3 DEF Sys!StatusStoresAgree, Sys!FilteredData
<1>7. Sys!FaviconCounts'
  BY <1>3, <1>5, SystemCardinality DEF Sys!FaviconCounts
<1> QED BY <1>4, <1>6, <1>7

SystemInv == SystemTypes /\ HubInv /\ LeftOver /\ Sys!StoresAgree

\* A message.  An update of a system the id store has not cannot find its name
\* in the name store: such a name is a gone system's.  A system that is created
\* is not in the id store, so that add has no old name to drop.
LEMMA DeliverKeeps ==
    ASSUME Sys!StoreConstants, SystemInv, Sys!Deliver
    PROVE  HubInv' /\ LeftOver' /\ Sys!StoresAgree'
<1> DEFINE m == Head(wire)
           r == m.record
<1>1. wire \in Seq(Sys!Messages) /\ wire # <<>> /\ wire' = Tail(wire) /\ UNCHANGED <<db, fresh, answer, phase>>
  BY DEF Sys!Deliver, Sys!hub, SystemInv, SystemTypes
<1>2. m \in Sys!Messages /\ r \in Sys!Records /\ m = wire[1] /\ 1 \in 1 .. Len(wire)
  <2>1. m \in Sys!Messages
    BY <1>1
  <2>2. r \in Sys!Records
    BY <2>1 DEF Sys!Messages
  <2>3. m = wire[1] /\ 1 \in 1 .. Len(wire)
    BY <1>1, TailFacts
  <2> QED BY <2>1, <2>2, <2>3
<1>3. /\ m.action = "create" => Sys!add(r)
      /\ m.action = "update" => Sys!update(r)
      /\ m.action = "delete" => Sys!remove(r)
  BY DEF Sys!Deliver
<1>4. m.action \in {"create", "update", "delete"}
  BY <1>2 DEF Sys!Messages
<1>5. Proper(wire, db, fresh)
  BY DEF SystemInv, HubInv
<1>6. /\ m.action = "create" => \A x \in byId : x.id # r.id
      /\ m.action = "delete" => Gone(r.id, db, fresh) /\ SystemSilent(wire, 2, r.id)
  <2>1. m.action = "delete" => SystemSilent(wire, 1 + 1, r.id)
    BY <1>2, <1>5 DEF Proper
  <2>2. m.action = "create" => \A x \in byId : x.id # r.id
    BY <1>2 DEF SystemInv, HubInv, Unknown
  <2> QED BY <1>2, <1>5, <2>1, <2>2 DEF Proper
<1>7. ASSUME NEW k \in 1 .. Len(wire'), wire'[k].action = "create"
       PROVE  wire'[k].record.id # r.id /\ \A x \in byId : x.id # wire'[k].record.id
  <2>1. wire'[k].record.id # r.id
    BY <1>1, <1>5, <1>7, HeadBefore
  <2>2. Unknown(wire', byId)
    BY <1>1, TailUnknown DEF SystemInv, HubInv
  <2> QED BY <1>7, <2>1, <2>2 DEF Unknown
<1>8. r.id \notin fresh
  BY <1>2 DEF SystemInv, HubInv, Unheard, SystemSilent
<1> HIDE DEF m
<1>9. \A x \in byId' : x.id = r.id \/ x \in byId
  BY <1>3, <1>4 DEF Sys!add, Sys!update, Sys!remove, Sys!Add, Sys!SetId, Sys!WithoutId, Sys!stores
<1>10. HubInv'
  <2>1. Proper(wire', db, fresh)
    BY <1>1, <1>5, TailProper
  <2>2. Unknown(wire', byId')
    BY <1>7, <1>9 DEF Unknown
  <2>3. \A i : SystemSilent(wire, 1, i) => SystemSilent(wire', 1, i)
    BY <1>1, TailSilent
  <2>4. Unheard'
    BY <1>1, <1>8, <1>9, <2>3 DEF SystemInv, HubInv, Unheard
  <2>5. phase \notin {"fetch", "refresh", "subscribe"}
    BY <1>1 DEF SystemInv, HubInv
  <2> QED BY <1>1, <2>1, <2>2, <2>4, <2>5 DEF SystemInv, HubInv
<1>11. \A i : SystemSilent(wire, 1, i) => SystemSilent(wire', 1, i)
  BY <1>1, TailSilent
<1>12. CASE UNCHANGED Sys!stores
  <2>1. ASSUME NEW x \in byName, \A y \in byId : y.id # x.id
        PROVE  Gone(x.id, db, fresh) /\ SystemSilent(wire', 1, x.id)
    BY <1>11, <2>1 DEF SystemInv, LeftOver
  <2>2. LeftOver'
    BY <1>1, <1>12, <2>1 DEF LeftOver, Sys!stores
  <2> QED BY <1>10, <1>12, <2>2 DEF Sys!stores, SystemInv, Sys!StoresAgree, Sys!StatusStoresAgree, Sys!FilteredData,
                                Sys!NamesCurrent, Sys!FaviconCounts, Sys!NamesFit
<1>13. CASE Sys!Add(r, Sys!OldNamesDropped(r))
  <2>1. Sys!StatusStoresAgree' /\ Sys!FaviconCounts' /\ Sys!NamesFit'
    BY <1>2, <1>13, AddKeeps DEF SystemInv, Sys!StoresAgree
  <2>2. byName' = Sys!SetName(Sys!OldNamesDropped(r), r) /\ byId' = Sys!SetId(byId, r)
    BY <1>13 DEF Sys!Add
  <2>3. ~SystemSilent(wire, 1, r.id)
    BY <1>2 DEF SystemSilent
  <2>4. \A x \in byName' : x = r \/ (x \in Sys!OldNamesDropped(r) /\ x.name # r.name)
    BY <2>2 DEF Sys!SetName, Sys!WithoutName
  <2>5. \A x \in byId' : x = r \/ (x \in byId /\ x.id # r.id)
    BY <2>2 DEF Sys!SetId, Sys!WithoutId
  <2>6. ASSUME NEW x \in Sys!OldNamesDropped(r), x.name # r.name PROVE x \in byName /\ x.id # r.id
    <3>1. x \in byName /\ \A o \in byId : (o.id = r.id /\ o.name # r.name) => x.name # o.name
      BY DEF Sys!OldNamesDropped
    <3>2. ASSUME x.id = r.id PROVE FALSE
      <4>1. PICK o \in byId : o.id = x.id
        BY <2>3, <3>1, <3>2 DEF SystemInv, LeftOver
      <4>2. o = x
        BY <3>1, <4>1 DEF SystemInv, Sys!StoresAgree, Sys!NamesCurrent
      <4> QED BY <2>6, <3>1, <3>2, <4>1, <4>2
    <3> QED BY <3>1, <3>2
  <2>7. Sys!NamesCurrent'
    BY <2>4, <2>5, <2>6 DEF SystemInv, Sys!StoresAgree, Sys!NamesCurrent
  <2>8. \A y \in byId : y.id = r.id \/ y \in byId'
    BY <2>2 DEF Sys!SetId, Sys!WithoutId
  <2>9. r \in byId'
    BY <2>2 DEF Sys!SetId
  <2>10. ASSUME NEW x \in byName', \A y \in byId' : y.id # x.id
         PROVE  Gone(x.id, db, fresh) /\ SystemSilent(wire', 1, x.id)
    <3>1. x # r /\ x \in byName /\ x.id # r.id
      BY <2>4, <2>6, <2>9, <2>10
    <3>2. \A y \in byId : y.id # x.id
      BY <2>8, <2>10, <3>1
    <3> QED BY <1>11, <3>1, <3>2 DEF SystemInv, LeftOver
  <2>11. LeftOver'
    BY <1>1, <2>10 DEF LeftOver
  <2> QED BY <1>10, <2>1, <2>7, <2>11 DEF Sys!StoresAgree
<1>14. CASE m.action = "delete"
  <2>1. Sys!remove(r)
    BY <1>3, <1>14
  <2>2. Sys!StatusStoresAgree' /\ Sys!FaviconCounts' /\ Sys!NamesFit'
    BY <2>1, RemoveKeeps DEF SystemInv, Sys!StoresAgree
  <2>3. byName' \subseteq byName /\ byId' \subseteq byId /\ \A y \in byId : y.id = r.id \/ y \in byId'
    BY <2>1 DEF Sys!remove, Sys!WithoutName, Sys!WithoutId
  <2>4. Sys!NamesCurrent'
    BY <2>3 DEF SystemInv, Sys!StoresAgree, Sys!NamesCurrent
  <2>5. SystemSilent(wire', 1, r.id)
    BY <1>1, <1>6, <1>14, TailSilent
  <2>6. ASSUME NEW x \in byName', \A y \in byId' : y.id # x.id
        PROVE  Gone(x.id, db, fresh) /\ SystemSilent(wire', 1, x.id)
    <3>1. CASE x.id = r.id
      BY <1>6, <1>14, <2>5, <3>1
    <3>2. CASE x.id # r.id
      <4>1. x \in byName /\ \A y \in byId : y.id # x.id
        BY <2>3, <2>6, <3>2
      <4> QED BY <1>11, <4>1 DEF SystemInv, LeftOver
    <3> QED BY <3>1, <3>2
  <2>7. LeftOver'
    BY <1>1, <2>6 DEF LeftOver
  <2> QED BY <1>10, <2>2, <2>4, <2>7 DEF Sys!StoresAgree
<1>15. m.action = "create" => byName = Sys!OldNamesDropped(r)
  BY <1>6 DEF Sys!OldNamesDropped
<1>16. m.action = "create" => Sys!Add(r, Sys!OldNamesDropped(r)) \/ UNCHANGED Sys!stores
  BY <1>3, <1>15 DEF Sys!add
<1> QED BY <1>3, <1>4, <1>12, <1>13, <1>14, <1>16 DEF Sys!update

\* The list.  Afterwards the names are those of records of the id store.
LEMMA RefreshKeeps ==
    ASSUME Sys!StoreConstants, SystemInv, Sys!refresh
    PROVE  HubInv' /\ LeftOver' /\ Sys!StoresAgree'
<1> DEFINE valid == {r \in answer : r.cpu}
           Fit(r) == Sys!AtMost(Sys!MaxNameLength, Width[r.name])
           widths == {Fit(r) : r \in valid} \cup {longest}
<1>1. /\ byId' = {x \in byId : \A r \in valid : x.id # r.id} \cup valid
      /\ byName' \subseteq valid
      /\ up' = {r \in byId' : r.status = "up"} /\ down' = {r \in byId' : r.status = "down"}
      /\ paused' = {r \in byId' : r.status = "paused"}
      /\ longest' \in widths /\ \A v \in widths : v <= longest'
      /\ favicon' = IF valid = {} THEN favicon ELSE Cardinality(down')
      /\ answer' = {} /\ UNCHANGED <<db, fresh, wire>>
      /\ wire = <<>>
  BY SystemCardinality DEF Sys!refresh, Sys!hub, SystemInv, HubInv
<1>2. valid \subseteq Sys!Records /\ OneOfId(valid)
  BY DEF SystemInv, HubInv, SystemTypes, OneOfId
<1>3. \A r \in Sys!Records : r.name \in Names
  BY DEF Sys!Records
<1>4. \A r \in Sys!Records : Fit(r) \in Nat
  BY <1>3, WiderType DEF SystemInv, SystemTypes
<1>5. /\ longest \in Nat /\ longest' \in Nat /\ longest <= longest'
      /\ \A r \in valid : Fit(r) <= longest'
  BY <1>1, <1>2, <1>4 DEF SystemInv, SystemTypes
<1>6. \A r \in byId : Fit(r) <= longest /\ Fit(r) \in Nat
  BY <1>4 DEF SystemInv, SystemTypes, Sys!StoresAgree, Sys!NamesFit
<1>7. valid = {} => byId' = byId
  BY <1>1
<1>8. valid \subseteq answer
  OBVIOUS
<1> HIDE DEF valid, Fit, widths
<1>9. Unknown(wire', byId')
  BY <1>1 DEF Unknown
<1>10. Unheard'
  BY <1>1, <1>8 DEF SystemInv, HubInv, Unheard
<1>11. HubInv'
  BY <1>1, <1>9, <1>10 DEF SystemInv, HubInv, OneOfId
<1>12. Sys!StatusStoresAgree'
  BY <1>1 DEF Sys!StatusStoresAgree, Sys!FilteredData
<1>13. Sys!NamesCurrent'
  BY <1>1, <1>2 DEF Sys!NamesCurrent, OneOfId
<1>14. LeftOver'
  BY <1>1 DEF LeftOver
<1>15. Sys!FaviconCounts'
  BY <1>1, <1>7, SystemCardinality DEF Sys!FaviconCounts, SystemInv, Sys!StoresAgree
<1>16. \A r \in byId' : Fit(r) <= longest'
  <2>1. \A r \in byId' : r \in byId \/ r \in valid
    BY <1>1
  <2> QED BY <1>5, <1>6, <2>1
<1>17. Sys!NamesFit'
  BY <1>16 DEF Sys!NamesFit, Fit
<1> QED BY <1>11, <1>12, <1>13, <1>14, <1>15, <1>17 DEF Sys!StoresAgree

\* A step that leaves the stores and the hub's collection alone, and takes
\* nothing but whole wires away.
LEMMA OtherKeeps ==
    ASSUME SystemInv, UNCHANGED <<db, fresh, Sys!stores>>, answer' \in {answer, db}, wire' \in {wire, <<>>},
           phase' \in {"fetch", "refresh", "subscribe"} => wire' = <<>>
    PROVE  HubInv' /\ LeftOver' /\ Sys!StoresAgree'
<1>1. \A d, f : Proper(<<>>, d, f)
  BY DEF Proper
<1>2. \A i : SystemSilent(<<>>, 1, i)
  BY DEF SystemSilent
<1>3. Proper(wire', db, fresh)
  BY <1>1 DEF SystemInv, HubInv
<1>4. \A i : SystemSilent(wire, 1, i) => SystemSilent(wire', 1, i)
  BY <1>2
<1>5. Unheard'
  BY <1>4 DEF SystemInv, HubInv, Unheard, Sys!stores
<1>6. Unknown(wire', byId')
  BY DEF SystemInv, HubInv, Unknown, Sys!stores
<1>7. HubInv'
  BY <1>3, <1>5, <1>6 DEF SystemInv, HubInv, OneOfId
<1>8. LeftOver'
  BY <1>4 DEF SystemInv, LeftOver, Sys!stores
<1> QED BY <1>7, <1>8 DEF Sys!stores, SystemInv, Sys!StoresAgree, Sys!StatusStoresAgree, Sys!FilteredData,
                          Sys!NamesCurrent, Sys!FaviconCounts, Sys!NamesFit

\* A change at the hub is not yet one of the stores.
LEMMA SameStores ==
    ASSUME Sys!StoresAgree, UNCHANGED Sys!stores
    PROVE  Sys!StoresAgree'
BY DEF Sys!stores, Sys!StoresAgree, Sys!StatusStoresAgree, Sys!FilteredData, Sys!NamesCurrent, Sys!FaviconCounts, Sys!NamesFit

LEMMA SystemInitInv ==
    ASSUME Sys!StoreConstants, Sys!Init
    PROVE  SystemInv
<1>1. SystemTypes
  <2>1. db \subseteq Sys!Records
    BY DEF Sys!Init
  <2>2. wire \in Seq(Sys!Messages)
    BY DEF Sys!Init
  <2> QED BY <2>1, <2>2 DEF Sys!Init, SystemTypes, Sys!Phases
<1>2. HubInv
  <2>1. OneOfId(db) /\ OneOfId(answer)
    BY DEF Sys!Init, OneOfId
  <2>2. Unheard
    BY DEF Sys!Init, Unheard, SystemSilent
  <2>3. Proper(wire, db, fresh) /\ Unknown(wire, byId) /\ wire = <<>>
    BY DEF Sys!Init, Proper, Unknown
  <2> QED BY <2>1, <2>2, <2>3 DEF HubInv
<1>3. LeftOver
  BY DEF Sys!Init, LeftOver
<1>4. Sys!StatusStoresAgree /\ Sys!NamesCurrent /\ Sys!NamesFit
  BY DEF Sys!Init, Sys!StatusStoresAgree, Sys!FilteredData, Sys!NamesCurrent, Sys!NamesFit
<1>5. Sys!FaviconCounts
  <2>1. {r \in byId : r.status = "down"} = {} /\ favicon = 0
    BY DEF Sys!Init
  <2> QED BY <2>1, FS_EmptySet, SystemCardinality DEF Sys!FaviconCounts
<1> QED BY <1>1, <1>2, <1>3, <1>4, <1>5 DEF SystemInv, Sys!StoresAgree

LEMMA SystemInvStep == Sys!StoreConstants /\ SystemInv /\ [Sys!Next]_(Sys!vars) => SystemInv'
<1> SUFFICES ASSUME Sys!StoreConstants, SystemInv, [Sys!Next]_(Sys!vars) PROVE HubInv' /\ LeftOver' /\ Sys!StoresAgree'
  BY SystemTypesStep DEF SystemInv
<1>1. CASE Sys!refresh
  BY <1>1, RefreshKeeps
<1>2. CASE Sys!Deliver
  BY <1>2, DeliverKeeps
<1>3. ASSUME NEW i \in Ids, NEW n \in Names, Sys!HubCreate(i, n) PROVE HubInv' /\ LeftOver' /\ Sys!StoresAgree'
  BY <1>3, CreateKeeps, SameStores DEF SystemInv, Sys!HubCreate, Sys!Announce
<1>4. ASSUME NEW r \in db, Sys!HubDelete(r) PROVE HubInv' /\ LeftOver' /\ Sys!StoresAgree'
  BY <1>4, DeleteKeeps, SameStores DEF SystemInv, Sys!HubDelete, Sys!Announce
<1>5. ASSUME NEW r \in db, NEW n \in Names, NEW s \in Sys!Statuses, NEW c \in BOOLEAN, Sys!HubUpdate(r, n, s, c)
      PROVE  HubInv' /\ LeftOver' /\ Sys!StoresAgree'
  BY <1>5, UpdateKeeps, SameStores DEF SystemInv, Sys!HubUpdate, Sys!Announce
<1>6. CASE Sys!fetchSystems
  BY <1>6, OtherKeeps DEF Sys!fetchSystems, Sys!hub, SystemInv, HubInv
<1>7. CASE Sys!FetchFails \/ Sys!subscribe \/ Sys!SubscribeFails \/ Sys!Reconnect
  BY <1>7, OtherKeeps DEF Sys!FetchFails, Sys!subscribe, Sys!SubscribeFails, Sys!Reconnect, Sys!hub, SystemInv, HubInv
<1>8. CASE Sys!unsubscribe \/ Sys!Disconnect
  BY <1>8, OtherKeeps DEF Sys!unsubscribe, Sys!Disconnect, Sys!hub, SystemInv, HubInv
<1>9. CASE UNCHANGED Sys!vars
  BY <1>9, OtherKeeps DEF Sys!vars, Sys!hub, Sys!net, SystemInv, HubInv
<1> QED BY <1>1, <1>2, <1>3, <1>4, <1>5, <1>6, <1>7, <1>8, <1>9, SystemNextCases

\* The copies of a system's record that the browser keeps agree after every
\* message, list and loss of the connection: the status stores are the id
\* store's records of their status, a known system has one name, which is its
\* own, the favicon counts the systems that are down, and the column is wide
\* enough (systemsManager.ts, the listener of $allSystemsById).
THEOREM SystemStoresAgree ==
    ASSUME Sys!StoreConstants
    PROVE  Sys!Spec => []Sys!StoresAgree
<1>1. Sys!Init => SystemInv
  BY SystemInitInv
<1>2. SystemInv /\ [Sys!Next]_(Sys!vars) => SystemInv'
  BY SystemInvStep
<1>3. SystemInv => Sys!StoresAgree
  BY DEF SystemInv
<1> QED BY <1>1, <1>2, <1>3, PTL DEF Sys!Spec

-----------------------------------------------------------------------------
(* The collection is finite, and so the number on the favicon is one.      *)

SystemFinite == IsFiniteSet(db) /\ IsFiniteSet(answer) /\ IsFiniteSet(byId)

\* A step adds one record or the list's.
LEMMA SystemFiniteStep == SystemTypes /\ SystemFinite /\ [Sys!Next]_(Sys!vars) => SystemFinite'
<1> SUFFICES ASSUME SystemTypes, SystemFinite, [Sys!Next]_(Sys!vars) PROVE SystemFinite'
  OBVIOUS
<1>1. CASE Sys!refresh
  <2> DEFINE valid == {r \in answer : r.cpu}
             others == {x \in byId : \A r \in valid : x.id # r.id}
  <2>1. byId' = others \cup valid /\ answer' = {} /\ db' = db
    BY <1>1 DEF Sys!refresh, Sys!hub
  <2>2. valid \in SUBSET answer /\ others \in SUBSET byId
    OBVIOUS
  <2> HIDE DEF valid, others
  <2>3. IsFiniteSet(valid) /\ IsFiniteSet(others)
    BY <2>2, FS_Subset DEF SystemFinite
  <2>4. IsFiniteSet(others \cup valid) /\ IsFiniteSet({})
    BY <2>3, FS_Union, FS_EmptySet
  <2> QED BY <2>1, <2>4 DEF SystemFinite
<1>2. CASE Sys!Deliver
  <2> DEFINE m == Head(wire)
             r == m.record
  <2>1. m \in Sys!Messages /\ db' = db /\ answer' = answer
    BY <1>2 DEF Sys!Deliver, Sys!hub, SystemTypes
  <2>2. Sys!add(r) \/ Sys!update(r) \/ Sys!remove(r)
    BY <1>2, <2>1 DEF Sys!Deliver, Sys!Messages
  <2> HIDE DEF m
  <2>3. byId' \in {byId, Sys!WithoutId(byId, r), Sys!WithoutId(byId, r) \cup {r}}
    BY <2>2 DEF Sys!add, Sys!update, Sys!remove, Sys!Add, Sys!SetId, Sys!stores
  <2>4. Sys!WithoutId(byId, r) \in SUBSET byId
    BY DEF Sys!WithoutId
  <2>5. IsFiniteSet(Sys!WithoutId(byId, r))
    BY <2>4, FS_Subset DEF SystemFinite
  <2>6. IsFiniteSet(Sys!WithoutId(byId, r) \cup {r})
    BY <2>5, FS_AddElement
  <2> QED BY <2>1, <2>3, <2>5, <2>6 DEF SystemFinite
<1>3. ASSUME NEW i \in Ids, NEW n \in Names, Sys!HubCreate(i, n) PROVE SystemFinite'
  <2>1. \A x : IsFiniteSet(db \cup {x})
    BY FS_AddElement DEF SystemFinite
  <2>2. byId' = byId /\ answer' = answer /\ \E x : db' = db \cup {x}
    BY <1>3 DEF Sys!HubCreate, Sys!Announce, Sys!stores
  <2> QED BY <2>1, <2>2 DEF SystemFinite
<1>4. ASSUME NEW r \in db PROVE IsFiniteSet(db \ {r})
  <2>1. db \ {r} \in SUBSET db
    OBVIOUS
  <2> QED BY <2>1, FS_Subset DEF SystemFinite
<1>5. ASSUME NEW r \in db, Sys!HubDelete(r) PROVE SystemFinite'
  BY <1>4, <1>5 DEF SystemFinite, Sys!HubDelete, Sys!Announce, Sys!stores
<1>6. ASSUME NEW r \in db, NEW n \in Names, NEW s \in Sys!Statuses, NEW c \in BOOLEAN, Sys!HubUpdate(r, n, s, c)
      PROVE  SystemFinite'
  <2>1. \A x : IsFiniteSet((db \ {r}) \cup {x})
    BY <1>4, FS_AddElement
  <2>2. byId' = byId /\ answer' = answer /\ \E x : db' = (db \ {r}) \cup {x}
    BY <1>6 DEF Sys!HubUpdate, Sys!Announce, Sys!stores
  <2> QED BY <2>1, <2>2 DEF SystemFinite
<1>7. CASE Sys!fetchSystems
  BY <1>7 DEF Sys!fetchSystems, Sys!hub, Sys!stores, SystemFinite
<1>8. CASE Sys!FetchFails \/ Sys!subscribe \/ Sys!SubscribeFails \/ Sys!unsubscribe \/ Sys!Disconnect \/ Sys!Reconnect
  BY <1>8 DEF Sys!FetchFails, Sys!subscribe, Sys!SubscribeFails, Sys!unsubscribe, Sys!Disconnect, Sys!Reconnect, Sys!hub, Sys!stores, SystemFinite
<1>9. CASE UNCHANGED Sys!vars
  BY <1>9 DEF Sys!vars, Sys!hub, Sys!stores, Sys!net, SystemFinite
<1> QED BY <1>1, <1>2, <1>3, <1>5, <1>6, <1>7, <1>8, <1>9, SystemNextCases

\* The stores, the messages and the hub's collection stay well typed; that the
\* favicon shows a number needs that it counts the systems that are down, which
\* are finitely many.
THEOREM SystemTypeCorrect ==
    ASSUME Sys!StoreConstants
    PROVE  Sys!Spec => []Sys!TypeOK
<1>1. Sys!Init => SystemInv /\ SystemFinite
  <2>1. ASSUME Sys!Init PROVE SystemFinite
    BY <2>1, FS_EmptySet, FS_Singleton DEF Sys!Init, SystemFinite
  <2> QED BY <2>1, SystemInitInv
<1>2. SystemInv /\ SystemFinite /\ [Sys!Next]_(Sys!vars) => (SystemInv /\ SystemFinite)'
  BY SystemInvStep, SystemFiniteStep DEF SystemInv
<1>3. SystemInv /\ SystemFinite => Sys!TypeOK
  <2> SUFFICES ASSUME SystemInv, SystemFinite PROVE Sys!TypeOK
    OBVIOUS
  <2> DEFINE shown == {r \in byId : r.status = "down"}
  <2>1. shown \in SUBSET byId
    OBVIOUS
  <2>2. favicon = Cardinality(shown)
    BY SystemCardinality DEF SystemInv, Sys!StoresAgree, Sys!FaviconCounts
  <2> HIDE DEF shown
  <2>3. favicon \in Nat
    BY <2>1, <2>2, FS_Subset, FS_CardinalityType DEF SystemFinite
  <2> QED BY <2>3 DEF SystemInv, SystemTypes, Sys!TypeOK
<1> QED BY <1>1, <1>2, <1>3, PTL DEF Sys!Spec

-----------------------------------------------------------------------------
(* Synced.                                                                 *)

\* Message n of the wire w is the last one about i.
Latest(w, n, i) == w[n].record.id = i /\ SystemSilent(w, n + 1, i)

\* What the hub has of a system after the change that m tells of.
Result(m) == IF m.action = "delete" THEN {} ELSE {m.record}

LEMMA TailLatest ==
    ASSUME NEW w \in Seq(Sys!Messages), w # <<>>, NEW i
    PROVE  /\ \A n \in 1 .. Len(Tail(w)) : Latest(Tail(w), n, i) =>
                 n + 1 \in 1 .. Len(w) /\ Latest(w, n + 1, i) /\ Tail(w)[n] = w[n + 1]
           /\ SystemSilent(Tail(w), 1, i) =>
                 IF Head(w).record.id = i THEN Latest(w, 1, i) ELSE SystemSilent(w, 1, i)
<1>1. /\ Len(w) \in Nat /\ 1 \in 1 .. Len(w) /\ Head(w) = w[1] /\ Len(Tail(w)) = Len(w) - 1
      /\ \A k \in 1 .. Len(Tail(w)) : k + 1 \in 1 .. Len(w) /\ Tail(w)[k] = w[k + 1]
  BY TailFacts
<1>2. ASSUME NEW j \in 1 .. Len(w), j # 1 PROVE j - 1 \in 1 .. Len(Tail(w)) /\ w[j] = Tail(w)[j - 1]
  <2>1. j - 1 \in 1 .. Len(Tail(w)) /\ (j - 1) + 1 = j
    BY <1>1, <1>2
  <2> QED BY <1>1, <2>1
<1>3. ASSUME NEW n \in 1 .. Len(Tail(w)), Latest(Tail(w), n, i)
      PROVE  n + 1 \in 1 .. Len(w) /\ Latest(w, n + 1, i) /\ Tail(w)[n] = w[n + 1]
  <2>1. n + 1 \in 1 .. Len(w) /\ Tail(w)[n] = w[n + 1]
    BY <1>1
  <2>2. ASSUME NEW j \in 1 .. Len(w), j >= (n + 1) + 1 PROVE w[j].record.id # i
    <3>1. j # 1 /\ j - 1 >= n + 1
      BY <2>2
    <3> QED BY <1>2, <1>3, <3>1 DEF Latest, SystemSilent
  <2> QED BY <1>3, <2>1, <2>2 DEF Latest, SystemSilent
<1>4. ASSUME SystemSilent(Tail(w), 1, i), NEW j \in 1 .. Len(w), j # 1 PROVE w[j].record.id # i
  <2>1. j - 1 \in 1 .. Len(Tail(w)) /\ w[j] = Tail(w)[j - 1] /\ j - 1 >= 1
    BY <1>2, <1>4
  <2> QED BY <1>4, <2>1 DEF SystemSilent
<1>5. ASSUME SystemSilent(Tail(w), 1, i), Head(w).record.id = i PROVE Latest(w, 1, i)
  <2>1. \A j \in 1 .. Len(w) : j >= 1 + 1 => w[j].record.id # i
    BY <1>4, <1>5
  <2> QED BY <1>1, <1>5, <2>1 DEF Latest, SystemSilent
<1>6. ASSUME SystemSilent(Tail(w), 1, i), Head(w).record.id # i PROVE SystemSilent(w, 1, i)
  BY <1>1, <1>4, <1>6 DEF SystemSilent
<1> QED BY <1>3, <1>5, <1>6

\* v is the wire w with message m: what it says of i.
Extends(v, w, m, i) ==
    /\ \A n \in 1 .. Len(v) : Latest(v, n, i) =>
          /\ m.record.id = i => v[n] = m
          /\ m.record.id # i => n \in 1 .. Len(w) /\ Latest(w, n, i) /\ v[n] = w[n]
    /\ SystemSilent(v, 1, i) => m.record.id # i /\ SystemSilent(w, 1, i)

LEMMA AppendLatest ==
    ASSUME NEW w \in Seq(Sys!Messages), NEW m \in Sys!Messages, NEW v, v = Append(w, m), NEW i
    PROVE  Extends(v, w, m, i)
<1>1. /\ Len(w) \in Nat /\ Len(v) = Len(w) + 1 /\ v[Len(w) + 1] = m
      /\ \A k \in 1 .. Len(w) : v[k] = w[k] /\ k \in 1 .. Len(v)
      /\ \A k \in 1 .. Len(v) : k \in 1 .. Len(w) \/ k = Len(w) + 1
      /\ Len(w) + 1 \in 1 .. Len(v) /\ Len(w) + 1 >= 1
  BY AppendFacts
<1>2. ASSUME NEW n \in 1 .. Len(v), Latest(v, n, i)
      PROVE  /\ m.record.id = i => v[n] = m
             /\ m.record.id # i => n \in 1 .. Len(w) /\ Latest(w, n, i) /\ v[n] = w[n]
  <2>1. CASE n = Len(w) + 1
    BY <1>1, <1>2, <2>1 DEF Latest
  <2>2. CASE n \in 1 .. Len(w)
    <3>1. Len(w) + 1 >= n + 1 /\ v[n] = w[n]
      BY <1>1, <2>2
    <3>2. m.record.id # i
      BY <1>1, <1>2, <3>1 DEF Latest, SystemSilent
    <3>3. SystemSilent(w, n + 1, i)
      BY <1>1, <1>2 DEF Latest, SystemSilent
    <3> QED BY <1>2, <2>2, <3>1, <3>2, <3>3 DEF Latest
  <2> QED BY <1>1, <2>1, <2>2
<1>3. ASSUME SystemSilent(v, 1, i) PROVE m.record.id # i /\ SystemSilent(w, 1, i)
  BY <1>1, <1>3 DEF SystemSilent
<1> QED BY <1>2, <1>3 DEF Extends

\* As long as the hub has no CPU info of a system, nothing on its way to the
\* browser has, and the stores have nothing of it: add and update ignore it.
NoInfo(i) == i \in fresh \/ \E r \in db : r.id = i /\ ~r.cpu
InfoInv == \A i : NoInfo(i) =>
    /\ \A x \in byId : x.id # i
    /\ \A x \in answer : x.id = i => ~x.cpu
    /\ \A k \in 1 .. Len(wire) : wire[k].record.id = i => ~wire[k].record.cpu

\* Before the list is applied the stores are empty, before the subscription
\* nothing is sent, and the list is as new as what the browser will hear of.
\* Afterwards the last message about a system, or the store if there is none,
\* is as new.
SystemEmpty == /\ phase \in {"fetch", "refresh"} => byId = {}
               /\ phase \in {"fetch", "refresh", "subscribe"} => wire = <<>>
SystemListed == phase = "refresh" => \A i \in Ids \ missed : Sys!Of(answer, i) = Sys!Of(db, i)
SystemTold == phase \in {"subscribe", "live"} => \A i \in Ids \ missed :
            /\ \A n \in 1 .. Len(wire) : Latest(wire, n, i) => Sys!Of(db, i) = Result(wire[n])
            /\ SystemSilent(wire, 1, i) => Sys!Agrees(i)
SystemSyncInv == InfoInv /\ SystemEmpty /\ SystemListed /\ SystemTold

\* What the hub says of a change keeps the invariant.
LEMMA SystemChangeSync ==
    ASSUME SystemTypes, SystemSyncInv, NEW act \in {"create", "update", "delete"}, NEW r \in Sys!Records,
           Sys!Announce(act, r),
           \A i : NoInfo(i)' => NoInfo(i) /\ (r.id = i => ~r.cpu),
           \A i \in Ids : Sys!Of(db', i) = IF i = r.id THEN Result([action |-> act, record |-> r])
                                                   ELSE Sys!Of(db, i)
    PROVE  SystemSyncInv'
<1> DEFINE m == [action |-> act, record |-> r]
<1>1. /\ m \in Sys!Messages /\ m.record = r /\ wire \in Seq(Sys!Messages) /\ UNCHANGED <<byId, phase, answer>>
      /\ \A i \in Ids : Sys!Of(db', i) = IF i = r.id THEN Result(m) ELSE Sys!Of(db, i)
  BY DEF Sys!Messages, SystemTypes, Sys!Announce, Sys!stores
<1>2. \/ phase = "live" /\ wire' = Append(wire, m) /\ missed' = missed \ {r.id}
      \/ phase = "fetch" /\ wire' = wire /\ missed' = missed
      \/ wire' = wire /\ missed' = missed \cup {r.id}
  BY DEF Sys!Announce
<1> HIDE DEF m
<1>3. InfoInv'
  <2>1. wire' = wire \/ wire' = Append(wire, m)
    BY <1>2
  <2>2. \A k \in 1 .. Len(wire') : wire'[k] = m \/ (k \in 1 .. Len(wire) /\ wire'[k] = wire[k])
    <3>1. CASE wire' = Append(wire, m)
      BY <1>1, <3>1, AppendFacts
    <3> QED BY <2>1, <3>1
  <2>3. ASSUME NEW i, NoInfo(i)'
        PROVE  /\ \A x \in byId : x.id # i
               /\ \A x \in answer : x.id = i => ~x.cpu
               /\ \A k \in 1 .. Len(wire') : wire'[k].record.id = i => ~wire'[k].record.cpu
    <3>1. NoInfo(i) /\ (r.id = i => ~r.cpu)
      BY <2>3
    <3> QED BY <1>1, <2>2, <3>1 DEF SystemSyncInv, InfoInv
  <2> QED BY <1>1, <2>3 DEF InfoInv
<1>4. CASE phase = "live" /\ wire' = Append(wire, m) /\ missed' = missed \ {r.id}
  <2>1. ASSUME NEW i \in Ids \ missed'
        PROVE  /\ \A n \in 1 .. Len(wire') : Latest(wire', n, i) => Sys!Of(db', i) = Result(wire'[n])
               /\ SystemSilent(wire', 1, i) => Sys!Of(byId, i) = {x \in Sys!Of(db', i) : x.cpu}
    <3> DEFINE v == wire'
    <3>1. v = Append(wire, m)
      BY <1>4
    <3> HIDE DEF v
    <3>2. /\ \A n \in 1 .. Len(v) : Latest(v, n, i) =>
                /\ r.id = i => v[n] = m
                /\ r.id # i => n \in 1 .. Len(wire) /\ Latest(wire, n, i) /\ v[n] = wire[n]
          /\ SystemSilent(v, 1, i) => r.id # i /\ SystemSilent(wire, 1, i)
      <4>1. Extends(v, wire, m, i)
        BY <1>1, <3>1, AppendLatest
      <4> QED BY <1>1, <4>1 DEF Extends
    <3>3. CASE i = r.id
      BY <1>1, <3>2, <3>3 DEF v
    <3>4. CASE i # r.id
      <4>1. i \in Ids \ missed
        BY <1>4, <2>1, <3>4
      <4>2. /\ \A n \in 1 .. Len(wire) : Latest(wire, n, i) => Sys!Of(db, i) = Result(wire[n])
            /\ SystemSilent(wire, 1, i) => Sys!Of(byId, i) = {x \in Sys!Of(db, i) : x.cpu}
        BY <1>4, <4>1 DEF SystemSyncInv, SystemTold, Sys!Agrees
      <4>3. Sys!Of(db', i) = Sys!Of(db, i)
        BY <1>1, <3>4
      <4> QED BY <3>2, <3>4, <4>2, <4>3 DEF v
    <3> QED BY <3>3, <3>4
  <2> QED BY <1>1, <1>3, <1>4, <2>1 DEF SystemSyncInv, SystemEmpty, SystemListed, SystemTold, Sys!Agrees
<1>5. CASE phase = "fetch" /\ wire' = wire /\ missed' = missed
  BY <1>1, <1>3, <1>5 DEF SystemSyncInv, SystemEmpty, SystemListed, SystemTold
<1>6. CASE wire' = wire /\ missed' = missed \cup {r.id}
  <2>1. \A i \in Ids \ missed' : i \in Ids \ missed /\ Sys!Of(db', i) = Sys!Of(db, i)
    BY <1>1, <1>6
  <2> QED BY <1>1, <1>3, <1>6, <2>1 DEF SystemSyncInv, SystemEmpty, SystemListed, SystemTold, Sys!Agrees
<1> QED BY <1>2, <1>4, <1>5, <1>6

LEMMA CreateSync ==
    ASSUME SystemTypes, HubInv, SystemSyncInv, NEW i \in Ids, NEW n \in Names, Sys!HubCreate(i, n)
    PROVE  SystemSyncInv'
<1> DEFINE r == [id |-> i, name |-> n, status |-> "pending", cpu |-> TRUE]
<1>1. r \in Sys!Records /\ r.id = i /\ r.cpu
  BY DEF Sys!Records, Sys!Statuses
<1>2. i \in fresh /\ fresh' = fresh \ {i} /\ db' = db \cup {r} /\ Sys!Announce("create", r)
  BY DEF Sys!HubCreate
<1>3. Result([action |-> "create", record |-> r]) = {r}
  BY DEF Result
<1> HIDE DEF r
<1>4. \A x \in db : x.id # i
  BY <1>2 DEF HubInv, Unheard
<1>5. \A j : NoInfo(j)' => NoInfo(j) /\ (r.id = j => ~r.cpu)
  BY <1>1, <1>2, <1>4 DEF NoInfo
<1>6. \A j \in Ids : Sys!Of(db', j) = IF j = r.id THEN {r} ELSE Sys!Of(db, j)
  BY <1>1, <1>2, <1>4 DEF Sys!Of
<1> QED BY <1>1, <1>2, <1>3, <1>5, <1>6, SystemChangeSync

LEMMA DeleteSync ==
    ASSUME SystemTypes, HubInv, SystemSyncInv, NEW r \in db, Sys!HubDelete(r)
    PROVE  SystemSyncInv'
<1>1. r \in Sys!Records /\ fresh' = fresh /\ db' = db \ {r} /\ Sys!Announce("delete", r)
  BY DEF Sys!HubDelete, SystemTypes
<1>2. Result([action |-> "delete", record |-> r]) = {}
  BY DEF Result
<1>3. \A j : NoInfo(j)' => NoInfo(j) /\ r.id # j
  BY <1>1 DEF NoInfo, HubInv, Unheard, OneOfId
<1>4. \A j \in Ids : Sys!Of(db', j) = IF j = r.id THEN {} ELSE Sys!Of(db, j)
  BY <1>1 DEF Sys!Of, HubInv, OneOfId
<1> QED BY <1>1, <1>2, <1>3, <1>4, SystemChangeSync

LEMMA UpdateSync ==
    ASSUME SystemTypes, HubInv, SystemSyncInv,
           NEW r \in db, NEW n \in Names, NEW s \in Sys!Statuses, NEW c \in BOOLEAN, Sys!HubUpdate(r, n, s, c)
    PROVE  SystemSyncInv'
<1> DEFINE new == [id |-> r.id, name |-> n, status |-> s, cpu |-> c]
<1>1. new \in Sys!Records /\ new.id = r.id /\ (r.cpu => new.cpu)
  BY DEF SystemTypes, Sys!Records, Sys!HubUpdate
<1>2. fresh' = fresh /\ db' = (db \ {r}) \cup {new} /\ Sys!Announce("update", new)
  BY DEF Sys!HubUpdate
<1>3. Result([action |-> "update", record |-> new]) = {new}
  BY DEF Result
<1> HIDE DEF new
<1>4. \A j : NoInfo(j)' => NoInfo(j) /\ (new.id = j => ~new.cpu)
  BY <1>1, <1>2 DEF NoInfo, HubInv, Unheard, OneOfId
<1>5. \A j \in Ids : Sys!Of(db', j) = IF j = new.id THEN {new} ELSE Sys!Of(db, j)
  BY <1>1, <1>2 DEF Sys!Of, HubInv, OneOfId
<1> QED BY <1>1, <1>2, <1>3, <1>4, <1>5, SystemChangeSync

\* What a message does to the id store.
LEMMA DeliveredById ==
    ASSUME SystemTypes, Sys!Deliver
    PROVE  LET m == Head(wire)
               r == m.record
           IN  /\ m.action = "delete" => byId' = Sys!WithoutId(byId, r)
               /\ m.action # "delete" => byId' = IF r.cpu THEN Sys!SetId(byId, r) ELSE byId
<1> DEFINE m == Head(wire)
           r == m.record
<1>1. m \in Sys!Messages
  BY DEF Sys!Deliver, SystemTypes
<1>2. /\ m.action = "create" => Sys!add(r)
      /\ m.action = "update" => Sys!update(r)
      /\ m.action = "delete" => Sys!remove(r)
  BY DEF Sys!Deliver
<1>3. m.action \in {"create", "update", "delete"}
  BY <1>1 DEF Sys!Messages
<1> HIDE DEF m
<1>4. /\ m.action = "delete" => byId' = Sys!WithoutId(byId, r)
      /\ m.action # "delete" => byId' = IF r.cpu THEN Sys!SetId(byId, r) ELSE byId
  BY <1>2, <1>3 DEF Sys!add, Sys!update, Sys!remove, Sys!Add, Sys!stores
<1> QED BY <1>4 DEF m

LEMMA DeliverSync ==
    ASSUME SystemTypes, HubInv, SystemSyncInv, Sys!Deliver
    PROVE  SystemSyncInv'
<1> DEFINE m == Head(wire)
           r == m.record
           w == Tail(wire)
<1>1. /\ wire # <<>> /\ wire \in Seq(Sys!Messages) /\ wire' = w
      /\ UNCHANGED <<db, fresh, answer, phase, missed>>
  BY DEF Sys!Deliver, Sys!hub, SystemTypes
<1>2. /\ m.action = "delete" => byId' = Sys!WithoutId(byId, r)
      /\ m.action # "delete" => byId' = IF r.cpu THEN Sys!SetId(byId, r) ELSE byId
  BY DeliveredById
<1>3. /\ 1 \in 1 .. Len(wire) /\ m = wire[1]
      /\ \A k \in 1 .. Len(w) : k + 1 \in 1 .. Len(wire) /\ w[k] = wire[k + 1]
  BY <1>1, TailFacts
<1>4. \A i : /\ \A n \in 1 .. Len(w) : Latest(w, n, i) =>
                   n + 1 \in 1 .. Len(wire) /\ Latest(wire, n + 1, i) /\ w[n] = wire[n + 1]
             /\ SystemSilent(w, 1, i) => IF r.id = i THEN Latest(wire, 1, i) ELSE SystemSilent(wire, 1, i)
  BY <1>1, TailLatest
<1> HIDE DEF m, w
<1>5. ASSUME NEW i, NoInfo(i)
      PROVE  /\ \A x \in byId' : x.id # i
             /\ \A k \in 1 .. Len(w) : w[k].record.id = i => ~w[k].record.cpu
  <2>1. /\ \A x \in byId : x.id # i
        /\ \A k \in 1 .. Len(wire) : wire[k].record.id = i => ~wire[k].record.cpu
    BY <1>5 DEF SystemSyncInv, InfoInv
  <2>2. r.id = i => ~r.cpu
    BY <1>3, <2>1
  <2>3. \A x \in byId' : x \in byId \/ (x = r /\ r.cpu)
    BY <1>2 DEF Sys!SetId, Sys!WithoutId
  <2> QED BY <1>3, <2>1, <2>2, <2>3
<1>6. InfoInv'
  BY <1>1, <1>5 DEF SystemSyncInv, InfoInv, NoInfo
<1>7. SystemEmpty' /\ SystemListed'
  <2>1. phase \notin {"fetch", "refresh", "subscribe"}
    BY <1>1 DEF SystemSyncInv, SystemEmpty
  <2> QED BY <1>1, <2>1 DEF SystemEmpty, SystemListed
<1>8. ASSUME phase = "live", NEW i \in Ids \ missed
      PROVE  /\ \A n \in 1 .. Len(w) : Latest(w, n, i) => Sys!Of(db, i) = Result(w[n])
             /\ SystemSilent(w, 1, i) => Sys!Of(byId', i) = {x \in Sys!Of(db, i) : x.cpu}
  <2>1. /\ \A n \in 1 .. Len(wire) : Latest(wire, n, i) => Sys!Of(db, i) = Result(wire[n])
        /\ SystemSilent(wire, 1, i) => Sys!Of(byId, i) = {x \in Sys!Of(db, i) : x.cpu}
    BY <1>8 DEF SystemSyncInv, SystemTold, Sys!Agrees
  <2>2. \A n \in 1 .. Len(w) : Latest(w, n, i) => Sys!Of(db, i) = Result(w[n])
    BY <1>4, <2>1
  <2>3. ASSUME SystemSilent(w, 1, i), r.id # i PROVE Sys!Of(byId', i) = {x \in Sys!Of(db, i) : x.cpu}
    <3>1. Sys!Of(byId', i) = Sys!Of(byId, i)
      BY <1>2, <2>3 DEF Sys!Of, Sys!SetId, Sys!WithoutId
    <3> QED BY <1>4, <2>1, <2>3, <3>1
  <2>4. ASSUME SystemSilent(w, 1, i), r.id = i PROVE Sys!Of(byId', i) = {x \in Sys!Of(db, i) : x.cpu}
    <3>1. Sys!Of(db, i) = Result(m)
      BY <1>3, <1>4, <2>1, <2>4
    <3>2. CASE m.action = "delete"
      BY <1>2, <2>4, <3>1, <3>2 DEF Sys!Of, Result, Sys!WithoutId
    <3>3. CASE m.action # "delete" /\ r.cpu
      <4>1. Sys!Of(byId', i) = {r}
        BY <1>2, <2>4, <3>3 DEF Sys!Of, Sys!SetId, Sys!WithoutId
      <4> QED BY <3>1, <3>3, <4>1 DEF Result
    <3>4. CASE m.action # "delete" /\ ~r.cpu
      <4>1. Sys!Of(db, i) = {r} /\ byId' = byId
        BY <1>2, <3>1, <3>4 DEF Result
      <4>2. NoInfo(i)
        BY <2>4, <3>4, <4>1 DEF NoInfo, Sys!Of
      <4>3. Sys!Of(byId, i) = {}
        BY <4>2 DEF SystemSyncInv, InfoInv, Sys!Of
      <4> QED BY <3>4, <4>1, <4>3
    <3> QED BY <3>2, <3>3, <3>4
  <2> QED BY <2>2, <2>3, <2>4
<1>9. SystemTold'
  <2>1. phase # "subscribe"
    BY <1>1 DEF SystemSyncInv, SystemEmpty
  <2> QED BY <1>1, <1>8, <2>1 DEF SystemTold, Sys!Agrees
<1> QED BY <1>6, <1>7, <1>9 DEF SystemSyncInv

LEMMA RefreshSync ==
    ASSUME SystemTypes, HubInv, SystemSyncInv, Sys!refresh
    PROVE  SystemSyncInv'
<1> DEFINE valid == {r \in answer : r.cpu}
<1>1. /\ phase = "refresh" /\ phase' = "subscribe" /\ answer' = {} /\ UNCHANGED <<db, fresh, wire, missed>>
      /\ byId' = {x \in byId : \A r \in valid : x.id # r.id} \cup valid
  BY DEF Sys!refresh, Sys!hub
<1>2. byId = {} /\ wire = <<>>
  BY <1>1 DEF SystemSyncInv, SystemEmpty
<1>3. byId' = valid
  BY <1>1, <1>2
<1>4. InfoInv'
  BY <1>1, <1>2, <1>3 DEF SystemSyncInv, InfoInv, NoInfo
<1>5. \A i \in Ids \ missed : Sys!Of(valid, i) = {x \in Sys!Of(db, i) : x.cpu}
  <2>1. \A i : Sys!Of(valid, i) = {x \in Sys!Of(answer, i) : x.cpu}
    BY DEF Sys!Of
  <2>2. \A i \in Ids \ missed : Sys!Of(answer, i) = Sys!Of(db, i)
    BY <1>1 DEF SystemSyncInv, SystemListed
  <2> QED BY <2>1, <2>2
<1> QED BY <1>1, <1>2, <1>3, <1>4, <1>5 DEF SystemSyncInv, SystemEmpty, SystemListed, SystemTold, Sys!Agrees

LEMMA SystemSyncStep == SystemTypes /\ HubInv /\ SystemSyncInv /\ [Sys!Next]_(Sys!vars) => SystemSyncInv'
<1> SUFFICES ASSUME SystemTypes, HubInv, SystemSyncInv, [Sys!Next]_(Sys!vars) PROVE SystemSyncInv'
  OBVIOUS
<1>1. CASE Sys!fetchSystems
  <2>1. /\ phase = "fetch" /\ answer' = db /\ phase' = "refresh"
        /\ UNCHANGED <<db, fresh, byId, wire, missed>>
    BY <1>1 DEF Sys!fetchSystems, Sys!hub, Sys!stores
  <2>2. \A i : NoInfo(i) => \A x \in db : x.id = i => ~x.cpu
    BY DEF NoInfo, HubInv, Unheard, OneOfId
  <2>3. InfoInv'
    BY <2>1, <2>2 DEF SystemSyncInv, InfoInv, NoInfo
  <2> QED BY <2>1, <2>3 DEF SystemSyncInv, SystemEmpty, SystemListed, SystemTold
<1>2. CASE Sys!FetchFails
  <2>1. /\ phase = "fetch" /\ phase' = "subscribe" /\ missed' = {r.id : r \in db}
        /\ UNCHANGED <<db, fresh, byId, wire, answer>>
    BY <1>2 DEF Sys!FetchFails, Sys!hub, Sys!stores
  <2>2. byId = {} /\ wire = <<>>
    BY <2>1 DEF SystemSyncInv, SystemEmpty
  <2>3. \A i \in Ids \ missed' : Sys!Of(db, i) = {} /\ Sys!Of(byId, i) = {}
    BY <2>1, <2>2 DEF Sys!Of
  <2>4. InfoInv'
    BY <2>1 DEF SystemSyncInv, InfoInv, NoInfo
  <2> QED BY <2>1, <2>2, <2>3, <2>4 DEF SystemSyncInv, SystemEmpty, SystemListed, SystemTold, Sys!Agrees
<1>3. CASE Sys!refresh
  BY <1>3, RefreshSync
<1>4. CASE Sys!subscribe \/ Sys!SubscribeFails \/ Sys!Reconnect \/ UNCHANGED Sys!vars
  <2>1. UNCHANGED <<db, fresh, byId, wire, answer, missed>>
    BY <1>4 DEF Sys!subscribe, Sys!SubscribeFails, Sys!Reconnect, Sys!vars, Sys!hub, Sys!stores, Sys!net
  <2>2. \/ phase' = phase
        \/ phase = "subscribe" /\ phase' \in {"live", "unsubscribed"}
    BY <1>4 DEF Sys!subscribe, Sys!SubscribeFails, Sys!Reconnect, Sys!vars, Sys!net
  <2>3. InfoInv'
    BY <2>1 DEF SystemSyncInv, InfoInv, NoInfo
  <2> QED BY <2>1, <2>2, <2>3 DEF SystemSyncInv, SystemEmpty, SystemListed, SystemTold, Sys!Agrees
<1>5. CASE Sys!Deliver
  BY <1>5, DeliverSync
<1>6. CASE Sys!unsubscribe
  <2>1. phase' = "closed" /\ wire' = <<>> /\ UNCHANGED <<db, fresh, byId, answer>>
    BY <1>6 DEF Sys!unsubscribe, Sys!hub, Sys!stores
  <2>2. InfoInv'
    BY <2>1 DEF SystemSyncInv, InfoInv, NoInfo
  <2> QED BY <2>1, <2>2 DEF SystemSyncInv, SystemEmpty, SystemListed, SystemTold
<1>7. CASE Sys!Disconnect
  <2>1. /\ wire' = <<>> /\ missed' = missed \cup {wire[k].record.id : k \in 1 .. Len(wire)}
        /\ UNCHANGED <<db, fresh, byId, answer, phase>>
    BY <1>7 DEF Sys!Disconnect, Sys!hub, Sys!stores
  <2>2. InfoInv'
    BY <2>1 DEF SystemSyncInv, InfoInv, NoInfo
  <2>3. \A i \in Ids \ missed' : i \in Ids \ missed /\ SystemSilent(wire, 1, i)
    BY <2>1 DEF SystemSilent
  <2> QED BY <2>1, <2>2, <2>3 DEF SystemSyncInv, SystemEmpty, SystemListed, SystemTold, Sys!Agrees
<1>8. ASSUME NEW i \in Ids, NEW n \in Names, Sys!HubCreate(i, n) PROVE SystemSyncInv'
  BY <1>8, CreateSync
<1>9. ASSUME NEW r \in db, Sys!HubDelete(r) PROVE SystemSyncInv'
  BY <1>9, DeleteSync
<1>10. ASSUME NEW r \in db, NEW n \in Names, NEW s \in Sys!Statuses, NEW c \in BOOLEAN, Sys!HubUpdate(r, n, s, c)
       PROVE  SystemSyncInv'
  BY <1>10, UpdateSync
<1> QED BY <1>1, <1>2, <1>3, <1>4, <1>5, <1>6, <1>7, <1>8, <1>9, <1>10, SystemNextCases

\* Once every message has arrived the browser shows what the hub has of every
\* system whose last change it was told of (systemsManager.ts, refresh and
\* subscribe), for any changes, failures and losses of the connection.
THEOREM SystemSynced ==
    ASSUME Sys!StoreConstants
    PROVE  Sys!Spec => []Sys!Synced
<1>1. Sys!Init => SystemInv /\ SystemSyncInv
  <2>1. ASSUME Sys!Init PROVE SystemSyncInv
    BY <2>1 DEF Sys!Init, SystemSyncInv, InfoInv, SystemEmpty, SystemListed, SystemTold
  <2> QED BY <2>1, SystemInitInv
<1>2. SystemInv /\ SystemSyncInv /\ [Sys!Next]_(Sys!vars) => (SystemInv /\ SystemSyncInv)'
  BY SystemInvStep, SystemSyncStep DEF SystemInv
<1>3. SystemSyncInv => Sys!Synced
  BY DEF SystemSyncInv, SystemTold, Sys!Synced, SystemSilent
<1> QED BY <1>1, <1>2, <1>3, PTL DEF Sys!Spec
-----------------------------------------------------------------------------
(* The alerts.  What Applied does to one key.                              *)

\* What a batch puts under a key.
Puts(b, k) == {m.record : m \in {x \in b : x.action # "delete" /\ Alert!KeyOf(x.record) = k}}

\* A batch decides about the keys of its messages and leaves the others alone.
LEMMA AppliedAt ==
    ASSUME NEW s, NEW b, NEW k
    PROVE  Alert!At(Alert!Applied(s, b), k) =
               IF k \in Alert!KeysOf(Alert!Records4(b)) THEN Puts(b, k) ELSE Alert!At(s, k)
<1>1. CASE k \in Alert!KeysOf(Alert!Records4(b))
  BY <1>1 DEF Alert!At, Alert!Applied, Puts
<1>2. CASE k \notin Alert!KeysOf(Alert!Records4(b))
  <2>1. \A m \in b : Alert!KeyOf(m.record) # k
    BY <1>2 DEF Alert!KeysOf, Alert!Records4
  <2> QED BY <1>2, <2>1 DEF Alert!At, Alert!Applied
<1> QED BY <1>1, <1>2

\* The messages of a batch with one collected.
LEMMA CollectIn ==
    ASSUME NEW b, NEW m
    PROVE  \A x : x \in Alert!Collect(b, m) <=> (x \in b /\ Alert!KeyOf(x.record) # Alert!KeyOf(m.record)) \/ x = m
BY DEF Alert!Collect

\* The keys of a batch.
LEMMA KeysIn ==
    ASSUME NEW b, NEW k
    PROVE  k \in Alert!KeysOf(Alert!Records4(b)) <=> \E x \in b : Alert!KeyOf(x.record) = k
BY DEF Alert!KeysOf, Alert!Records4

\* For its own key a message that is collected is the only one.
LEMMA CollectOwn ==
    ASSUME NEW s, NEW d, NEW b, NEW m
    PROVE  Alert!At(Alert!Applied(s, Alert!Collect(b, m)), Alert!KeyOf(m.record)) = Alert!At(Alert!Applied(d, {m}), Alert!KeyOf(m.record))
<1> DEFINE k == Alert!KeyOf(m.record)
           c == Alert!Collect(b, m)
<1>1. k \in Alert!KeysOf(Alert!Records4(c)) /\ k \in Alert!KeysOf(Alert!Records4({m}))
  BY KeysIn, CollectIn
<1>2. Puts(c, k) = Puts({m}, k)
  BY CollectIn DEF Puts
<1> HIDE DEF c, k
<1>3. Alert!At(Alert!Applied(s, c), k) = Alert!At(Alert!Applied(d, {m}), k)
  BY <1>1, <1>2, AppliedAt
<1> QED BY <1>3 DEF c, k

\* For other keys it changes nothing.
LEMMA CollectOther ==
    ASSUME NEW s, NEW b, NEW m, NEW k, k # Alert!KeyOf(m.record)
    PROVE  Alert!At(Alert!Applied(s, Alert!Collect(b, m)), k) = Alert!At(Alert!Applied(s, b), k)
<1> DEFINE c == Alert!Collect(b, m)
<1>1. k \in Alert!KeysOf(Alert!Records4(c)) <=> k \in Alert!KeysOf(Alert!Records4(b))
  BY KeysIn, CollectIn
<1>2. Puts(c, k) = Puts(b, k)
  BY CollectIn DEF Puts
<1> HIDE DEF c
<1>4. Alert!At(Alert!Applied(s, c), k) = Alert!At(Alert!Applied(s, b), k)
  BY <1>1, <1>2, AppliedAt
<1> QED BY <1>4 DEF c

LEMMA AppliedOther ==
    ASSUME NEW s, NEW m, NEW k, k # Alert!KeyOf(m.record)
    PROVE  Alert!At(Alert!Applied(s, {m}), k) = Alert!At(s, k)
<1>1. k \notin Alert!KeysOf(Alert!Records4({m}))
  BY KeysIn
<1> QED BY <1>1, AppliedAt

-----------------------------------------------------------------------------
(* Types.                                                                  *)

\* The steps of Next, for the proof by cases.
LEMMA AlertNextCases ==
    ASSUME Alert!Next
    PROVE  \/ Alert!fetchAlerts \/ Alert!FetchFails \/ Alert!refresh \/ Alert!subscribe
           \/ Alert!Deliver \/ Alert!Flush \/ Alert!HubChange
           \/ \E c \in Copies : Alert!CopyStart(c[1], c[2])
           \/ \E c \in copies : Alert!CopyDone(c)
           \/ \E c \in copies : \E p \in c.posts : Alert!HandlePost(c, p) \/ Alert!PostFails(c, p)
BY DEF Alert!Next, Alert!Mounting, Alert!Copying

\* Announcing a record sends a message or marks its key.
LEMMA AnnounceTypes ==
    ASSUME Alert!TypeOK, NEW act \in {"create", "update", "delete"}, NEW a \in Alert!Records, Alert!Announce(act, a)
    PROVE  aWire' \in Seq(Alert!Messages) /\ aMissed' \subseteq Alert!Keys
<1>1. [action |-> act, record |-> a] \in Alert!Messages
  BY DEF Alert!Messages
<1>2. Alert!KeyOf(a) \in Alert!Keys
  BY DEF Alert!KeyOf, Alert!Keys, Alert!Records
<1> QED BY <1>1, <1>2 DEF Alert!Announce, Alert!TypeOK

\* Put and Remove keep the types.
LEMMA ChangeTypes ==
    ASSUME Alert!TypeOK, NEW a \in Alert!Records, Alert!Put(a) \/ (a \in aDb /\ Alert!Remove(a))
    PROVE  aDb' \subseteq Alert!Records /\ aWire' \in Seq(Alert!Messages) /\ aMissed' \subseteq Alert!Keys
<1>1. CASE Alert!Put(a)
  <2>1. aDb' \subseteq Alert!Records
    BY <1>1 DEF Alert!Put, Alert!TypeOK
  <2>2. \E act \in {"create", "update", "delete"} : Alert!Announce(act, a)
    BY <1>1 DEF Alert!Put
  <2> QED BY <2>1, <2>2, AnnounceTypes
<1>2. CASE Alert!Remove(a)
  <2>1. aDb' \subseteq Alert!Records
    BY <1>2 DEF Alert!Remove, Alert!TypeOK
  <2>2. Alert!Announce("delete", a)
    BY <1>2 DEF Alert!Remove
  <2> QED BY <2>1, <2>2, AnnounceTypes
<1> QED BY <1>1, <1>2

\* Applying messages gives records.
LEMMA AppliedTypes ==
    ASSUME NEW s \in SUBSET Alert!Records, NEW b \in SUBSET Alert!Messages
    PROVE  Alert!Applied(s, b) \subseteq Alert!Records
BY DEF Alert!Applied, Alert!Messages

\* What is rendered is records.
LEMMA WriteTypes ==
    ASSUME Alert!TypeOK, NEW s \in SUBSET Alert!Records, Alert!Write(s)
    PROVE  alerts' \subseteq Alert!Records /\ cards' \subseteq Alert!Records
BY DEF Alert!Write, Alert!Render, Alert!Active, Alert!TypeOK

\* Every step keeps the types.
LEMMA TypeStep == Alert!StoreConstants /\ Alert!TypeOK /\ [Alert!Next]_(Alert!vars) => Alert!TypeOK'
<1> SUFFICES ASSUME Alert!StoreConstants, Alert!TypeOK, [Alert!Next]_(Alert!vars) PROVE Alert!TypeOK'
  OBVIOUS
<1>1. CASE Alert!fetchAlerts
  BY <1>1 DEF Alert!fetchAlerts, Alert!store, Alert!hub, Alert!TypeOK
<1>2. CASE Alert!FetchFails
  BY <1>2 DEF Alert!FetchFails, Alert!store, Alert!hub, Alert!TypeOK
<1>3. CASE Alert!refresh
  <2> DEFINE all == {[action |-> "create", record |-> a] : a \in aAnswer}
  <2>1. all \in SUBSET Alert!Messages
    BY DEF Alert!TypeOK, Alert!Messages
  <2>2. Alert!Applied(alerts, all) \in SUBSET Alert!Records /\ Alert!Applied(direct, all) \in SUBSET Alert!Records
    BY <2>1, AppliedTypes DEF Alert!TypeOK
  <2>3. Alert!Write(Alert!Applied(alerts, all)) /\ direct' = Alert!Applied(direct, all)
    BY <1>3 DEF Alert!refresh
  <2> HIDE DEF all
  <2>4. alerts' \subseteq Alert!Records /\ cards' \subseteq Alert!Records /\ direct' \subseteq Alert!Records
    BY <2>2, <2>3, WriteTypes
  <2> QED BY <1>3, <2>4 DEF Alert!refresh, Alert!hub, Alert!TypeOK
<1>4. CASE Alert!subscribe
  BY <1>4 DEF Alert!subscribe, Alert!store, Alert!hub, Alert!TypeOK
<1>5. CASE Alert!Deliver
  <2> DEFINE m == Head(aWire)
  <2>1. m \in Alert!Messages /\ aWire' \in Seq(Alert!Messages)
    BY <1>5 DEF Alert!Deliver, Alert!TypeOK
  <2>2. /\ batch' = Alert!Collect(batch, m) /\ direct' = Alert!Applied(direct, {m})
        /\ guess' = guess \ {Alert!KeyOf(m.record)}
    BY <1>5 DEF Alert!Deliver
  <2> HIDE DEF m
  <2>3. direct' \subseteq Alert!Records
    BY <2>1, <2>2, AppliedTypes DEF Alert!TypeOK
  <2>4. batch' \subseteq Alert!Messages
    BY <2>1, <2>2, CollectIn DEF Alert!TypeOK
  <2>5. \A x, y \in batch' : Alert!KeyOf(x.record) = Alert!KeyOf(y.record) => x = y
    BY <2>2, CollectIn DEF Alert!TypeOK
  <2> QED BY <1>5, <2>1, <2>2, <2>3, <2>4, <2>5 DEF Alert!Deliver, Alert!hub, Alert!TypeOK
<1>6. CASE Alert!Flush
  <2>1. Alert!Applied(alerts, batch) \in SUBSET Alert!Records
    BY AppliedTypes DEF Alert!TypeOK
  <2>2. alerts' \subseteq Alert!Records /\ cards' \subseteq Alert!Records
    BY <1>6, <2>1, WriteTypes DEF Alert!Flush
  <2> QED BY <1>6, <2>2 DEF Alert!Flush, Alert!hub, Alert!net, Alert!TypeOK
<1>7. CASE Alert!HubChange
  <2>1. \E a \in Alert!Records : Alert!Put(a) \/ (a \in aDb /\ Alert!Remove(a))
    BY <1>7 DEF Alert!HubChange, Alert!TypeOK
  <2>2. aDb' \subseteq Alert!Records /\ aWire' \in Seq(Alert!Messages) /\ aMissed' \subseteq Alert!Keys
    BY <2>1, ChangeTypes
  <2> QED BY <1>7, <2>2 DEF Alert!HubChange, Alert!store, Alert!TypeOK
<1>8. ASSUME NEW d \in Copies, Alert!CopyStart(d[1], d[2]) PROVE Alert!TypeOK'
  <2> DEFINE t == d[1]
             s == d[2]
             source == {a \in alerts : a.sys = s}
             target == {a \in alerts : a.sys = t}
             puts == {[method |-> "POST", key |-> <<t, a.name>>, val |-> a.val] : a \in source}
             dels == {[method |-> "DELETE", key |-> Alert!KeyOf(a), val |-> a.val] :
                          a \in {b \in target : <<s, b.name>> \notin Alert!KeysOf(source)}}
             new == [ok |-> TRUE, target |-> t, source |-> source, posts |-> puts \cup dels]
             can == Alert!Cancelled({p.key[2] : p \in puts \cup dels})
  <2>1. t \in Systems /\ s \in Systems
    BY DEF Alert!StoreConstants
  <2>2. source \subseteq Alert!Records /\ target \subseteq Alert!Records
    BY DEF Alert!TypeOK
  <2>3. puts \subseteq Alert!Posts
    BY <2>1, <2>2 DEF Alert!Posts, Alert!Keys, Alert!Records
  <2>4. dels \subseteq Alert!Posts
    <3>1. \A a \in target : [method |-> "DELETE", key |-> Alert!KeyOf(a), val |-> a.val] \in Alert!Posts
      BY <2>2 DEF Alert!Posts, Alert!Keys, Alert!KeyOf, Alert!Records
    <3> HIDE DEF target
    <3> QED BY <3>1
  <2>5. new \in Alert!RunningCopies
    BY <2>1, <2>2, <2>3, <2>4 DEF Alert!RunningCopies
  <2>6. \A c \in can : c \in Alert!RunningCopies
    <3>1. \A c \in copies : c \in Alert!RunningCopies /\ [c EXCEPT !.ok = FALSE] \in Alert!RunningCopies
      BY DEF Alert!TypeOK, Alert!RunningCopies
    <3> QED BY <3>1 DEF Alert!Cancelled
  <2>7. copies' = Alert!Live(can) \cup {new} /\ aChanges' = aChanges + 1
    BY <1>8 DEF Alert!CopyStart
  <2> HIDE DEF can, new
  <2>8. \A c \in copies' : c \in Alert!RunningCopies
    BY <2>5, <2>6, <2>7 DEF Alert!Live
  <2>9. UNCHANGED <<aDb, Alert!store, Alert!net>>
    BY <1>8 DEF Alert!CopyStart
  <2> QED BY <2>7, <2>8, <2>9 DEF Alert!store, Alert!net, Alert!TypeOK
<1>9. ASSUME NEW c \in copies, Alert!CopyDone(c) PROVE Alert!TypeOK'
  <2> DEFINE new == {[a EXCEPT !.sys = c.target, !.on = FALSE] : a \in c.source}
             Others(x) == {a \in x : a.sys # c.target}
  <2>1. c.target \in Systems /\ c.source \subseteq Alert!Records
    BY DEF Alert!TypeOK, Alert!RunningCopies
  <2>2. new \subseteq Alert!Records
    BY <2>1 DEF Alert!Records
  <2>3. Others(alerts) \cup new \in SUBSET Alert!Records /\ Others(direct) \cup new \in SUBSET Alert!Records
    BY <2>2 DEF Alert!TypeOK
  <2>4. /\ Alert!Write(Others(alerts) \cup new) /\ direct' = Others(direct) \cup new
        /\ guess' = guess \cup ({c.target} \X AlertNames) /\ copies' = copies \ {c}
    BY <1>9 DEF Alert!CopyDone
  <2> HIDE DEF new, Others
  <2>5. alerts' \subseteq Alert!Records /\ cards' \subseteq Alert!Records /\ direct' \subseteq Alert!Records
    BY <2>3, <2>4, WriteTypes
  <2>6. guess' \subseteq Alert!Keys
    BY <2>1, <2>4 DEF Alert!Keys, Alert!TypeOK
  <2> QED BY <1>9, <2>4, <2>5, <2>6 DEF Alert!CopyDone, Alert!hub, Alert!net, Alert!TypeOK
<1>10. ASSUME NEW c \in copies, NEW p \in c.posts, Alert!HandlePost(c, p) PROVE Alert!TypeOK'
  <2>1. c \in Alert!RunningCopies /\ p \in Alert!Posts
    BY DEF Alert!TypeOK, Alert!RunningCopies
  <2> DEFINE there == {a \in aDb : Alert!KeyOf(a) = p.key}
             new == [sys |-> p.key[1], name |-> p.key[2], val |-> p.val,
                     on |-> \E a \in there : a.on]
  <2>2. new \in Alert!Records
    BY <2>1 DEF Alert!Posts, Alert!Keys, Alert!Records
  <2>3. \/ Alert!Put(new)
        \/ \E a \in aDb : Alert!Remove(a)
        \/ UNCHANGED <<aDb, aWire, aMissed>>
    BY <1>10 DEF Alert!HandlePost
  <2> HIDE DEF new
  <2>4. aDb' \subseteq Alert!Records /\ aWire' \in Seq(Alert!Messages) /\ aMissed' \subseteq Alert!Keys
    BY <2>2, <2>3, ChangeTypes DEF Alert!TypeOK
  <2>5. \A x \in copies' : x \in Alert!RunningCopies
    <3>1. [c EXCEPT !.posts = @ \ {p}] \in Alert!RunningCopies
      BY <2>1 DEF Alert!RunningCopies
    <3> QED BY <1>10, <3>1 DEF Alert!HandlePost, Alert!Live, Alert!TypeOK
  <2> QED BY <1>10, <2>4, <2>5 DEF Alert!HandlePost, Alert!store, Alert!TypeOK
<1>11. ASSUME NEW c \in copies, NEW p \in c.posts, Alert!PostFails(c, p) PROVE Alert!TypeOK'
  <2>1. [c EXCEPT !.posts = @ \ {p}, !.ok = FALSE] \in Alert!RunningCopies
    BY DEF Alert!TypeOK, Alert!RunningCopies
  <2>2. \A x \in copies' : x \in Alert!RunningCopies
    BY <1>11, <2>1 DEF Alert!PostFails, Alert!Live, Alert!TypeOK
  <2> QED BY <1>11, <2>2 DEF Alert!PostFails, Alert!hub, Alert!store, Alert!net, Alert!TypeOK
<1>12. CASE UNCHANGED Alert!vars
  BY <1>12 DEF Alert!vars, Alert!hub, Alert!store, Alert!net, Alert!TypeOK
<1> QED BY <1>1, <1>2, <1>3, <1>4, <1>5, <1>6, <1>7, <1>8, <1>9, <1>10, <1>11, <1>12, AlertNextCases

\* The store, the batch and the copies stay well-formed; in particular a batch
\* never has two messages for one alert.
THEOREM AlertTypeCorrect == ASSUME Alert!StoreConstants PROVE Alert!Spec => []Alert!TypeOK
<1>1. Alert!Init => Alert!TypeOK
  BY DEF Alert!Init, Alert!TypeOK
<1>2. Alert!TypeOK /\ [Alert!Next]_(Alert!vars) => Alert!TypeOK'
  BY TypeStep
<1> QED BY <1>1, <1>2, PTL DEF Alert!Spec

-----------------------------------------------------------------------------
(* BatchLossless.                                                          *)

\* Messages come only from a subscription, so that the list is applied before
\* there is a batch.
NoBatchBefore == aPhase \in {"fetch", "refresh", "subscribe", "failed"} => aWire = <<>> /\ batch = {}

BatchInv == /\ aPhase \in {"fetch", "refresh", "subscribe", "failed", "live"}
            /\ NoBatchBefore
            /\ Alert!BatchLossless

\* What the hub announces leaves the browser alone, and is sent to a subscriber
\* only.
LEMMA AnnounceKeeps ==
    ASSUME NEW action, NEW a, Alert!Announce(action, a), NoBatchBefore,
           UNCHANGED <<batch, aPhase>>
    PROVE  NoBatchBefore'
BY DEF Alert!Announce, NoBatchBefore

\* Every step keeps the invariant.
LEMMA BatchStep == Alert!TypeOK /\ BatchInv /\ [Alert!Next]_(Alert!vars) => BatchInv'
<1> SUFFICES ASSUME Alert!TypeOK, BatchInv, [Alert!Next]_(Alert!vars) PROVE BatchInv'
  OBVIOUS
<1> USE DEF BatchInv
<1>1. CASE Alert!fetchAlerts
  BY <1>1 DEF Alert!fetchAlerts, Alert!store, NoBatchBefore, Alert!BatchLossless
<1>2. CASE Alert!FetchFails
  BY <1>2 DEF Alert!FetchFails, Alert!store, NoBatchBefore, Alert!BatchLossless
<1>3. CASE Alert!refresh
  <2> DEFINE all == {[action |-> "create", record |-> a] : a \in aAnswer}
  <2>1. batch = {} /\ batch' = {} /\ aWire' = <<>> /\ aPhase' = "subscribe" /\ guess' = guess
    BY <1>3 DEF Alert!refresh, NoBatchBefore
  <2>2. alerts' = Alert!Applied(alerts, all) /\ direct' = Alert!Applied(direct, all)
    BY <1>3 DEF Alert!refresh, Alert!Write
  <2>3. ASSUME NEW k \in Alert!Keys \ guess
        PROVE  Alert!At(Alert!Applied(alerts', {}), k) = Alert!At(direct', k)
    <3>1. Alert!At(alerts, k) = Alert!At(direct, k)
      BY <2>1, AppliedAt DEF Alert!BatchLossless, Alert!KeysOf, Alert!Records4
    <3>2. Alert!At(Alert!Applied(alerts', {}), k) = Alert!At(alerts', k)
      BY AppliedAt DEF Alert!KeysOf, Alert!Records4
    <3> QED BY <2>2, <3>1, <3>2, AppliedAt
  <2> QED BY <2>1, <2>3 DEF NoBatchBefore, Alert!BatchLossless
<1>4. CASE Alert!subscribe
  BY <1>4 DEF Alert!subscribe, Alert!store, NoBatchBefore, Alert!BatchLossless
<1>5. CASE Alert!Deliver
  <2> DEFINE m == Head(aWire)
  <2>1. /\ aWire # <<>> /\ batch' = Alert!Collect(batch, m) /\ direct' = Alert!Applied(direct, {m})
        /\ guess' = guess \ {Alert!KeyOf(m.record)} /\ alerts' = alerts /\ aPhase' = aPhase
    BY <1>5 DEF Alert!Deliver
  <2>2. aPhase = "live"
    BY <2>1 DEF NoBatchBefore
  <2> HIDE DEF m
  <2>3. ASSUME NEW k \in Alert!Keys \ guess'
        PROVE  Alert!At(Alert!Applied(alerts, Alert!Collect(batch, m)), k) = Alert!At(Alert!Applied(direct, {m}), k)
    <3>1. CASE k = Alert!KeyOf(m.record)
      BY <3>1, CollectOwn
    <3>2. CASE k # Alert!KeyOf(m.record)
      <4>1. Alert!At(Alert!Applied(alerts, batch), k) = Alert!At(direct, k)
        BY <2>1, <2>3, <3>2 DEF Alert!BatchLossless
      <4> QED BY <3>2, <4>1, CollectOther, AppliedOther
    <3> QED BY <3>1, <3>2
  <2> QED BY <2>1, <2>2, <2>3 DEF NoBatchBefore, Alert!BatchLossless
<1>6. CASE Alert!Flush
  <2>1. /\ alerts' = Alert!Applied(alerts, batch) /\ batch' = {} /\ aPhase' = aPhase /\ aWire' = aWire
        /\ guess' = guess /\ direct' = direct
    BY <1>6 DEF Alert!Flush, Alert!Write, Alert!net
  <2>2. \A k : Alert!At(Alert!Applied(alerts', {}), k) = Alert!At(alerts', k)
    BY AppliedAt DEF Alert!KeysOf, Alert!Records4
  <2> QED BY <2>1, <2>2 DEF NoBatchBefore, Alert!BatchLossless
<1>7. CASE Alert!HubChange
  <2>1. UNCHANGED <<alerts, batch, guess, direct, aPhase>>
    BY <1>7 DEF Alert!HubChange, Alert!store
  <2>2. \E act, a : Alert!Announce(act, a)
    BY <1>7 DEF Alert!HubChange, Alert!Put, Alert!Remove
  <2> QED BY <2>1, <2>2, AnnounceKeeps DEF Alert!BatchLossless
<1>8. CASE \E c \in Copies : Alert!CopyStart(c[1], c[2])
  BY <1>8 DEF Alert!CopyStart, Alert!store, Alert!net, NoBatchBefore, Alert!BatchLossless
<1>9. ASSUME NEW c \in copies, Alert!CopyDone(c) PROVE BatchInv'
  <2> DEFINE new == {[a EXCEPT !.sys = c.target, !.on = FALSE] : a \in c.source}
             Others(s) == {a \in s : a.sys # c.target}
  <2>1. /\ alerts' = Others(alerts) \cup new /\ direct' = Others(direct) \cup new
        /\ guess' = guess \cup ({c.target} \X AlertNames)
        /\ batch' = batch /\ aWire' = aWire /\ aPhase' = aPhase
    BY <1>9 DEF Alert!CopyDone, Alert!Write, Alert!net
  <2> HIDE DEF new
  <2>2. ASSUME NEW k \in Alert!Keys \ guess'
        PROVE  Alert!At(Alert!Applied(alerts', batch), k) = Alert!At(direct', k)
    <3>1. k \in Alert!Keys \ guess /\ k[1] # c.target
      BY <2>1 DEF Alert!Keys
    <3>2. \A s : Alert!At(Others(s) \cup new, k) = Alert!At(s, k) \cup Alert!At(new, k)
      BY <3>1 DEF Alert!At, Alert!KeyOf
    <3>3. Alert!At(new, k) = {}
      <4>1. c.target \in Systems /\ c.source \subseteq Alert!Records
        BY DEF Alert!TypeOK, Alert!RunningCopies
      <4>2. \A x \in new : x.sys = c.target
        BY <4>1 DEF new, Alert!Records
      <4> QED BY <3>1, <4>2 DEF Alert!At, Alert!KeyOf
    <3>4. Alert!At(Alert!Applied(alerts, batch), k) = Alert!At(direct, k)
      BY <3>1 DEF Alert!BatchLossless
    <3> QED BY <2>1, <3>2, <3>3, <3>4, AppliedAt
  <2> QED BY <2>1, <2>2 DEF NoBatchBefore, Alert!BatchLossless
<1>10. ASSUME NEW c \in copies, NEW p \in c.posts, Alert!HandlePost(c, p) PROVE BatchInv'
  <2>1. UNCHANGED <<alerts, batch, guess, direct, aPhase>>
    BY <1>10 DEF Alert!HandlePost, Alert!store
  <2>2. (\E act, a : Alert!Announce(act, a)) \/ UNCHANGED aWire
    BY <1>10 DEF Alert!HandlePost, Alert!Put, Alert!Remove
  <2> QED BY <2>1, <2>2, AnnounceKeeps DEF Alert!BatchLossless, NoBatchBefore
<1>11. ASSUME NEW c \in copies, NEW p \in c.posts, Alert!PostFails(c, p) PROVE BatchInv'
  BY <1>11 DEF Alert!PostFails, Alert!store, Alert!net, NoBatchBefore, Alert!BatchLossless
<1>12. CASE UNCHANGED Alert!vars
  BY <1>12 DEF Alert!vars, Alert!store, Alert!net, NoBatchBefore, Alert!BatchLossless
<1> QED BY <1>1, <1>2, <1>3, <1>4, <1>5, <1>6, <1>7, <1>8, <1>9, <1>10, <1>11, <1>12, AlertNextCases

\* Collecting the messages of 50 ms and applying them by kind gives, for every
\* alert, what applying each at its arrival would have given, but for what a
\* copy wrote optimistically.
THEOREM AlertBatchLossless == ASSUME Alert!StoreConstants PROVE Alert!Spec => []Alert!BatchLossless
<1>1. Alert!Init => BatchInv
  <2>1. \A k : Alert!At(Alert!Applied({}, {}), k) = Alert!At({}, k)
    BY AppliedAt DEF Alert!KeysOf, Alert!Records4
  <2> QED BY <2>1 DEF Alert!Init, BatchInv, NoBatchBefore, Alert!BatchLossless
<1>2. Alert!TypeOK /\ BatchInv /\ [Alert!Next]_(Alert!vars) => BatchInv'
  BY BatchStep
<1>3. BatchInv => Alert!BatchLossless
  BY DEF BatchInv
<1> QED BY <1>1, <1>2, <1>3, AlertTypeCorrect, PTL DEF Alert!Spec

-----------------------------------------------------------------------------
(* Synced.                                                                 *)

\* Message n of w is the last one about key k, and no message of w is about k.
Last(w, n, k) == /\ n \in 1 .. Len(w) /\ Alert!KeyOf(w[n].record) = k
                 /\ \A j \in 1 .. Len(w) : j > n => Alert!KeyOf(w[j].record) # k
Silent(w, k) == \A n \in 1 .. Len(w) : Alert!KeyOf(w[n].record) # k

\* The messages that are left when the first one is delivered.
LEMMA TailLast ==
    ASSUME NEW w \in Seq(Alert!Messages), w # <<>>, NEW k
    PROVE  /\ \A n \in Nat : Last(Tail(w), n, k) => Last(w, n + 1, k) /\ Tail(w)[n] = w[n + 1]
           /\ Silent(Tail(w), k) => IF Alert!KeyOf(Head(w).record) = k THEN Last(w, 1, k) ELSE Silent(w, k)
<1>1. /\ Len(w) \in Nat /\ Len(w) > 0 /\ Len(Tail(w)) = Len(w) - 1 /\ Head(w) = w[1]
      /\ \A n \in 1 .. Len(w) - 1 : Tail(w)[n] = w[n + 1]
  OBVIOUS
<1>2. ASSUME NEW n \in Nat, Last(Tail(w), n, k)
      PROVE  Last(w, n + 1, k) /\ Tail(w)[n] = w[n + 1]
  <2>1. n \in 1 .. Len(w) - 1 /\ Tail(w)[n] = w[n + 1] /\ n + 1 \in 1 .. Len(w)
    BY <1>1, <1>2 DEF Last
  <2>2. ASSUME NEW j \in 1 .. Len(w), j > n + 1 PROVE Alert!KeyOf(w[j].record) # k
    <3>1. j - 1 \in 1 .. Len(w) - 1 /\ j - 1 > n /\ (j - 1) + 1 = j
      BY <2>1, <2>2
    <3>2. Tail(w)[j - 1] = w[j]
      BY <1>1, <3>1
    <3> QED BY <1>1, <1>2, <3>1, <3>2 DEF Last
  <2> QED BY <1>2, <2>1, <2>2 DEF Last
<1>3. ASSUME Silent(Tail(w), k), NEW j \in 2 .. Len(w) PROVE Alert!KeyOf(w[j].record) # k
  <2>1. j - 1 \in 1 .. Len(w) - 1 /\ (j - 1) + 1 = j
    BY <1>1
  <2>2. Tail(w)[j - 1] = w[j]
    BY <1>1, <2>1
  <2> QED BY <1>1, <1>3, <2>1, <2>2 DEF Silent
<1>4. \A j \in 1 .. Len(w) : j = 1 \/ j \in 2 .. Len(w)
  BY <1>1
<1> QED BY <1>1, <1>2, <1>3, <1>4 DEF Last, Silent

\* The messages when one more is sent.
Sent(w, m) == Append(w, m)

LEMMA AppendLast ==
    ASSUME NEW w \in Seq(Alert!Messages), NEW m \in Alert!Messages, NEW k
    PROVE  /\ \A n \in Nat : Last(Sent(w, m), n, k) =>
                  /\ Alert!KeyOf(m.record) = k => Sent(w, m)[n] = m
                  /\ Alert!KeyOf(m.record) # k => Last(w, n, k) /\ Sent(w, m)[n] = w[n]
           /\ Silent(Sent(w, m), k) => Alert!KeyOf(m.record) # k /\ Silent(w, k)
<1> DEFINE v == Sent(w, m)
<1>1. /\ Len(w) \in Nat /\ Len(v) = Len(w) + 1 /\ v[Len(w) + 1] = m
      /\ \A n \in 1 .. Len(w) : v[n] = w[n] /\ n \in 1 .. Len(v) /\ n < Len(v)
  BY DEF Sent
<1> HIDE DEF v
<1>2. ASSUME NEW n \in Nat, Last(v, n, k)
      PROVE  /\ Alert!KeyOf(m.record) = k => v[n] = m
             /\ Alert!KeyOf(m.record) # k => Last(w, n, k) /\ v[n] = w[n]
  <2>1. n \in 1 .. Len(w) \/ n = Len(w) + 1
    BY <1>1, <1>2 DEF Last
  <2>2. Len(v) \in 1 .. Len(v)
    BY <1>1
  <2> QED BY <1>1, <1>2, <2>1, <2>2 DEF Last
<1>3. Silent(v, k) => Alert!KeyOf(m.record) # k /\ Silent(w, k)
  BY <1>1 DEF Silent
<1> QED BY <1>2, <1>3 DEF v

\* The hub has one alert for a key.  Before the list is applied the store is
\* empty, and the list is as new as what the browser will hear of.  Afterwards
\* the last message about a key, or the store if there is none, is as new.
OneOfKey == \A a, b \in aDb : Alert!KeyOf(a) = Alert!KeyOf(b) => a = b
Empty == aPhase \in {"fetch", "refresh"} => direct = {} /\ alerts = {} /\ copies = {}
Listed == aPhase = "refresh" => \A k \in Alert!Keys \ aMissed : Alert!At(aAnswer, k) = Alert!At(aDb, k)
Told == aPhase \in {"subscribe", "live"} => \A k \in Alert!Keys \ aMissed :
            /\ \A n \in Nat : Last(aWire, n, k) => Alert!At(aDb, k) = Puts({aWire[n]}, k)
            /\ Silent(aWire, k) /\ k \notin guess => Alert!At(direct, k) = Alert!At(aDb, k)
SyncInv == OneOfKey /\ Empty /\ Listed /\ Told

\* A change at the hub that is announced, or marked as missed, keeps the
\* invariant.
LEMMA ChangeSync ==
    ASSUME Alert!TypeOK, BatchInv, SyncInv, UNCHANGED <<alerts, direct, guess, aPhase, aAnswer>>,
           copies = {} => copies' = {},
           NEW act \in {"create", "update", "delete"}, NEW a \in Alert!Records, Alert!Announce(act, a),
           OneOfKey',
           \A k \in Alert!Keys : Alert!At(aDb', k) = IF k = Alert!KeyOf(a) THEN Puts({[action |-> act, record |-> a]}, k)
                                                        ELSE Alert!At(aDb, k)
    PROVE  SyncInv'
<1> DEFINE m == [action |-> act, record |-> a]
<1>0. m \in Alert!Messages /\ m.record = a /\ aWire \in Seq(Alert!Messages)
  BY DEF Alert!Messages, Alert!TypeOK
<1>1. CASE aPhase = "live"
  <2>1. aWire' = Append(aWire, m) /\ aMissed' = aMissed \ {Alert!KeyOf(a)}
    BY <1>1 DEF Alert!Announce
  <2> HIDE DEF m
  <2>2. ASSUME NEW k \in Alert!Keys \ aMissed'
        PROVE  /\ \A n \in Nat : Last(aWire', n, k) => Alert!At(aDb', k) = Puts({aWire'[n]}, k)
               /\ Silent(aWire', k) /\ k \notin guess => Alert!At(direct, k) = Alert!At(aDb', k)
    <3>1. CASE k = Alert!KeyOf(a)
      <4>1. Alert!At(aDb', k) = Puts({m}, k)
        BY <3>1 DEF m
      <4>2. Alert!KeyOf(m.record) = k /\ aWire' = Sent(aWire, m)
        BY <1>0, <2>1, <3>1 DEF Sent
      <4>3. \A n \in Nat : Last(Sent(aWire, m), n, k) => Sent(aWire, m)[n] = m
        BY <1>0, <4>2, AppendLast
      <4>4. ~Silent(Sent(aWire, m), k)
        BY <1>0, <4>2, AppendLast
      <4> QED BY <4>1, <4>2, <4>3, <4>4
    <3>2. CASE k # Alert!KeyOf(a)
      <4>1. k \in Alert!Keys \ aMissed
        BY <2>1, <2>2, <3>2
      <4>2. Alert!At(aDb', k) = Alert!At(aDb, k)
        BY <3>2
      <4>3. /\ \A n \in Nat : Last(aWire, n, k) => Alert!At(aDb, k) = Puts({aWire[n]}, k)
            /\ Silent(aWire, k) /\ k \notin guess => Alert!At(direct, k) = Alert!At(aDb, k)
        BY <1>1, <4>1 DEF SyncInv, Told
      <4>4. /\ \A n \in Nat : Last(aWire', n, k) => Last(aWire, n, k) /\ aWire'[n] = aWire[n]
            /\ Silent(aWire', k) => Silent(aWire, k)
        <5>1. Alert!KeyOf(m.record) # k /\ aWire' = Sent(aWire, m)
          BY <1>0, <2>1, <3>2 DEF Sent
        <5>2. /\ \A n \in Nat : Last(Sent(aWire, m), n, k) =>
                     Last(aWire, n, k) /\ Sent(aWire, m)[n] = aWire[n]
              /\ Silent(Sent(aWire, m), k) => Silent(aWire, k)
          BY <1>0, <5>1, AppendLast
        <5> QED BY <5>1, <5>2
      <4> QED BY <4>2, <4>3, <4>4
    <3> QED BY <3>1, <3>2
  <2> QED BY <1>1, <2>2 DEF SyncInv, Empty, Listed, Told
<1>2. CASE aPhase = "fetch"
  BY <1>2 DEF SyncInv, Empty, Listed, Told
<1>3. CASE aPhase \in {"refresh", "subscribe", "failed"}
  <2>1. aWire' = aWire /\ aMissed' = aMissed \cup {Alert!KeyOf(a)}
    BY <1>3 DEF Alert!Announce
  <2>2. \A k \in Alert!Keys \ aMissed' : k \in Alert!Keys \ aMissed /\ Alert!At(aDb', k) = Alert!At(aDb, k)
    BY <2>1
  <2> QED BY <1>3, <2>1, <2>2 DEF SyncInv, Empty, Listed, Told
<1> QED BY <1>1, <1>2, <1>3 DEF BatchInv

\* What one message puts.
LEMMA PutsOne ==
    ASSUME NEW act, NEW a, NEW k
    PROVE  Puts({[action |-> act, record |-> a]}, k)
               = IF act # "delete" /\ Alert!KeyOf(a) = k THEN {a} ELSE {}
<1> DEFINE m == [action |-> act, record |-> a]
<1>1. m.action = act /\ m.record = a
  OBVIOUS
<1> HIDE DEF m
<1>2. Puts({m}, k) = IF act # "delete" /\ Alert!KeyOf(a) = k THEN {a} ELSE {}
  BY <1>1 DEF Puts
<1> QED BY <1>2 DEF m

\* Put and Remove are such changes.
LEMMA PutSync ==
    ASSUME Alert!TypeOK, BatchInv, SyncInv, UNCHANGED <<alerts, direct, guess, aPhase, aAnswer>>,
           copies = {} => copies' = {}, NEW a \in Alert!Records, Alert!Put(a)
    PROVE  SyncInv'
<1>1. aDb' = {x \in aDb : Alert!KeyOf(x) # Alert!KeyOf(a)} \cup {a}
  BY DEF Alert!Put
<1>2. PICK act \in {"create", "update"} : Alert!Announce(act, a)
  BY DEF Alert!Put
<1>3. OneOfKey'
  BY <1>1 DEF SyncInv, OneOfKey
<1>4. \A k : Puts({[action |-> act, record |-> a]}, k) = IF k = Alert!KeyOf(a) THEN {a} ELSE {}
  BY <1>2, PutsOne
<1>5. \A k : Alert!At(aDb', k) = IF k = Alert!KeyOf(a) THEN {a} ELSE Alert!At(aDb, k)
  BY <1>1 DEF Alert!At
<1> QED BY <1>2, <1>3, <1>4, <1>5, ChangeSync

LEMMA RemoveSync ==
    ASSUME Alert!TypeOK, BatchInv, SyncInv, UNCHANGED <<alerts, direct, guess, aPhase, aAnswer>>,
           copies = {} => copies' = {}, NEW a \in aDb, Alert!Remove(a)
    PROVE  SyncInv'
<1>1. aDb' = aDb \ {a} /\ Alert!Announce("delete", a) /\ a \in Alert!Records
  BY DEF Alert!Remove, Alert!TypeOK
<1>2. OneOfKey'
  BY <1>1 DEF SyncInv, OneOfKey
<1>3. \A k : Puts({[action |-> "delete", record |-> a]}, k) = {}
  BY PutsOne
<1>4. \A k : Alert!At(aDb', k) = IF k = Alert!KeyOf(a) THEN {} ELSE Alert!At(aDb, k)
  BY <1>1 DEF Alert!At, SyncInv, OneOfKey
<1> QED BY <1>1, <1>2, <1>3, <1>4, ChangeSync

\* Every step keeps the invariant.
LEMMA SyncStep == Alert!TypeOK /\ BatchInv /\ SyncInv /\ [Alert!Next]_(Alert!vars) => SyncInv'
<1> SUFFICES ASSUME Alert!TypeOK, BatchInv, SyncInv, [Alert!Next]_(Alert!vars) PROVE SyncInv'
  OBVIOUS
<1>1. CASE Alert!fetchAlerts
  BY <1>1 DEF Alert!fetchAlerts, Alert!store, Alert!hub, SyncInv, OneOfKey, Empty, Listed, Told
<1>2. CASE Alert!FetchFails
  BY <1>2 DEF Alert!FetchFails, Alert!store, Alert!hub, SyncInv, OneOfKey, Empty, Listed, Told
<1>3. CASE Alert!refresh
  <2> DEFINE all == {[action |-> "create", record |-> a] : a \in aAnswer}
  <2>1. /\ direct = {} /\ direct' = Alert!Applied({}, all) /\ aPhase' = "subscribe" /\ aWire' = <<>>
        /\ UNCHANGED <<aDb, aMissed>>
    BY <1>3 DEF Alert!refresh, Alert!hub, SyncInv, Empty, BatchInv, NoBatchBefore
  <2>2. ASSUME NEW k PROVE Alert!At(Alert!Applied({}, all), k) = Alert!At(aAnswer, k)
    <3>0. /\ \A x \in all : x.action = "create" /\ x.record \in aAnswer
          /\ \A a \in aAnswer : \E x \in all : x.record = a
      <4>1. \A a \in aAnswer : [action |-> "create", record |-> a] \in all
        OBVIOUS
      <4>2. \A a \in aAnswer : \E x \in all : x.record = a
        <5> TAKE a \in aAnswer
        <5> WITNESS [action |-> "create", record |-> a] \in all
        <5> QED OBVIOUS
      <4> QED BY <4>2
    <3> HIDE DEF all
    <3>1. k \in Alert!KeysOf(Alert!Records4(all)) <=> \E a \in aAnswer : Alert!KeyOf(a) = k
      BY <3>0, KeysIn
    <3>2. Puts(all, k) = Alert!At(aAnswer, k)
      BY <3>0 DEF Puts, Alert!At
    <3>3. CASE k \in Alert!KeysOf(Alert!Records4(all))
      BY <3>2, <3>3, AppliedAt
    <3>4. CASE k \notin Alert!KeysOf(Alert!Records4(all))
      <4>1. Alert!At(aAnswer, k) = {} /\ Alert!At({}, k) = {}
        BY <3>1, <3>4 DEF Alert!At
      <4> QED BY <3>4, <4>1, AppliedAt
    <3> QED BY <3>3, <3>4
  <2> HIDE DEF all
  <2>3. \A k \in Alert!Keys \ aMissed : Alert!At(aAnswer, k) = Alert!At(aDb, k)
    BY <1>3 DEF Alert!refresh, SyncInv, Listed
  <2>4. \A n \in Nat : \A k : ~Last(<<>>, n, k)
    BY DEF Last
  <2> QED BY <2>1, <2>2, <2>3, <2>4 DEF SyncInv, OneOfKey, Empty, Listed, Told
<1>4. CASE Alert!subscribe
  BY <1>4 DEF Alert!subscribe, Alert!store, Alert!hub, SyncInv, OneOfKey, Empty, Listed, Told
<1>5. CASE Alert!Deliver
  <2> DEFINE m == Head(aWire)
  <2>1. /\ aWire # <<>> /\ aWire \in Seq(Alert!Messages) /\ aWire' = Tail(aWire) /\ m = aWire[1]
        /\ direct' = Alert!Applied(direct, {m}) /\ guess' = guess \ {Alert!KeyOf(m.record)}
        /\ UNCHANGED <<aDb, aPhase, aMissed>>
    BY <1>5 DEF Alert!Deliver, Alert!hub, Alert!TypeOK
  <2>2. aPhase = "live"
    BY <2>1 DEF BatchInv, NoBatchBefore
  <2>3. ASSUME NEW k \in Alert!Keys \ aMissed
        PROVE  /\ \A n \in Nat : Last(aWire', n, k) => Alert!At(aDb, k) = Puts({aWire'[n]}, k)
               /\ Silent(aWire', k) /\ k \notin guess' => Alert!At(direct', k) = Alert!At(aDb, k)
    <3>1. /\ \A n \in Nat : Last(aWire, n, k) => Alert!At(aDb, k) = Puts({aWire[n]}, k)
          /\ Silent(aWire, k) /\ k \notin guess => Alert!At(direct, k) = Alert!At(aDb, k)
      BY <2>2 DEF SyncInv, Told
    <3>2. \A n \in Nat : Last(aWire', n, k) => Alert!At(aDb, k) = Puts({aWire'[n]}, k)
      <4> DEFINE w == Tail(aWire)
      <4>1. \A n \in Nat : Last(w, n, k) => Last(aWire, n + 1, k) /\ w[n] = aWire[n + 1]
        BY <2>1, TailLast
      <4>2. aWire' = w
        BY <2>1
      <4> HIDE DEF w
      <4>3. ASSUME NEW n \in Nat, Last(w, n, k) PROVE Alert!At(aDb, k) = Puts({w[n]}, k)
        <5>1. n + 1 \in Nat /\ Last(aWire, n + 1, k) /\ w[n] = aWire[n + 1]
          BY <4>1, <4>3
        <5> QED BY <3>1, <5>1
      <4> QED BY <4>2, <4>3
    <3>3. ASSUME Silent(aWire', k), Alert!KeyOf(m.record) = k PROVE Alert!At(direct', k) = Alert!At(aDb, k)
      <4>1. Alert!At(aDb, k) = Puts({m}, k)
        BY <2>1, <3>1, <3>3, TailLast
      <4>2. k \in Alert!KeysOf(Alert!Records4({m}))
        BY <3>3, KeysIn
      <4> HIDE DEF m
      <4> QED BY <2>1, <4>1, <4>2, AppliedAt
    <3>4. ASSUME Silent(aWire', k), Alert!KeyOf(m.record) # k, k \notin guess' PROVE Alert!At(direct', k) = Alert!At(aDb, k)
      <4>1. Alert!At(direct, k) = Alert!At(aDb, k)
        BY <2>1, <3>1, <3>4, TailLast
      <4> HIDE DEF m
      <4>2. Alert!At(Alert!Applied(direct, {m}), k) = Alert!At(direct, k)
        BY <3>4, AppliedOther
      <4> QED BY <2>1, <4>1, <4>2
    <3> QED BY <3>2, <3>3, <3>4
  <2> HIDE DEF m
  <2> QED BY <2>1, <2>2, <2>3 DEF SyncInv, OneOfKey, Empty, Listed, Told
<1>6. CASE Alert!Flush
  BY <1>6 DEF Alert!Flush, Alert!Write, Alert!net, Alert!hub, SyncInv, OneOfKey, Empty, Listed, Told, BatchInv, NoBatchBefore
<1>7. CASE Alert!HubChange
  <2>1. UNCHANGED <<alerts, direct, guess, aPhase, aAnswer, copies>>
    BY <1>7 DEF Alert!HubChange, Alert!store
  <2>2. (\E a \in Alert!Records : Alert!Put(a)) \/ (\E a \in aDb : Alert!Remove(a))
    BY <1>7 DEF Alert!HubChange
  <2> QED BY <2>1, <2>2, PutSync, RemoveSync
<1>8. ASSUME NEW d \in Copies, Alert!CopyStart(d[1], d[2]) PROVE SyncInv'
  <2>1. aPhase \notin {"fetch", "refresh"}
    BY <1>8 DEF Alert!CopyStart, SyncInv, Empty
  <2>2. UNCHANGED <<aDb, Alert!store, Alert!net>>
    BY <1>8 DEF Alert!CopyStart
  <2> QED BY <2>1, <2>2 DEF Alert!store, Alert!net, SyncInv, OneOfKey, Empty, Listed, Told
<1>9. ASSUME NEW c \in copies, Alert!CopyDone(c) PROVE SyncInv'
  <2> DEFINE new == {[a EXCEPT !.sys = c.target, !.on = FALSE] : a \in c.source}
             Others(s) == {a \in s : a.sys # c.target}
  <2>1. aPhase \notin {"fetch", "refresh"}
    BY DEF SyncInv, Empty
  <2>2. /\ direct' = Others(direct) \cup new /\ guess' = guess \cup ({c.target} \X AlertNames)
        /\ UNCHANGED <<aDb, aWire, aPhase, aMissed>>
    BY <1>9 DEF Alert!CopyDone, Alert!net, Alert!hub
  <2>3. \A x \in new : x.sys = c.target
    BY DEF Alert!TypeOK, Alert!RunningCopies, Alert!Records
  <2> HIDE DEF new
  <2>4. ASSUME NEW k \in Alert!Keys, k \notin guess' PROVE k \notin guess /\ Alert!At(direct', k) = Alert!At(direct, k)
    <3>1. k \notin guess /\ k[1] # c.target
      BY <2>2, <2>4 DEF Alert!Keys
    <3> QED BY <2>2, <2>3, <3>1 DEF Alert!At, Alert!KeyOf
  <2> QED BY <2>1, <2>2, <2>4 DEF SyncInv, OneOfKey, Empty, Listed, Told
<1>10. ASSUME NEW c \in copies, NEW p \in c.posts, Alert!HandlePost(c, p) PROVE SyncInv'
  <2>1. UNCHANGED <<alerts, direct, guess, aPhase, aAnswer>>
    BY <1>10 DEF Alert!HandlePost, Alert!store
  <2>2. c \in Alert!RunningCopies /\ p \in Alert!Posts
    BY DEF Alert!TypeOK, Alert!RunningCopies
  <2>3. (\E a \in Alert!Records : Alert!Put(a)) \/ (\E a \in aDb : Alert!Remove(a)) \/ UNCHANGED <<aDb, aWire, aMissed>>
    BY <1>10, <2>2 DEF Alert!HandlePost, Alert!Posts, Alert!Keys, Alert!Records
  <2>4. CASE UNCHANGED <<aDb, aWire, aMissed>>
    BY <2>1, <2>4 DEF SyncInv, OneOfKey, Empty, Listed, Told
  <2> QED BY <2>1, <2>3, <2>4, PutSync, RemoveSync
<1>11. ASSUME NEW c \in copies, NEW p \in c.posts, Alert!PostFails(c, p) PROVE SyncInv'
  <2>1. aPhase \notin {"fetch", "refresh"}
    BY DEF SyncInv, Empty
  <2> QED BY <1>11, <2>1 DEF Alert!PostFails, Alert!hub, Alert!store, Alert!net, SyncInv, OneOfKey, Empty, Listed, Told
<1>12. CASE UNCHANGED Alert!vars
  BY <1>12 DEF Alert!vars, Alert!hub, Alert!store, Alert!net, SyncInv, OneOfKey, Empty, Listed, Told
<1> QED BY <1>1, <1>2, <1>3, <1>4, <1>5, <1>6, <1>7, <1>8, <1>9, <1>10, <1>11, <1>12, AlertNextCases

\* When every message has been applied the browser has, of every alert, what
\* the hub has, but for changes it was not told of and for what a copy wrote
\* optimistically, for any order of messages, timers, copies and failures.
THEOREM AlertSynced == ASSUME Alert!StoreConstants PROVE Alert!Spec => []Alert!Synced
<1>1. Alert!Init => BatchInv /\ SyncInv
  <2>1. \A k : Alert!At(Alert!Applied({}, {}), k) = Alert!At({}, k)
    BY AppliedAt DEF Alert!KeysOf, Alert!Records4
  <2> QED BY <2>1 DEF Alert!Init, BatchInv, NoBatchBefore, Alert!BatchLossless, SyncInv, OneOfKey, Empty,
                      Listed, Told
<1>2. Alert!TypeOK /\ BatchInv /\ SyncInv /\ [Alert!Next]_(Alert!vars) => (BatchInv /\ SyncInv)'
  BY BatchStep, SyncStep
<1>3. BatchInv /\ SyncInv => Alert!Synced
  <2> SUFFICES ASSUME BatchInv, SyncInv, aPhase = "live", aWire = <<>>, batch = {},
                      NEW k \in Alert!Keys \ (aMissed \cup guess)
               PROVE  Alert!At(alerts, k) = Alert!At(aDb, k)
    BY DEF Alert!Synced
  <2>1. Alert!At(Alert!Applied(alerts, {}), k) = Alert!At(alerts, k)
    BY AppliedAt DEF Alert!KeysOf, Alert!Records4
  <2>2. Alert!At(Alert!Applied(alerts, {}), k) = Alert!At(direct, k)
    BY DEF BatchInv, Alert!BatchLossless
  <2>3. Silent(aWire, k)
    BY DEF Silent
  <2>4. Alert!At(direct, k) = Alert!At(aDb, k)
    BY <2>3 DEF SyncInv, Told
  <2> QED BY <2>1, <2>2, <2>4
<1> QED BY <1>1, <1>2, <1>3, AlertTypeCorrect, PTL DEF Alert!Spec

-----------------------------------------------------------------------------
(* ActiveSystemsShown.                                                     *)

\* The instance counts like everybody else.
LEMMA AlertCardinality == ASSUME NEW S PROVE Alert!Cardinality(S) = Cardinality(S)
BY DEF Alert!Cardinality, Cardinality

LEMMA AlertFinite == ASSUME NEW S PROVE Alert!IsFiniteSet(S) <=> IsFiniteSet(S)
BY DEF Alert!IsFiniteSet, IsFiniteSet

\* There are finitely many alerts.
LEMMA RecordsFinite ==
    ASSUME Alert!StoreConstants
    PROVE  IsFiniteSet(Alert!Records)
<1> DEFINE product == (Systems \X AlertNames) \X (Vals \X BOOLEAN)
           f == [a \in Alert!Records |-> <<<<a.sys, a.name>>, <<a.val, a.on>>>>]
<1>1. IsFiniteSet(BOOLEAN)
  <2>1. IsFiniteSet({TRUE} \cup {FALSE})
    BY FS_Singleton, FS_Union
  <2>2. {TRUE} \cup {FALSE} = BOOLEAN
    OBVIOUS
  <2> QED BY <2>1, <2>2
<1>2. IsFiniteSet(Systems \X AlertNames) /\ IsFiniteSet(Vals \X BOOLEAN)
  BY <1>1, AlertFinite, FS_Product DEF Alert!StoreConstants
<1>3. IsFiniteSet(product)
  BY <1>2, FS_Product
<1>4. f \in [Alert!Records -> product]
  BY DEF Alert!Records
<1>5. \A a, b \in Alert!Records : f[a] = f[b] => a = b
  BY DEF Alert!Records
<1> HIDE DEF f, product
<1>6. f \in Injection(Alert!Records, product)
  BY <1>4, <1>5 DEF Injection, IsInjective
<1> QED BY <1>3, <1>6, FS_Injection

\* How many of the alerts s have system and setting k.
Tally(s, k) == Cardinality({a \in s : <<a.sys, a.val>> = k})

\* The rendered alerts have the key of the active ones.
CardsInv == \A k \in Systems \X Vals : Tally(cards, k) = Tally(Alert!Active(alerts), k)

LEMMA CardKeyAt ==
    ASSUME NEW s
    PROVE  Alert!CardKey(s) = [k \in Systems \X Vals |-> Tally(Alert!Active(s), k)]
BY AlertCardinality DEF Alert!CardKey, Tally

\* A write renders the card anew or has the key of what was rendered.
LEMMA WriteCards ==
    ASSUME CardsInv, NEW s, Alert!Write(s)
    PROVE  CardsInv'
<1>1. alerts' = s
  BY DEF Alert!Write
<1>2. CASE cards' = Alert!Active(s)
  BY <1>1, <1>2 DEF CardsInv, Alert!Active
<1>3. CASE Alert!CardKey(s) = Alert!CardKey(alerts) /\ cards' = cards
  <2>1. \A k \in Systems \X Vals : Tally(Alert!Active(s), k) = Tally(Alert!Active(alerts), k)
    BY <1>3, CardKeyAt
  <2>2. \A k \in Systems \X Vals : Tally(cards', k) = Tally(Alert!Active(s), k)
    BY <1>3, <2>1 DEF CardsInv
  <2> QED BY <1>1, <2>2 DEF CardsInv, Alert!Active
<1> QED BY <1>2, <1>3 DEF Alert!Write, Alert!Render

LEMMA CardsStep == CardsInv /\ [Alert!Next]_(Alert!vars) => CardsInv'
<1> SUFFICES ASSUME CardsInv, [Alert!Next]_(Alert!vars) PROVE CardsInv'
  OBVIOUS
<1>1. (\E s : Alert!Write(s)) \/ UNCHANGED <<alerts, cards>>
  <2>1. CASE Alert!refresh
    BY <2>1 DEF Alert!refresh
  <2>2. CASE Alert!Flush
    BY <2>2 DEF Alert!Flush
  <2>3. ASSUME NEW c \in copies, Alert!CopyDone(c) PROVE \E s : Alert!Write(s)
    BY <2>3 DEF Alert!CopyDone
  <2>4. CASE Alert!fetchAlerts \/ Alert!FetchFails \/ Alert!subscribe \/ Alert!Deliver \/ Alert!HubChange
    BY <2>4 DEF Alert!fetchAlerts, Alert!FetchFails, Alert!subscribe, Alert!Deliver, Alert!HubChange, Alert!store
  <2>5. ASSUME NEW c \in Copies, Alert!CopyStart(c[1], c[2]) PROVE UNCHANGED <<alerts, cards>>
    BY <2>5 DEF Alert!CopyStart, Alert!store
  <2>6. ASSUME NEW c \in copies, NEW q \in c.posts, Alert!HandlePost(c, q) \/ Alert!PostFails(c, q)
        PROVE  UNCHANGED <<alerts, cards>>
    BY <2>6 DEF Alert!HandlePost, Alert!PostFails, Alert!store
  <2>7. CASE UNCHANGED Alert!vars
    BY <2>7 DEF Alert!vars, Alert!store
  <2> QED BY <2>1, <2>2, <2>3, <2>4, <2>5, <2>6, <2>7, AlertNextCases
<1>2. CASE UNCHANGED <<alerts, cards>>
  BY <1>2 DEF CardsInv, Alert!Active
<1> QED BY <1>1, <1>2, WriteCards

\* Finite sets of alerts with the same key have alerts of the same systems.
LEMMA SameSystems ==
    ASSUME NEW s \in SUBSET Alert!Records, NEW t \in SUBSET Alert!Records, IsFiniteSet(Alert!Records),
           \A k \in Systems \X Vals : Tally(s, k) = Tally(t, k), NEW a \in s
    PROVE  \E b \in t : b.sys = a.sys
<1> DEFINE k == <<a.sys, a.val>>
           In(u) == {x \in u : <<x.sys, x.val>> = k}
<1>1. k \in Systems \X Vals
  BY DEF Alert!Records
<1>2. In(s) \in SUBSET Alert!Records /\ In(t) \in SUBSET Alert!Records /\ a \in In(s)
  OBVIOUS
<1>3. Cardinality(In(s)) = Cardinality(In(t))
  BY <1>1 DEF Tally
<1>4. \A b \in In(t) : b \in t /\ b.sys = a.sys
  OBVIOUS
<1> HIDE DEF In
<1>5. IsFiniteSet(In(s)) /\ IsFiniteSet(In(t))
  BY <1>2, FS_Subset
<1>6. In(t) # {}
  BY <1>2, <1>3, <1>5, FS_EmptySet
<1> QED BY <1>4, <1>6

\* The card that was not rendered anew, because its key stayed, still names
\* exactly the systems that have active alerts (active-alerts.tsx, alertsKey).
THEOREM AlertActiveSystems == ASSUME Alert!StoreConstants PROVE Alert!Spec => []Alert!ActiveSystemsShown
<1>1. Alert!Init => CardsInv
  BY DEF Alert!Init, CardsInv, Alert!Active
<1>2. CardsInv /\ [Alert!Next]_(Alert!vars) => CardsInv'
  BY CardsStep
<1>3. Alert!TypeOK /\ CardsInv => Alert!ActiveSystemsShown
  <2> SUFFICES ASSUME Alert!TypeOK, CardsInv PROVE Alert!ActiveSystemsShown
    OBVIOUS
  <2>1. cards \in SUBSET Alert!Records /\ Alert!Active(alerts) \in SUBSET Alert!Records
    BY DEF Alert!TypeOK, Alert!Active
  <2>2. IsFiniteSet(Alert!Records)
    BY RecordsFinite
  <2>3. \A k \in Systems \X Vals : Tally(cards, k) = Tally(Alert!Active(alerts), k)
    BY DEF CardsInv
  <2>4. \A a \in cards : \E b \in Alert!Active(alerts) : b.sys = a.sys
    BY <2>1, <2>2, <2>3, SameSystems
  <2>5. \A a \in Alert!Active(alerts) : \E b \in cards : b.sys = a.sys
    <3>1. \A k \in Systems \X Vals : Tally(Alert!Active(alerts), k) = Tally(cards, k)
      BY <2>3
    <3> QED BY <2>1, <2>2, <3>1, SameSystems
  <2> QED BY <2>4, <2>5 DEF Alert!ActiveSystemsShown
<1> QED BY <1>1, <1>2, <1>3, AlertTypeCorrect, PTL DEF Alert!Spec
-----------------------------------------------------------------------------
(* The composition.                                                        *)

\* A step of the composition is a step of a store or leaves it alone.
LEMMA ImplementsSys == Spec => Sys!Spec
<1>1. Init => Sys!Init
  BY DEF Init
<1>2. [Next]_vars => [Sys!Next]_(Sys!vars)
  BY DEF Next, vars, SysOnly, AlertOnly, systemVars, Sys!vars, Sys!hub, Sys!stores, Sys!net
<1> QED BY <1>1, <1>2, PTL DEF Spec, Sys!Spec

LEMMA ImplementsAlert == Spec => Alert!Spec
<1>1. Init => Alert!Init
  BY DEF Init
<1>2. [Next]_vars => [Alert!Next]_(Alert!vars)
  BY DEF Next, vars, SysOnly, AlertOnly, alertVars, Alert!vars, Alert!hub, Alert!store, Alert!net
<1> QED BY <1>1, <1>2, PTL DEF Spec, Alert!Spec

\* What StoresAssumption gives the theorems of each store.
LEMMA Constants == Sys!StoreConstants /\ Alert!StoreConstants
BY StoresAssumption

\* The copies of a system's record that the browser keeps agree after every
\* list, realtime message and loss of the connection: the up, down and paused
\* stores, the name store, the favicon and the width of the name column
\* (systemsManager.ts, the listener of $allSystemsById, update and remove).
THEOREM StoresAgreeTheorem == Spec => []StoresAgree
<1>1. Sys!Spec => []Sys!TypeOK
  BY Constants, SystemTypeCorrect
<1>2. Sys!Spec => []Sys!StoresAgree
  BY Constants, SystemStoresAgree
<1>3. Alert!Spec => []Alert!TypeOK
  BY Constants, AlertTypeCorrect
<1>4. Sys!TypeOK /\ Sys!StoresAgree /\ Alert!TypeOK => StoresAgree
  BY DEF StoresAgree, TypeOK
<1> QED BY <1>1, <1>2, <1>3, <1>4, ImplementsSys, ImplementsAlert, PTL

\* When no message is on its way the browser has of every system and every alert
\* what the hub announced last, but for changes it was not told of and alerts a
\* copy wrote optimistically (systemsManager.ts and alerts.ts, refresh and
\* subscribe).
THEOREM SyncedTheorem == Spec => []Synced
<1>1. Sys!Spec => []Sys!Synced
  BY Constants, SystemSynced
<1>2. Alert!Spec => []Alert!Synced
  BY Constants, AlertSynced
<1>3. Sys!Synced /\ Alert!Synced => Synced
  BY DEF Synced
<1> QED BY <1>1, <1>2, <1>3, ImplementsSys, ImplementsAlert, PTL

\* Collecting alert messages and applying the last one for each key gives what
\* applying them one by one gives (alerts.ts, batchUpdate).
THEOREM BatchLosslessTheorem == Spec => []BatchLossless
<1>1. Alert!Spec => []Alert!BatchLossless
  BY Constants, AlertBatchLossless
<1>2. Alert!BatchLossless => BatchLossless
  BY DEF BatchLossless
<1> QED BY <1>1, <1>2, ImplementsAlert, PTL

\* The Active Alerts card names exactly the systems that have active alerts,
\* rendered anew or not (active-alerts.tsx, alertsKey).
THEOREM ActiveSystemsTheorem == Spec => []ActiveSystemsShown
<1>1. Alert!Spec => []Alert!ActiveSystemsShown
  BY Constants, AlertActiveSystems
<1>2. Alert!ActiveSystemsShown => ActiveSystemsShown
  BY DEF ActiveSystemsShown
<1> QED BY <1>1, <1>2, ImplementsAlert, PTL
=============================================================================
