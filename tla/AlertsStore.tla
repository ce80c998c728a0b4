----------------------------- MODULE AlertsStore -----------------------------
(***************************************************************************)
(* The browser's copy of the alerts collection (lib/alerts.ts): the list,  *)
(* the realtime messages that are collected for 50 ms and applied as a     *)
(* batch, the optimistic write of "Copy from" in the alerts sheet, and     *)
(* what the Active Alerts card shows of it.                                *)
(*                                                                         *)
(* $alerts is the set of the records in it; a record's place in it is its  *)
(* system and its name.  val stands for the value and the minutes.         *)
(***************************************************************************)
EXTENDS Naturals, FiniteSets, Sequences

CONSTANTS Systems,      \* ids of systems
          Names,        \* names of alerts
          Vals,         \* settings of an alert
          Copies,       \* pairs <<target, source>> the user may ask to copy
          MaxChanges    \* bound on the changes made at the hub and the copies begun

\* What is assumed of them.
StoreConstants == /\ MaxChanges \in Nat
                  /\ Copies \subseteq Systems \X Systems
                  /\ IsFiniteSet(Systems) /\ IsFiniteSet(Names) /\ IsFiniteSet(Vals)

Records == [sys : Systems, name : Names, val : Vals, on : BOOLEAN]
Keys == Systems \X Names
KeyOf(a) == <<a.sys, a.name>>

VARIABLES
    db,         \* the hub's collection
    alerts,     \* $alerts
    batch,      \* messages collected by batchUpdate; its timer runs if any
    phase,      \* how far the alerts part of App's effect has got
    answer,     \* the answer to fetchAlerts on its way to the browser
    wire,       \* realtime messages on their way to the browser
    missed,     \* keys whose last change the browser will not hear of
    copies,     \* copies that have requests in flight or wait for them
    guess,      \* keys written optimistically and not confirmed since
    direct,     \* what $alerts would be without batching
    cards,      \* the alerts on the rendered Active Alerts card
    changes     \* changes made and copies begun so far

hub == <<db, changes>>
store == <<alerts, batch, guess, direct, cards>>
net == <<phase, answer, wire, missed>>
vars == <<hub, store, net, copies>>

Messages == [action : {"create", "update", "delete"}, record : Records]
Posts == [method : {"POST", "DELETE"}, key : Keys, val : Vals]

\* ok: none of its requests has failed; source: the alerts at the click.
RunningCopies == [ok : BOOLEAN, target : Systems, source : SUBSET Records,
                  posts : SUBSET Posts]

TypeOK ==
    /\ db \subseteq Records /\ changes \in Nat
    /\ alerts \subseteq Records /\ direct \subseteq Records /\ cards \subseteq Records
    /\ batch \subseteq Messages
    /\ \A m, n \in batch : KeyOf(m.record) = KeyOf(n.record) => m = n
    /\ phase \in {"fetch", "refresh", "subscribe", "live", "failed"}
    /\ answer \subseteq Records
    /\ wire \in Seq(Messages)
    /\ missed \subseteq Keys /\ guess \subseteq Keys
    /\ \A c \in copies : c \in RunningCopies

Init ==
    /\ db \in {{}} \cup {{a} : a \in Records}
    /\ changes = 0
    /\ alerts = {} /\ batch = {} /\ guess = {} /\ direct = {} /\ cards = {}
    /\ phase = "fetch" /\ answer = {} /\ wire = <<>> /\ missed = {}
    /\ copies = {}

-----------------------------------------------------------------------------
(* Writing $alerts, and rendering the card.                                *)

KeysOf(s) == {KeyOf(a) : a \in s}
Records4(b) == {m.record : m \in b}

\* The groups of a batch, applied in the order create, update, delete.
AppliedDeletesFirst(s, b) ==    \* a bug: what is deleted is not taken out
    {a \in s : KeyOf(a) \notin KeysOf(Records4({m \in b : m.action # "delete"}))}
        \cup {m.record : m \in {x \in b : x.action # "delete"}}
Applied(s, b) ==
    {a \in s : KeyOf(a) \notin KeysOf(Records4(b))}
        \cup {m.record : m \in {x \in b : x.action # "delete"}}

Active(s) == {a \in s : a.on}

\* alertsKey: how many active alerts there are of each system and setting.
CardKeyWithoutSystem(s) ==    \* a bug: the system is left out of the key
    [v \in Vals |-> Cardinality({a \in Active(s) : a.val = v})]
CardKey(s) == [k \in Systems \X Vals |->
                  Cardinality({a \in Active(s) : <<a.sys, a.val>> = k})]

\* useMemo on the key, joined in the order of the maps: another key renders
\* the card anew, the same alerts in another order may.
Render(s) == \/ cards' = Active(s)
             \/ CardKey(s) = CardKey(alerts) /\ cards' = cards

Write(s) == alerts' = s /\ Render(s)

-----------------------------------------------------------------------------
(* App's effect, after the systems: refresh, then subscribe.               *)

fetchAlerts ==
    /\ phase = "fetch"
    /\ answer' = db
    /\ phase' = "refresh"
    /\ UNCHANGED <<hub, store, wire, missed, copies>>

\* A rejected refresh ends the chain: nothing is subscribed to.
FetchFails ==
    /\ phase = "fetch"
    /\ phase' = "failed"
    /\ UNCHANGED <<hub, store, answer, wire, missed, copies>>

refresh ==
    /\ phase = "refresh"
    /\ LET all == {[action |-> "create", record |-> a] : a \in answer}
       IN  Write(Applied(alerts, all)) /\ direct' = Applied(direct, all)
    /\ answer' = {}
    /\ phase' = "subscribe"
    /\ UNCHANGED <<hub, batch, guess, wire, missed, copies>>

subscribe ==
    /\ phase = "subscribe"
    /\ phase' \in {"live", "failed"}
    /\ UNCHANGED <<hub, store, answer, wire, missed, copies>>

-----------------------------------------------------------------------------
(* batchUpdate.                                                            *)

\* batch.set(key, data): the last message for a key is the one that counts.
CollectFirst(b, m) ==    \* a bug: the first message for a key counts
    IF KeyOf(m.record) \in KeysOf(Records4(b)) THEN b ELSE b \cup {m}
Collect(b, m) == {x \in b : KeyOf(x.record) # KeyOf(m.record)} \cup {m}

Deliver ==
    /\ wire # <<>>
    /\ LET m == Head(wire)
       IN  /\ batch' = Collect(batch, m)
           /\ direct' = Applied(direct, {m})
           /\ guess' = guess \ {KeyOf(m.record)}
    /\ wire' = Tail(wire)
    /\ UNCHANGED <<hub, alerts, cards, phase, answer, missed, copies>>

\* 50 ms without a message.
FlushNever == FALSE    \* a bug: the timer is cleared and not set again
Flush ==
    /\ batch # {}
    /\ Write(Applied(alerts, batch))
    /\ batch' = {}
    /\ UNCHANGED <<hub, guess, direct, net, copies>>

-----------------------------------------------------------------------------
(* The hub.                                                                *)

\* A message goes to those who have subscribed.
Announce(action, a) ==
    IF phase = "live"
    THEN /\ wire' = Append(wire, [action |-> action, record |-> a])
         /\ missed' = missed \ {KeyOf(a)}
    ELSE /\ missed' = IF phase = "fetch" THEN missed ELSE missed \cup {KeyOf(a)}
         /\ UNCHANGED wire

Put(a) == /\ db' = {x \in db : KeyOf(x) # KeyOf(a)} \cup {a}
          /\ Announce(IF KeyOf(a) \in KeysOf(db) THEN "update" ELSE "create", a)

Remove(a) == db' = db \ {a} /\ Announce("delete", a)

\* An alert triggers or is resolved, or somebody else edits it.
HubChange ==
    /\ changes < MaxChanges
    /\ changes' = changes + 1
    /\ \/ \E a \in Records \ db : (a.on => KeyOf(a) \in KeysOf(db)) /\ Put(a)
       \/ \E a \in db : Remove(a)
    /\ UNCHANGED <<store, phase, answer, copies>>

-----------------------------------------------------------------------------
(* copyAlertsFromSystem.                                                   *)

Live(s) == {c \in s : c.ok \/ c.posts # {}}

\* A request has the alert's name for its request key: one of the same name
\* that is still in flight is cancelled, which fails the copy it belongs to.
Cancelled(names) ==
    {IF \E p \in c.posts : p.key[2] \in names THEN [c EXCEPT !.ok = FALSE] ELSE c : c \in copies}

\* The store is read before the requests are sent.
CopyStart(t, s) ==
    LET source == {a \in alerts : a.sys = s}
        target == {a \in alerts : a.sys = t}
        posts == {[method |-> "POST", key |-> <<t, a.name>>, val |-> a.val] : a \in source}
                 \cup {[method |-> "DELETE", key |-> KeyOf(a), val |-> a.val] :
                          a \in {b \in target : <<s, b.name>> \notin KeysOf(source)}}
    IN  /\ changes < MaxChanges /\ changes' = changes + 1
        /\ t # s /\ source # {}
        /\ copies' = Live(Cancelled({p.key[2] : p \in posts}))
                     \cup {[ok |-> TRUE, target |-> t, source |-> source, posts |-> posts]}
        /\ UNCHANGED <<db, store, net>>

\* The hub handles one of the requests, a cancelled one perhaps.
HandlePost(c, p) ==
    LET there == {a \in db : KeyOf(a) = p.key}
    IN  /\ copies' = Live((copies \ {c}) \cup {[c EXCEPT !.posts = @ \ {p}]})
        /\ \/ /\ p.method = "POST"
              /\ Put([sys |-> p.key[1], name |-> p.key[2], val |-> p.val,
                      on |-> \E a \in there : a.on])
           \/ p.method = "DELETE" /\ \E a \in there : Remove(a)
           \/ p.method = "DELETE" /\ there = {} /\ UNCHANGED <<db, wire, missed>>
        /\ UNCHANGED <<changes, store, phase, answer>>

\* A request fails: Promise.all rejects at once, the store is left alone.
PostFails(c, p) ==
    /\ copies' = Live((copies \ {c}) \cup {[c EXCEPT !.posts = @ \ {p}, !.ok = FALSE]})
    /\ UNCHANGED <<hub, store, net>>

\* All requests succeeded: the target's alerts are set to copies of the
\* source's as they were at the click, none of them triggered.
CopyDone(c) ==
    LET new == {[a EXCEPT !.sys = c.target, !.on = FALSE] : a \in c.source}
        Others(s) == {a \in s : a.sys # c.target}
    IN  /\ c.ok /\ c.posts = {}
        /\ Write(Others(alerts) \cup new)
        /\ direct' = Others(direct) \cup new
        /\ guess' = guess \cup ({c.target} \X Names)
        /\ copies' = copies \ {c}
        /\ UNCHANGED <<hub, batch, net>>

-----------------------------------------------------------------------------
Mounting == fetchAlerts \/ FetchFails \/ refresh \/ subscribe
Copying == \/ \E c \in Copies : CopyStart(c[1], c[2])
           \/ \E c \in copies : CopyDone(c)
           \/ \E c \in copies : \E p \in c.posts : HandlePost(c, p) \/ PostFails(c, p)

Next == Mounting \/ Deliver \/ Flush \/ HubChange \/ Copying

Spec == Init /\ [][Next]_vars

-----------------------------------------------------------------------------
(* Properties.                                                             *)

At(s, k) == {a \in s : KeyOf(a) = k}

\* "batch alert updates to prevent unnecessary re-renders": applying what has
\* been collected gives what applying every message at once would have given,
\* whatever mix of messages fell into one batch.
BatchLossless == \A k \in Keys \ guess : At(Applied(alerts, batch), k) = At(direct, k)

\* When every message has been applied the browser has what the hub has, but
\* for changes it was not told of and for what a copy wrote optimistically.
Synced == phase = "live" /\ wire = <<>> /\ batch = {} =>
              \A k \in Keys \ (missed \cup guess) : At(alerts, k) = At(db, k)

\* "key to prevent re-rendering if alerts change but active alerts didn't":
\* a card that was not rendered anew still names exactly the systems that have
\* active alerts.
ActiveSystemsShown == {a.sys : a \in cards} = {a.sys : a \in Active(alerts)}

\* A message that arrived is applied, however many follow it.
BatchApplied == batch # {} ~> batch = {}
=============================================================================
