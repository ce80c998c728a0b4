--------------------------- MODULE RealtimeWorker ---------------------------
(***************************************************************************)
(* Realtime metrics: the table of active subscriptions, the request        *)
(* handlers that count clients in and out, and the worker goroutines that  *)
(* fetch every subscribed system once a second.  The handlers touch        *)
(* activeSubscriptions without a lock; only the start and the stop of the  *)
(* worker are mutex sections.                                              *)
(*                                                                         *)
(* Clients are counted, not named: clients[s] is the number of clients     *)
(* that PocketBase's broker has subscribed to system s.                    *)
(***************************************************************************)
EXTENDS Integers, FiniteSets

CONSTANTS Systems,      \* ids in the query of an "rt_metrics" subscription
          Known,        \* the systems GetSystem finds
          Handlers,     \* goroutines of subscribe and connect requests
          Workers,      \* worker goroutines; bounds the workers alive at once
          MaxClients,   \* bound on the clients of a system
          CountLimit,   \* connectedClients is a uint8: 256
          MaxOverlaps   \* bound on the requests that come during another one

None == "none"

ASSUME RealtimeAssumption == /\ Known \subseteq Systems
                             /\ None \notin Systems
                             /\ MaxClients \in Nat
                             /\ CountLimit \in Nat \ {0}
                             /\ MaxOverlaps \in Nat

VARIABLES
    clients,   \* the broker: clients subscribed to each system
    active,    \* the keys of activeSubscriptions
    count,     \* connectedClients of each entry
    running,   \* workerRunning
    job,       \* job[h]: what the handler h is doing
    worker,    \* worker[w]: where the worker w is
    overlaps,  \* requests since the hub started that came during another one
    fetching   \* systems whose data is being fetched and sent

table == <<clients, active, count>>
vars == <<clients, active, count, running, job, worker, fetching, overlaps>>

Idle == [pc |-> "idle", sys |-> None, adds |-> {}, rems |-> {}]
OnSystem == {"inc", "dec", "drop", "dropOrphan"}
Pcs == {"idle", "next", "added", "check", "stop"} \cup OnSystem

\* A worker waits for the stop channel of its last loop: once a new channel
\* was made, the one it waits for is an old one.
Places == {"none", "fetch", "wait", "waitOld"}

TypeOK ==
    /\ clients \in [Systems -> 0 .. MaxClients]
    /\ active \subseteq Systems
    /\ count \in [Systems -> 0 .. (CountLimit - 1)]
    /\ running \in BOOLEAN
    /\ job \in [Handlers -> [pc : Pcs, sys : Systems \cup {None},
                             adds : SUBSET Systems, rems : SUBSET Systems]]
    /\ \A h \in Handlers : job[h].pc \in OnSystem => job[h].sys \in Systems
    /\ worker \in [Workers -> Places]
    /\ overlaps \in Nat
    /\ fetching \subseteq Systems

Init ==
    /\ clients = [s \in Systems |-> 0]
    /\ active = {}
    /\ count = [s \in Systems |-> 0]
    /\ running = FALSE
    /\ job = [h \in Handlers |-> Idle]
    /\ worker = [w \in Workers |-> "none"]
    /\ fetching = {}
    /\ overlaps = 0

At(h, pc) == job[h].pc = pc
Goto(h, pc) == job' = [job EXCEPT ![h].pc = pc]
Busy == {h \in Handlers : ~At(h, "idle")}
Alive == {w \in Workers : worker[w] # "none"}
Quiet == Busy = {}

-----------------------------------------------------------------------------
(* Requests.                                                               *)

\* e.Next() changed the broker; the handler goes through the differences.
\* Every request in flight can still start a worker: the bound on workers.
Handle(h, adds, rems) ==
    /\ At(h, "idle")
    /\ overlaps' = IF Quiet THEN overlaps ELSE overlaps + 1
    /\ overlaps' <= MaxOverlaps
    /\ adds # {} => Cardinality(Workers \ Alive) > Cardinality(Busy)
    /\ \A s \in adds : clients[s] < MaxClients
    /\ \A s \in rems : clients[s] > 0
    /\ clients' = [s \in Systems |-> IF s \in adds THEN clients[s] + 1
                                     ELSE IF s \in rems THEN clients[s] - 1
                                     ELSE clients[s]]
    /\ job' = [job EXCEPT ![h] = [pc |-> "next", sys |-> None,
                                  adds |-> adds, rems |-> rems]]
    /\ UNCHANGED <<active, count, running, worker, fetching>>

onRealtimeSubscribeRequest(h) ==
    \E adds, rems \in SUBSET Systems :
        adds # {} /\ adds \cap rems = {} /\ Handle(h, adds, rems)

\* The client is gone; its subscriptions are removed.
onRealtimeConnectRequest(h) ==
    \E rems \in SUBSET Systems : rems # {} /\ Handle(h, {}, rems)

\* New subscriptions first: the entry is created if there is none.
AddNext(h) ==
    /\ At(h, "next")
    /\ \E s \in job[h].adds :
         /\ active' = active \cup {s}
         /\ count' = IF s \in active THEN count ELSE [count EXCEPT ![s] = 0]
         /\ job' = [job EXCEPT ![h].pc = "inc", ![h].sys = s]
    /\ UNCHANGED <<clients, running, worker, fetching, overlaps>>

\* Then the removed ones, and the request is done.
RemoveNext(h) ==
    /\ At(h, "next")
    /\ job[h].adds = {}
    /\ IF job[h].rems = {} THEN job' = [job EXCEPT ![h] = Idle]
       ELSE \E s \in job[h].rems :
              job' = [job EXCEPT ![h].pc = "dec", ![h].sys = s]
    /\ UNCHANGED <<clients, active, count, running, worker, fetching, overlaps>>

\* Another handler is changing the same counter: one of two updates that
\* overlap may be lost.
Raced(h) == \E k \in Handlers \ {h} :
                job[k].pc \in {"inc", "dec"} /\ job[k].sys = job[h].sys

Plus(n) == (n + 1) % CountLimit

\* connectedClients += 1.  The entry is looked up again: if another handler
\* deleted it meanwhile, the handler panics and the request ends here.
Increment(h) ==
    /\ At(h, "inc")
    /\ LET s == job[h].sys
       IN  IF s \notin active
           THEN /\ job' = [job EXCEPT ![h] = Idle]
                /\ UNCHANGED count
           ELSE /\ job' = [job EXCEPT ![h].pc = "added", ![h].adds = @ \ {s}]
                /\ \/ count' = [count EXCEPT ![s] = Plus(@)]
                   \/ Raced(h) /\ UNCHANGED count
    /\ UNCHANGED <<clients, active, running, worker, fetching, overlaps>>

\* onRealtimeSubscriptionAdded: a worker with a stop channel of its own.
StartsWhileRunning == running    \* a bug: the test is turned around
Starts == ~running

onRealtimeSubscriptionAdded(h) ==
    /\ At(h, "added")
    /\ IF Starts
       THEN \E w \in Workers \ Alive :
              worker' = [v \in Workers |->
                  IF v = w THEN "fetch"
                  ELSE IF worker[v] = "wait" THEN "waitOld" ELSE worker[v]]
       ELSE UNCHANGED worker
    /\ running' = TRUE
    /\ Goto(h, "next")
    /\ UNCHANGED <<clients, active, count, fetching, overlaps>>

\* removeRealtimeSubscription: the counter of the entry, if there is one.
MinusSigned(n) == n - 1    \* a bug: the counter is an int
Minus(n) == (n - 1) % CountLimit

Decrement(h) ==
    /\ At(h, "dec")
    /\ LET s == job[h].sys
           done(pc) == job' = [job EXCEPT ![h].pc = pc, ![h].rems = @ \ {s}]
       IN  IF s \notin active
           THEN done("check") /\ UNCHANGED count
           ELSE /\ done("drop")
                /\ \/ count' = [count EXCEPT ![s] = Minus(@)]
                   \/ Raced(h) /\ UNCHANGED count
    /\ UNCHANGED <<clients, active, running, worker, fetching, overlaps>>

\* The last client's entry is deleted.  A handler that holds an entry another
\* one deleted before sees its zero: it deletes whatever entry there is now.
UnusedAtOne(h) == count[job[h].sys] <= 1                  \* a bug: off by one
Unused(h) == At(h, "dropOrphan") \/ count[job[h].sys] = 0

Drop(h) ==
    /\ job[h].pc \in {"drop", "dropOrphan"}
    /\ IF Unused(h)
       THEN /\ active' = active \ {job[h].sys}
            /\ job' = [k \in Handlers |->
                  IF k = h THEN [job[h] EXCEPT !.pc = "check"]
                  ELSE IF At(k, "drop") /\ job[k].sys = job[h].sys
                  THEN [job[k] EXCEPT !.pc = "dropOrphan"] ELSE job[k]]
       ELSE Goto(h, "check") /\ UNCHANGED active
    /\ UNCHANGED <<clients, count, running, worker, fetching, overlaps>>

\* checkSubscriptions looks before it locks ...
Check(h) ==
    /\ At(h, "check")
    /\ Goto(h, IF running /\ active = {} THEN "stop" ELSE "next")
    /\ UNCHANGED <<clients, active, count, running, worker, fetching, overlaps>>

\* ... and does not look again.  The signal is dropped if no worker is waiting
\* for it.
Stop(h) ==
    /\ At(h, "stop")
    /\ IF \E w \in Workers : worker[w] = "wait"
       THEN \E w \in Workers : /\ worker[w] = "wait"
                               /\ worker' = [worker EXCEPT ![w] = "none"]
       ELSE UNCHANGED worker
    /\ running' = FALSE
    /\ Goto(h, "next")
    /\ UNCHANGED <<clients, active, count, fetching, overlaps>>

-----------------------------------------------------------------------------
(* Workers.                                                                *)

\* fetchRealtimeDataAndNotify starts a fetch per active system, then the
\* worker waits for the stop channel or the ticker.
Fetch(w) ==
    /\ worker[w] = "fetch"
    /\ fetching' = fetching \cup (active \cap Known)
    /\ worker' = [worker EXCEPT ![w] = "wait"]
    /\ UNCHANGED <<clients, active, count, running, job, overlaps>>

ExitsNever == FALSE           \* a bug: the tick does not look at the table
ExitsWhileUsed == active # {}    \* a bug: the test is turned around
Exits == active = {}

Tick(w) ==
    /\ worker[w] \in {"wait", "waitOld"}
    /\ worker' = [worker EXCEPT ![w] = IF Exits THEN "none" ELSE "fetch"]
    /\ UNCHANGED <<clients, active, count, running, job, fetching, overlaps>>

\* The data is there and was sent to the clients, or the fetch failed.
Notify(s) ==
    /\ s \in fetching
    /\ fetching' = fetching \ {s}
    /\ UNCHANGED <<clients, active, count, running, job, worker, overlaps>>

\* A map write that overlaps another access of the map may be detected by the
\* runtime, which ends the process: the hub starts again, without clients.
Writes(h) == \/ At(h, "next") /\ ~(job[h].adds \subseteq active)
             \/ job[h].pc \in {"drop", "dropOrphan"} /\ Unused(h)
Reads(h) == At(h, "next") \/ job[h].pc \in OnSystem \cup {"check"}
ConcurrentMapFault ==
    /\ \E h \in Handlers : Writes(h) /\ \/ \E w \in Workers : worker[w] = "fetch"
                                        \/ \E k \in Handlers \ {h} : Reads(k)
    /\ clients' = [s \in Systems |-> 0]
    /\ active' = {}
    /\ count' = [s \in Systems |-> 0]
    /\ running' = FALSE
    /\ job' = [h \in Handlers |-> Idle]
    /\ worker' = [w \in Workers |-> "none"]
    /\ fetching' = {}
    /\ overlaps' = 0

-----------------------------------------------------------------------------
HandlerStep(h) == \/ AddNext(h) \/ RemoveNext(h) \/ Increment(h)
                  \/ onRealtimeSubscriptionAdded(h)
                  \/ Decrement(h) \/ Drop(h) \/ Check(h) \/ Stop(h)
WorkerStep(w) == Fetch(w) \/ Tick(w)

Next == \/ \E h \in Handlers : \/ onRealtimeSubscribeRequest(h)
                               \/ onRealtimeConnectRequest(h)
                               \/ HandlerStep(h)
        \/ \E w \in Workers : WorkerStep(w)
        \/ \E s \in Systems : Notify(s)
        \/ ConcurrentMapFault

Spec == Init /\ [][Next]_vars

\* Goroutines run, the ticker ticks, a fetch returns or times out.  Nobody has
\* to subscribe.
Fairness == /\ \A h \in Handlers : WF_vars(HandlerStep(h))
            /\ \A w \in Workers : WF_vars(WorkerStep(w))
            /\ \A s \in Systems : WF_vars(Notify(s))

LiveSpec == Spec /\ Fairness

-----------------------------------------------------------------------------
(* Properties.                                                             *)

\* "stops the realtime worker when there are no active subscriptions": between
\* requests a system with subscribed clients is in the table, so a client that
\* leaves does not cut off the others.
SubscribedIsActive == Quiet => \A s \in Systems : clients[s] > 0 => s \in active

\* "This prevents unnecessary resource usage when no clients are listening for
\* realtime data": between requests the table has no system without clients.
UnusedIsDropped == Quiet => \A s \in active : clients[s] > 0

\* As long as no two requests overlapped, the table has the systems with
\* subscribed clients, although every request changes it entry by entry.
TableExact == overlaps = 0 => SubscribedIsActive /\ UnusedIsDropped

\* "starts the realtime worker when the first subscription is added": between
\* requests there is a worker for the active subscriptions.
SubscribedHasWorker == Quiet /\ active # {} => Alive # {}

\* As long as no two requests overlapped, no worker is lost, although workers
\* end by themselves and stop signals are dropped.
NoLostWorker == overlaps = 0 => SubscribedHasWorker

\* "It continuously fetches system data": unless requests overlapped, a known
\* system somebody listens to is fetched again and again, although stop signals
\* are dropped, old workers linger and workers end by themselves.
ContinuouslyFetched ==
    \A s \in Known : []<>(clients[s] = 0 \/ s \in fetching \/ overlaps > 0)

\* Without subscriptions the workers end, with or without the stop signal.
WorkersStop == active = {} ~> Alive = {} \/ active # {}
=============================================================================
