--------------------------- MODULE SystemManager ---------------------------
(***************************************************************************)
(* The life of one system: its record in the database, the store of the    *)
(* SystemManager, and one instance (a System with its WebSocket) per       *)
(* connection of the agent.  An instance is added by the connect handler   *)
(* and lives on as the goroutine of StartUpdater; what the two do for one  *)
(* instance is one thread here.  The other goroutines are the user's       *)
(* requests and the update that a resume starts.                           *)
(*                                                                         *)
(* A save of the record is three steps: read, write, the record hook.      *)
(* RemoveSystem is two: cancel and close, then the store.                  *)
(***************************************************************************)
EXTENDS Naturals

CONSTANTS Instances,    \* connections of the agent; bounds their number
          Env,          \* which of EnvKinds may happen
          MaxRestarts,  \* bound on the hub restarts
          MaxOverlaps   \* bound on the operations that start during another

EnvKinds == {"pause", "delete", "rotate", "timeout", "restart"}

None == "none"
User == "user"
Resumer == "resumer"

ASSUME ManagerAssumption == /\ Env \subseteq EnvKinds
                            /\ MaxRestarts \in Nat
                            /\ MaxOverlaps \in Nat
                            /\ Instances \cap {None, User, Resumer} = {}

VARIABLES
    db,          \* systems.status, or "deleted"
    store,       \* sm.systems: the instance there is, or None
    mem,         \* mem[i]: System.Status
    link,        \* link[i]: the WebSocket of i
    detached,    \* instances whose WsConn is nil
    cancelled,   \* instances whose context is cancelled
    signal,      \* signal[i]: DownChan and the goroutine that will send to it
    job,         \* job[x]: where goroutine x is
    overlaps,    \* operations that started during another one, since the hub did
    restarts     \* hub restarts so far

memory == <<store, mem, detached, cancelled>>
net == <<link, signal>>
vars == <<db, store, mem, link, detached, cancelled, signal, job, overlaps, restarts>>

Threads == Instances \cup {User, Resumer}
Statuses == {"pending", "up", "down", "paused"}

\* of: the instance worked on; want: the status being saved; old: the status
\* as it was read; then: where RemoveSystem, or the setDown of a rotation,
\* returns to.
Job(pc, i, want, old, then) ==
    [pc |-> pc, of |-> i, want |-> want, old |-> old, then |-> then]
OnInstance == {"add", "put", "start", "loop", "update", "fetch", "read", "setDown"}
Resting == {"unused", "idle", "loop", "over"}
Pcs == OnInstance \cup Resting \cup {"save", "hook", "orphanHook", "remove", "forget"}
Jobs == [pc : Pcs, of : Instances \cup {None}, want : Statuses, old : Statuses,
         then : {"add", "loop", "setDown", "idle", "over", "rotated"}]

\* A thread that works on an instance knows which one, and so does one that
\* will when it has removed the system.
JobOK(j) == /\ j \in Jobs
            /\ j.pc \in OnInstance => j.of \in Instances
            /\ j.pc \in {"remove", "forget"} =>
                   \/ j.then = "idle"
                   \/ j.then \in {"add", "loop", "setDown"} /\ j.of \in Instances

TypeOK ==
    /\ db \in Statuses \cup {"deleted"}
    /\ store \in Instances \cup {None}
    /\ mem \in [Instances -> Statuses]
    /\ link \in [Instances -> {"none", "open", "closing", "closed"}]
    /\ detached \subseteq Instances
    /\ cancelled \subseteq Instances
    /\ signal \in [Instances -> {"none", "sleeping", "ready"}]
    /\ job \in [Threads -> Jobs]
    /\ \A x \in Threads : JobOK(job[x])
    /\ overlaps \in Nat
    /\ restarts \in Nat

\* A thread between two operations, and before its first one.
Rest(x) == Job(IF x \in Instances THEN "loop" ELSE "idle",
               IF x \in Instances THEN x ELSE None, "up", "up", "over")
Fresh(x) == Job(IF x \in Instances THEN "unused" ELSE "idle", None, "up", "up", "over")

Init ==
    /\ db = "pending"
    /\ store = None
    /\ mem = [i \in Instances |-> "pending"]
    /\ link = [i \in Instances |-> "none"]
    /\ detached = {}
    /\ cancelled = {}
    /\ signal = [i \in Instances |-> "none"]
    /\ job = [x \in Threads |-> Fresh(x)]
    /\ overlaps = 0
    /\ restarts = 0

At(x, pc) == job[x].pc = pc
\* A save is done; a rotation goes on to remove the system.
Done(x) == IF job[x].then = "rotated"
           THEN [job[x] EXCEPT !.pc = "remove", !.then = "idle"] ELSE Rest(x)
Set(x, j) == job' = [job EXCEPT ![x] = j]
Goto(x, pc) == Set(x, [job[x] EXCEPT !.pc = pc])

\* No operation is under way, and updaters that were told to stop have stopped.
Quiet == \A x \in Threads : job[x].pc \in Resting /\ (At(x, "loop") => x \notin cancelled)

\* An operation starts, whatever else is under way: nothing in the code keeps
\* two apart.
Starts == /\ Quiet \/ overlaps < MaxOverlaps
          /\ overlaps' = IF Quiet THEN overlaps ELSE overlaps + 1

-----------------------------------------------------------------------------
(* RemoveSystem, on whatever instance the store holds.                     *)

\* closeWebSocketConnection
CloseLink(i) == [link EXCEPT ![i] = IF @ = "open" /\ i \notin detached
                                    THEN "closing" ELSE @]

CancelsNothing(i) == cancelled    \* a bug: the updater is not stopped
Cancels(i) == cancelled \cup {i}

Remove(x) ==
    /\ At(x, "remove")
    /\ IF store = None THEN /\ Goto(x, job[x].then)
                            /\ UNCHANGED <<cancelled, link>>
       ELSE /\ cancelled' = Cancels(store)
            /\ link' = CloseLink(store)
            /\ Goto(x, "forget")
    /\ UNCHANGED <<db, store, mem, detached, signal, overlaps, restarts>>

ForgetsNothing == store    \* a bug: the instance stays in the store
Forgets == None

Forget(x) ==
    /\ At(x, "forget")
    /\ store' = Forgets
    /\ Goto(x, job[x].then)
    /\ UNCHANGED <<db, mem, detached, cancelled, net, overlaps, restarts>>

-----------------------------------------------------------------------------
(* An agent connects: handleAgentConnect, AddWebSocketSystem, AddRecord.   *)

Connect(i) ==
    /\ At(i, "unused")
    /\ Starts
    /\ db # "deleted"
    /\ link' = [link EXCEPT ![i] = "open"]
    /\ mem' = [mem EXCEPT ![i] = db]
    /\ Set(i, Job(IF store = None THEN "add" ELSE "remove", i, "up", "up", "add"))
    /\ UNCHANGED <<db, store, detached, cancelled, signal, restarts>>

\* AddSystem: refused if there is an instance again.
Add(i) ==
    /\ At(i, "add")
    /\ IF store = None THEN Goto(i, "put") /\ UNCHANGED link
       ELSE Goto(i, "over") /\ link' = CloseLink(i)
    /\ UNCHANGED <<db, memory, signal, overlaps, restarts>>

Put(i) ==
    /\ At(i, "put")
    /\ store' = i
    /\ Set(i, [Rest(i) EXCEPT !.pc = "start"])
    /\ UNCHANGED <<db, mem, detached, cancelled, net, overlaps, restarts>>

-----------------------------------------------------------------------------
(* StartUpdater.                                                           *)

Start(i) ==
    /\ At(i, "start")
    /\ Goto(i, IF mem[i] # "paused" /\ i \notin cancelled THEN "update" ELSE "loop")
    /\ UNCHANGED <<db, memory, net, overlaps, restarts>>

Cancelled(i) ==
    /\ At(i, "loop")
    /\ i \in cancelled
    /\ Goto(i, "over")
    /\ UNCHANGED <<db, memory, net, overlaps, restarts>>

\* The ticker or the jitter of the first minute.
Tick(i) ==
    /\ At(i, "loop")
    /\ Starts
    /\ Goto(i, "update")
    /\ UNCHANGED <<db, memory, net, restarts>>

\* downChan: the connection was closed five seconds ago.
Down(i) ==
    /\ At(i, "loop")
    /\ Starts
    /\ signal[i] = "ready"
    /\ signal' = [signal EXCEPT ![i] = "none"]
    /\ detached' = detached \cup {i}
    /\ Goto(i, "setDown")
    /\ UNCHANGED <<db, store, mem, cancelled, link, restarts>>

\* After a failed update the updater sets the system down; a resume does not.
Failed(x) == IF x \in Instances THEN [job[x] EXCEPT !.pc = "setDown"] ELSE Rest(x)

Reachable(i) == link[i] = "open" /\ i \notin detached

\* update: a paused system is pinged, and removed if the ping fails.
Update(x) ==
    /\ At(x, "update")
    /\ LET i == job[x].of
       IN  CASE mem[i] # "paused" -> Goto(x, "fetch")
             [] mem[i] = "paused" /\ Reachable(i) ->
                    Set(x, Rest(x))
             [] OTHER -> Set(x, [job[x] EXCEPT !.pc = "remove", !.then = Rest(x).pc])
    /\ UNCHANGED <<db, memory, net, overlaps, restarts>>

\* fetchDataFromAgent: over an open connection it succeeds, or times out.
Answered(x) ==
    /\ At(x, "fetch")
    /\ Reachable(job[x].of)
    /\ Goto(x, "read")
    /\ UNCHANGED <<db, memory, net, overlaps, restarts>>

NotAnswered(x) ==
    /\ At(x, "fetch")
    /\ ~Reachable(job[x].of) \/ "timeout" \in Env
    /\ Set(x, Failed(x))
    /\ UNCHANGED <<db, memory, net, overlaps, restarts>>

Missing == db = "deleted"

\* createRecords: getRecord, the status becomes "up".  Without a record the
\* system is removed and the update fails.
Read(x) ==
    /\ At(x, "read")
    /\ Set(x, IF Missing THEN [job[x] EXCEPT !.pc = "remove", !.then = Failed(x).pc]
              ELSE [job[x] EXCEPT !.pc = "save", !.want = "up", !.old = db])
    /\ UNCHANGED <<db, memory, net, overlaps, restarts>>

DownIsNewNever(i) == mem[i] = "paused"    \* a bug: the test is turned around
DownIsNew(i) == mem[i] \notin {"down", "paused"}

\* setDown
SetDown(x) ==
    /\ At(x, "setDown")
    /\ Set(x, CASE ~DownIsNew(job[x].of) -> Done(x)
                [] DownIsNew(job[x].of) /\ Missing ->
                      [job[x] EXCEPT !.pc = "remove", !.then = Rest(x).pc]
                [] OTHER -> [job[x] EXCEPT !.pc = "save", !.want = "down", !.old = db])
    /\ UNCHANGED <<db, memory, net, overlaps, restarts>>

\* Only a changed status is written, to the row that is still there.
SaveRecord(x) ==
    /\ At(x, "save")
    /\ db' = IF job[x].want = job[x].old \/ db = "deleted" THEN db ELSE job[x].want
    /\ Goto(x, "hook")
    /\ UNCHANGED <<memory, net, overlaps, restarts>>

HookForgetsMemory(s) == mem    \* a bug: System.Status is not set
HookMemory(s) == [mem EXCEPT ![store] = s]

\* onRecordAfterUpdateSuccess for "up" and "down".  If the store is empty,
\* AddRecord without an instance: it fails, after removing what is there now.
Hook(x) ==
    /\ At(x, "hook")
    /\ job[x].want \in {"up", "down"}
    /\ IF store = None THEN Goto(x, "orphanHook") /\ UNCHANGED mem
       ELSE mem' = HookMemory(job[x].want) /\ Set(x, Done(x))
    /\ UNCHANGED <<db, store, detached, cancelled, net, overlaps, restarts>>

OrphanHook(x) ==
    /\ At(x, "orphanHook")
    /\ Set(x, IF store = None THEN Done(x)
              ELSE [Rest(x) EXCEPT !.pc = "remove", !.then = Rest(x).pc])
    /\ UNCHANGED <<db, memory, net, overlaps, restarts>>

-----------------------------------------------------------------------------
(* The WebSocket.                                                          *)

\* The agent or the network closes it, or the hub did: OnClose.
OnClose(i) ==
    /\ link[i] \in {"open", "closing"}
    /\ link' = [link EXCEPT ![i] = "closed"]
    /\ signal' = [signal EXCEPT ![i] = "sleeping"]
    /\ UNCHANGED <<db, memory, job, overlaps, restarts>>

\* Five seconds later.
FiveSeconds(i) ==
    /\ signal[i] = "sleeping"
    /\ signal' = [signal EXCEPT ![i] = "ready"]
    /\ UNCHANGED <<db, memory, link, job, overlaps, restarts>>

-----------------------------------------------------------------------------
(* The user.                                                               *)

Pause ==
    /\ "pause" \in Env
    /\ At(User, "idle")
    /\ Starts
    /\ db \in {"pending", "up", "down"}
    /\ db' = "paused"
    /\ Set(User, Job("hook", None, "paused", db, "idle"))
    /\ UNCHANGED <<memory, net, restarts>>

\* The hook closes the connection.
PauseHook ==
    /\ At(User, "hook")
    /\ job[User].want = "paused"
    /\ IF store = None THEN UNCHANGED <<mem, link>>
       ELSE mem' = HookMemory("paused") /\ link' = CloseLink(store)
    /\ Set(User, Rest(User))
    /\ UNCHANGED <<db, store, detached, cancelled, signal, overlaps, restarts>>

Resume ==
    /\ At(User, "idle") /\ At(Resumer, "idle")
    /\ Starts
    /\ db = "paused"
    /\ db' = "pending"
    /\ Set(User, Job("hook", None, "pending", db, "idle"))
    /\ UNCHANGED <<memory, net, restarts>>

\* The hook starts an update over the connection there is (one such update at
\* a time: a bound).
ResumeHook ==
    /\ At(User, "hook") /\ At(Resumer, "idle")
    /\ job[User].want = "pending"
    /\ IF store = None THEN UNCHANGED mem ELSE mem' = HookMemory("pending")
    /\ job' = [job EXCEPT ![User] = Rest(User),
                          ![Resumer] = IF store \in Instances \ detached
                                       THEN Job("update", store, "up", "up", "idle")
                                       ELSE @]
    /\ UNCHANGED <<db, store, detached, cancelled, net, overlaps, restarts>>

Delete ==
    /\ "delete" \in Env
    /\ At(User, "idle")
    /\ Starts
    /\ db # "deleted"
    /\ db' = "deleted"
    /\ Set(User, Job("remove", None, "up", "up", "idle"))
    /\ UNCHANGED <<memory, net, restarts>>

\* A new token: the hook sets the system down and removes it.
Rotate ==
    /\ "rotate" \in Env
    /\ At(User, "idle")
    /\ Starts
    /\ db # "deleted"
    /\ IF store = None THEN UNCHANGED <<mem, job>>
       ELSE /\ mem' = HookMemory(db)
            /\ Set(User, Job("setDown", store, "down", db, "rotated"))
    /\ UNCHANGED <<db, store, detached, cancelled, net, restarts>>

-----------------------------------------------------------------------------
(* The hub stops or crashes and starts again, with nothing in memory.      *)

Restart ==
    /\ "restart" \in Env
    /\ restarts < MaxRestarts
    /\ restarts' = restarts + 1
    /\ store' = None
    /\ job' = [x \in Threads |-> IF x \in Instances /\ ~At(x, "unused")
                                 THEN [Rest(x) EXCEPT !.pc = "over"] ELSE Fresh(x)]
    /\ link' = [i \in Instances |-> IF link[i] = "none" THEN "none" ELSE "closed"]
    /\ signal' = [i \in Instances |-> "none"]
    /\ mem' = [i \in Instances |-> "pending"]
    /\ detached' = {} /\ cancelled' = {}
    /\ overlaps' = 0
    /\ UNCHANGED db

-----------------------------------------------------------------------------
RecordStep(x) == \/ Remove(x) \/ Forget(x) \/ Update(x) \/ Answered(x)
                 \/ NotAnswered(x) \/ Read(x)
                 \/ SetDown(x) \/ SaveRecord(x) \/ Hook(x) \/ OrphanHook(x)
AddStep(i) == Add(i) \/ Put(i) \/ Start(i)
LoopStep(i) == Cancelled(i) \/ Tick(i) \/ Down(i)
UserStep == PauseHook \/ ResumeHook
UserRequest == Pause \/ Resume \/ Delete \/ Rotate

Next == \/ \E x \in Threads : RecordStep(x)
        \/ \E i \in Instances : \/ Connect(i) \/ AddStep(i) \/ LoopStep(i)
                                \/ OnClose(i) \/ FiveSeconds(i)
        \/ UserStep \/ UserRequest \/ Restart

Spec == Init /\ [][Next]_vars

\* Goroutines run, tickers tick, a close that was begun is finished and five
\* seconds pass.  The agent, the network and the user owe nothing.
GoroutineStep(x) == \/ RecordStep(x)
                    \/ x \in Instances /\ (AddStep(x) \/ LoopStep(x))
                    \/ x = User /\ UserStep
Fairness == /\ \A x \in Threads : WF_vars(GoroutineStep(x))
            /\ \A i \in Instances : /\ WF_vars(link[i] = "closing" /\ OnClose(i))
                                     /\ WF_vars(FiveSeconds(i))

LiveSpec == Spec /\ Fairness

-----------------------------------------------------------------------------
(* Properties.                                                             *)

Connected == \E i \in Instances : link[i] = "open"

\* RemoveSystem "cancels the system's context, closes all connections, and
\* removes it from the store", AddSystem stores a system and starts its updater:
\* what is in the store has an updater that runs and was not told to stop, or
\* is about to be removed, however many operations overlap.  One that stayed
\* without would look like a monitored system, and nobody would update it.
Monitored ==
    \/ store = None
    \/ store \notin cancelled /\ job[store].pc \notin {"unused", "add", "put", "over"}
    \/ \E x \in Threads : At(x, "forget")

\* AddRecord: "If a system with the same ID already exists, it's removed first
\* to ensure clean state": after operations that did not overlap every updater
\* that was not told to stop is the one of the instance in the store.
NoOrphan == overlaps = 0 /\ Quiet =>
                \A i \in Instances : At(i, "loop") /\ i \notin cancelled => store = i

\* "These hooks ensure the system manager stays synchronized with database
\* changes": after operations that did not overlap the status in memory is the
\* record's.
MemoryMatches == overlaps = 0 /\ Quiet /\ store # None /\ db # "deleted" =>
                     mem[store] = db

\* "System monitoring is paused": only the user ends a pause.
PauseSticks == [][db = "paused" /\ db' # db => job'[User] # job[User]]_vars

\* "If the data is not found or the system is down, it sets the system down":
\* a system the hub monitors does not stay up after its connection is gone.
\* (A hub that restarts begins anew: its last life is like any other.)
DownNoticed ==
    db = "up" /\ ~Connected /\ store # None /\ restarts = MaxRestarts /\ overlaps = 0
        ~> db # "up" \/ Connected \/ overlaps > 0

\* "pending: Starts monitoring (reuses WebSocket if available)": a connected
\* system that is not paused comes up, also after a resume or a stale "down".
Serving == store # None /\ link[store] = "open"
ComesUp == Serving /\ db \in {"pending", "down"} /\ overlaps = 0
               ~> db \notin {"pending", "down"} \/ ~Serving \/ overlaps > 0

\* Unless operations overlapped, the record catches up with the connection, in
\* both directions.
StatusCatchesUp == DownNoticed /\ ComesUp
=============================================================================
