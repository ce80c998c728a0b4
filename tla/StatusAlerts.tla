---------------------------- MODULE StatusAlerts ----------------------------
(***************************************************************************)
(* The Status alert of one system: the alert records and their history in  *)
(* the database, the cache of alert records, the delayed "down" alerts     *)
(* with their timers, and the goroutines that work on them:                *)
(*   - the updater, whose saves of the system record run the record hook   *)
(*     and with it HandleStatusAlerts;                                     *)
(*   - one goroutine per expired timer, running processPendingAlert;       *)
(*   - the user's requests: pause, resume, upsert and delete of alerts.    *)
(* A save of an alert record is four steps: read, write, the cache hook,   *)
(* the history hook.  The system record is saved in one step, its hook     *)
(* runs afterwards.                                                        *)
(***************************************************************************)
EXTENDS Integers

CONSTANTS Alerts,      \* ids of alert records named "Status"
          Infos,       \* one alertInfo per scheduling; bounds the schedulings
          Env,         \* which of EnvKinds may happen
          MaxCrashes   \* bound on the hub restarts

EnvKinds == {"pause", "edit", "delete", "crash"}

None == "none"
Updater == "updater"
User == "user"

ASSUME AlertsAssumption == /\ Env \subseteq EnvKinds
                           /\ MaxCrashes \in Nat
                           /\ Infos \cap {None, Updater, User} = {}

VARIABLES
    status,    \* systems.status
    rec,       \* rec[a]: the record is absent, or its "triggered" is off or on
    cache,     \* cache[a]: the same as AlertsCache has it
    open,      \* open[a]: alerts_history records of a not yet resolved
    pend,      \* pend[a]: the alertInfo stored in pendingAlerts
    info,      \* info[i]: where the alertInfo and its timer are
    for,       \* for[i]: the alert an alertInfo is about
    job,       \* job[x]: what goroutine x is doing
    due,       \* due[a]: switches of a to on minus "down" notifications
    crashes    \* hub restarts so far

vars == <<status, rec, cache, open, pend, info, for, job, due, crashes>>

Actors == Infos \cup {Updater, User}
Existing == {a \in Alerts : rec[a] # "none"}
Cached == {a \in Alerts : cache[a] # "none"}

Idle == [pc |-> "idle", alert |-> None, want |-> "off", orig |-> "off",
         then |-> "idle"]
Pcs == {"idle", "down", "arm", "up", "cancel", "refresh", "deactivate",
        "cancelAll", "find", "write", "cache", "history", "notify"}
Jobs == [pc : Pcs, alert : Alerts \cup {None}, want : {"none", "off", "on"},
         orig : {"none", "off", "on"}, then : {"idle", "notify", "cancelAll"}]

\* The steps that work on one alert.
OnAlert == {"cancel", "refresh", "find", "write", "cache", "history", "notify"}

TypeOK ==
    /\ status \in {"up", "down", "paused", "pending"}
    /\ rec \in [Alerts -> {"none", "off", "on"}]
    /\ cache \in [Alerts -> {"none", "off", "on"}]
    /\ open \in [Alerts -> Nat]
    /\ pend \in [Alerts -> Infos \cup {None}]
    /\ info \in [Infos -> {"unused", "stored", "armed", "fired", "over"}]
    /\ for \in [Infos -> Alerts \cup {None}]
    /\ job \in [Actors -> Jobs]
    /\ \A x \in Actors : job[x].pc \in OnAlert => job[x].alert \in Alerts
    /\ \A i \in Infos : info[i] \notin {"unused", "over"} => for[i] \in Alerts
    /\ due \in [Alerts -> Int]
    /\ crashes \in Nat

Init ==
    /\ status = "pending"
    /\ rec \in [Alerts -> {"none", "off"}]
    /\ \A a, b \in Existing : a = b
    /\ cache = rec
    /\ open = [a \in Alerts |-> 0]
    /\ pend = [a \in Alerts |-> None]
    /\ info = [i \in Infos |-> "unused"]
    /\ for = [i \in Infos |-> None]
    /\ job = [x \in Actors |-> Idle]
    /\ due = [a \in Alerts |-> 0]
    /\ crashes = 0

-----------------------------------------------------------------------------
(* Steps of a goroutine.                                                   *)

At(x, pc) == job[x].pc = pc
Set(x, j) == job' = [job EXCEPT ![x] = j]
Goto(x, pc) == Set(x, [job[x] EXCEPT !.pc = pc])

\* app.Save of an alert record whose "triggered" becomes v, and what follows.
Save(a, v, pc, old, next) ==
    [pc |-> pc, alert |-> a, want |-> v, orig |-> old, then |-> next]

\* setAlertTriggered: FindRecordById.  A missing record ends the job: nothing
\* is sent.
Find(x) ==
    /\ At(x, "find")
    /\ LET a == job[x].alert
       IN  IF rec[a] = "none" THEN Set(x, Idle)
           ELSE Set(x, [job[x] EXCEPT !.pc = "write", !.orig = rec[a]])
    /\ UNCHANGED <<status, rec, cache, open, pend, info, for, due, crashes>>

\* The write: only changed columns go to the row, if it is still there.
Write(x) ==
    /\ At(x, "write")
    /\ LET a == job[x].alert
           on == job[x].want # job[x].orig /\ rec[a] # "none"
       IN  /\ rec' = IF on THEN [rec EXCEPT ![a] = job[x].want] ELSE rec
           /\ due' = IF on /\ job[x].want = "on"
                     THEN [due EXCEPT ![a] = @ + 1] ELSE due
    /\ Goto(x, "cache")
    /\ UNCHANGED <<status, cache, open, pend, info, for, crashes>>

\* The cache hooks: AlertsCache.Update, or Delete when the record is gone.
CacheHookForgotten(x) ==    \* a bug: the update hook is not bound
    /\ At(x, "cache")
    /\ Goto(x, "history")
    /\ UNCHANGED <<status, rec, cache, open, pend, info, for, due, crashes>>
CacheHook(x) ==
    /\ At(x, "cache")
    /\ cache' = [cache EXCEPT ![job[x].alert] = job[x].want]
    /\ Goto(x, "history")
    /\ UNCHANGED <<status, rec, open, pend, info, for, due, crashes>>

Resolved(n) == IF n = 0 THEN 0 ELSE n - 1

\* The history hooks: a record for "triggered" switched on, the first open one
\* resolved when it is switched off or the triggered alert is deleted.
HistoryHook(x) ==
    /\ At(x, "history")
    /\ open' = CASE job[x].want = job[x].orig -> open
                 [] job[x].want = "on" -> [open EXCEPT ![job[x].alert] = @ + 1]
                 [] job[x].orig = "on" ->
                       [open EXCEPT ![job[x].alert] = Resolved(@)]
                 [] OTHER -> open
    /\ IF job[x].then = "idle" THEN Set(x, Idle) ELSE Goto(x, job[x].then)
    /\ UNCHANGED <<status, rec, cache, pend, info, for, due, crashes>>

-----------------------------------------------------------------------------
(* Pending alerts.                                                         *)

\* Stop the timer of the alertInfo taken out of the map, if it runs.
Stopped(i) == IF info[i] = "armed" THEN [info EXCEPT ![i] = "over"] ELSE info

\* cancelPendingAlert(a) on an entry that is there.
Cancel(a) == /\ info' = Stopped(pend[a])
             /\ pend' = [pend EXCEPT ![a] = None]

\* The timer runs out and starts its goroutine.  Timers run for a minute or
\* more and are started seconds apart: the goroutine of one is done with the
\* database before another one fires.
TimerFires(i) ==
    /\ info[i] = "armed"
    /\ \A k \in Infos : info[k] # "fired" /\ job[k].pc \in {"idle", "notify"}
    /\ info' = [info EXCEPT ![i] = "fired"]
    /\ UNCHANGED <<status, rec, cache, open, pend, for, job, due, crashes>>

\* processPendingAlert: LoadAndDelete, whichever alertInfo is there by now.
TakePending(i) ==
    /\ info[i] = "fired"
    /\ info' = [info EXCEPT ![i] = "over"]
    /\ pend' = [pend EXCEPT ![for[i]] = None]
    /\ IF pend[for[i]] = None THEN UNCHANGED job
       ELSE Set(i, Save(for[i], "on", "refresh", "off", "notify"))
    /\ UNCHANGED <<status, rec, cache, open, for, due, crashes>>

\* Refresh from the cache: stop if the alert is gone or already triggered.
NeedsAlertAlways(a) == cache[a] # "none"    \* a bug: "triggered" is ignored
NeedsAlert(a) == cache[a] = "off"

Refresh(i) ==
    /\ At(i, "refresh")
    /\ IF NeedsAlert(job[i].alert) THEN Goto(i, "find") ELSE Set(i, Idle)
    /\ UNCHANGED <<status, rec, cache, open, pend, info, for, due, crashes>>

\* SendAlert, after the record was saved.
Notify(x) ==
    /\ At(x, "notify")
    /\ due' = IF job[x].want = "on" THEN [due EXCEPT ![job[x].alert] = @ - 1]
              ELSE due
    /\ Set(x, Idle)
    /\ UNCHANGED <<status, rec, cache, open, pend, info, for, crashes>>

-----------------------------------------------------------------------------
(* The updater: the system record changes and its hook runs.               *)

\* Only transitions between up and down reach HandleStatusAlerts.
StatusChange(new) ==
    /\ At(Updater, "idle")
    /\ status \in {"up", "down", "pending"} \ {new}
    /\ status' = new
    /\ IF status = "pending" THEN UNCHANGED job ELSE Goto(Updater, new)
    /\ UNCHANGED <<rec, cache, open, pend, info, for, due, crashes>>

\* handleSystemDown: LoadOrStore an alertInfo, unless one is pending.
Schedule ==
    /\ At(Updater, "down")
    /\ IF \E a \in Cached : pend[a] = None
       THEN \E a \in {b \in Cached : pend[b] = None}, i \in Infos :
              /\ info[i] = "unused"
              /\ info' = [info EXCEPT ![i] = "stored"]
              /\ for' = [for EXCEPT ![i] = a]
              /\ pend' = [pend EXCEPT ![a] = i]
              /\ Goto(Updater, "arm")
       ELSE Set(Updater, Idle) /\ UNCHANGED <<info, for, pend>>
    /\ UNCHANGED <<status, rec, cache, open, due, crashes>>

\* The timer is started and put into the alertInfo.
ArmForgotten == At(Updater, "arm") /\ Set(Updater, Idle)    \* a bug: no timer
    /\ UNCHANGED <<status, rec, cache, open, pend, info, for, due, crashes>>
Arm ==
    /\ At(Updater, "arm")
    /\ info' = [i \in Infos |-> IF info[i] = "stored" THEN "armed" ELSE info[i]]
    /\ Set(Updater, Idle)
    /\ UNCHANGED <<status, rec, cache, open, pend, for, due, crashes>>

\* handleSystemUp works on a snapshot of the cached alerts.
Snapshot ==
    /\ At(Updater, "up")
    /\ IF Cached = {} THEN Set(Updater, Idle)
       ELSE \E a \in Cached :
              Set(Updater, Save(a, "off", "cancel", cache[a], "notify"))
    /\ UNCHANGED <<status, rec, cache, open, pend, info, for, due, crashes>>

\* A pending alert is cancelled and that is all; a triggered one is resolved.
CancelOrResolve ==
    /\ At(Updater, "cancel")
    /\ LET a == job[Updater].alert
       IN  \/ /\ pend[a] # None
              /\ Cancel(a)
              /\ Set(Updater, Idle)
           \/ /\ pend[a] = None
              /\ IF job[Updater].orig = "on" THEN Goto(Updater, "find")
                 ELSE Set(Updater, Idle)
              /\ UNCHANGED <<pend, info>>
    /\ UNCHANGED <<status, rec, cache, open, for, due, crashes>>

-----------------------------------------------------------------------------
(* The user.                                                               *)

\* status = paused: deactivateAlerts, then CancelPendingStatusAlerts.
Pause ==
    /\ "pause" \in Env
    /\ At(User, "idle")
    /\ status # "paused"
    /\ status' = "paused"
    /\ Goto(User, "deactivate")
    /\ UNCHANGED <<rec, cache, open, pend, info, for, due, crashes>>

\* deactivateAlerts: every triggered alert is saved as not triggered.
Deactivate ==
    /\ At(User, "deactivate")
    /\ IF \E a \in Alerts : rec[a] = "on"
       THEN \E a \in {b \in Alerts : rec[b] = "on"} :
               Set(User, Save(a, "off", "write", "on", "cancelAll"))
       ELSE Goto(User, "cancelAll")
    /\ UNCHANGED <<status, rec, cache, open, pend, info, for, due, crashes>>

\* CancelPendingStatusAlerts.  A resume passes here with nothing to cancel.
CancelAll ==
    /\ At(User, "cancelAll")
    /\ IF status = "paused"
       THEN /\ info' = [i \in Infos |->
                   IF info[i] = "armed" /\ \E a \in Alerts : pend[a] = i
                   THEN "over" ELSE info[i]]
            /\ pend' = [a \in Alerts |-> None]
       ELSE UNCHANGED <<info, pend>>
    /\ Set(User, Idle)
    /\ UNCHANGED <<status, rec, cache, open, for, due, crashes>>

\* status = pending: update over the connection there is, or deactivateAlerts.
Resume ==
    /\ At(User, "idle")
    /\ status = "paused"
    /\ status' = "pending"
    /\ \E pc \in {"idle", "deactivate"} : Goto(User, pc)
    /\ UNCHANGED <<rec, cache, open, pend, info, for, due, crashes>>

\* UpsertAlerts: the transaction updates the record there is (value and
\* minutes, not "triggered") or creates one; then the hooks run with the
\* record as the transaction read it.
UpsertAlerts(a) ==
    /\ "edit" \in Env
    /\ At(User, "idle")
    /\ Existing \subseteq {a}
    /\ rec' = IF rec[a] = "none" THEN [rec EXCEPT ![a] = "off"] ELSE rec
    /\ Set(User, Save(a, rec'[a], "cache", rec'[a], "idle"))
    /\ UNCHANGED <<status, cache, open, pend, info, for, due, crashes>>

\* DeleteAlerts: the record goes, the hooks run afterwards.
DeleteAlerts(a) ==
    /\ "delete" \in Env
    /\ At(User, "idle")
    /\ rec[a] # "none"
    /\ rec' = [rec EXCEPT ![a] = "none"]
    /\ Set(User, Save(a, "none", "cache", rec[a], "idle"))
    /\ UNCHANGED <<status, cache, open, pend, info, for, due, crashes>>

-----------------------------------------------------------------------------
(* The hub stops or crashes and starts again: memory is lost, then OnServe *)
(* fills the cache, resolves the alerts of systems that are up and         *)
(* schedules the untriggered alerts of systems that are down.              *)

Resolves(a) == rec[a] = "on" /\ status = "up"

RestoresNot(a) == FALSE    \* a bug: restorePendingStatusAlerts is not called
RestoresAll(a) == rec[a] = "off"    \* a bug: the query does not test the status
Restores(a) == rec[a] = "off" /\ status = "down"

Restart ==
    /\ "crash" \in Env
    /\ crashes < MaxCrashes
    /\ crashes' = crashes + 1
    /\ rec' = [a \in Alerts |-> IF Resolves(a) THEN "off" ELSE rec[a]]
    /\ open' = [a \in Alerts |-> IF Resolves(a) THEN Resolved(open[a])
                                 ELSE open[a]]
    /\ cache' = rec'
    /\ job' = [x \in Actors |-> Idle]
    /\ IF \E a \in Alerts : Restores(a)
       THEN \E a \in {b \in Alerts : Restores(b)}, i \in Infos :
              /\ info[i] = "unused"
              /\ info' = [k \in Infos |-> IF k = i THEN "armed"
                             ELSE IF info[k] = "unused" THEN "unused" ELSE "over"]
              /\ for' = [for EXCEPT ![i] = a]
              /\ pend' = [b \in Alerts |-> IF b = a THEN i ELSE None]
       ELSE /\ info' = [k \in Infos |-> IF info[k] = "unused" THEN "unused"
                                        ELSE "over"]
            /\ pend' = [a \in Alerts |-> None]
            /\ UNCHANGED for
    /\ due' = [a \in Alerts |-> 0]
    /\ UNCHANGED status

-----------------------------------------------------------------------------
SaveStep(x) == Find(x) \/ Write(x) \/ CacheHook(x) \/ HistoryHook(x) \/ Notify(x)
TimerStep(i) == TakePending(i) \/ Refresh(i)
UpdaterStep == Schedule \/ Arm \/ Snapshot \/ CancelOrResolve
UserStep == Deactivate \/ CancelAll
UserRequest == \/ Pause \/ Resume
               \/ \E a \in Alerts : UpsertAlerts(a) \/ DeleteAlerts(a)

Next == \/ \E x \in Actors : SaveStep(x)
        \/ \E i \in Infos : TimerFires(i) \/ TimerStep(i)
        \/ UpdaterStep \/ UserStep \/ UserRequest \/ Restart
        \/ \E new \in {"up", "down"} : StatusChange(new)

Spec == Init /\ [][Next]_vars

\* Goroutines that can run do run, and running timers run out.  Nothing is
\* assumed of the agent, the user or the number of restarts.
Fairness == /\ \A x \in Actors : WF_vars(SaveStep(x))
            /\ \A i \in Infos : WF_vars(TimerFires(i)) /\ WF_vars(TimerStep(i))
            /\ WF_vars(UpdaterStep) /\ WF_vars(UserStep)

LiveSpec == Spec /\ Fairness

-----------------------------------------------------------------------------
(* Properties.                                                             *)

\* An entry of pendingAlerts has a timer that will run out or a goroutine that
\* will take it.  A dead entry would make LoadOrStore refuse every later
\* "down" of the system: the alert would never fire again.
PendingHasTimer ==
    \A a \in Alerts : pend[a] # None => /\ info[pend[a]] \in {"stored", "armed", "fired"}
                                        /\ for[pend[a]] = a
                                        /\ info[pend[a]] = "stored" => At(Updater, "arm")

\* One switch of "triggered" to on sends at most one "down" notification, also
\* across restarts and when the system goes down again before it was resolved.
NotifiedOnce == \A a \in Alerts : due[a] >= 0

Quiet == \A x \in Actors : At(x, "idle")

\* "bindEvents sets up event listeners to keep the cache in sync with database
\* changes": when nobody is at work the cache is what the database holds.
CacheInSync == Quiet => cache = rec

\* A pending alert is reported if its system stays down, across restarts: the
\* hub that lost its timers schedules the alert again.
DownReported ==
    \A a \in Alerts : pend[a] # None ~> rec[a] # "off" \/ status # "down"

\* handleSystemUp "cancels any pending alerts": while the system is up there is
\* no pending alert but on the updater's way to cancel it, however late timers
\* fire, the system goes down again or the hub restarts.  A later outage would
\* find the entry and not be timed anew.
UpHasNoPending ==
    status = "up" => \A a \in Alerts : pend[a] # None =>
        \/ At(Updater, "up")
        \/ At(Updater, "cancel") /\ job[Updater].alert = a
=============================================================================
