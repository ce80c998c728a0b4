------------------------- MODULE StatusAlertsProofs -------------------------
(***************************************************************************)
(* Proofs about StatusAlerts, for any alert records, any number of         *)
(* schedulings and restarts, and every choice of what the user may do.     *)
(***************************************************************************)
EXTENDS StatusAlerts, FiniteSetTheorems, TLAPS

USE AlertsAssumption
USE DEF At, Set, Goto, Save, Actors, None, Updater, User

\* The next-state relation, its steps named for the case splits below.
LEMMA NextCases ==
    ASSUME [Next]_vars
    PROVE  \/ \E x \in Actors : \/ Find(x) \/ Write(x) \/ CacheHook(x)
                                \/ HistoryHook(x) \/ Notify(x)
           \/ \E i \in Infos : TimerFires(i) \/ TakePending(i) \/ Refresh(i)
           \/ Schedule \/ Arm \/ Snapshot \/ CancelOrResolve
           \/ Deactivate \/ CancelAll \/ Pause \/ Resume
           \/ \E a \in Alerts : UpsertAlerts(a) \/ DeleteAlerts(a)
           \/ \E new \in {"up", "down"} : StatusChange(new)
           \/ Restart
           \/ UNCHANGED vars
  BY DEF Next, SaveStep, TimerStep, UpdaterStep, UserStep, UserRequest

-----------------------------------------------------------------------------
(* Types.                                                                  *)

\* A goroutine that works on an alert knows which one.
JobOK(j) == j \in Jobs /\ (j.pc \in OnAlert => j.alert \in Alerts)

\* Replacing one goroutine's job by a well-typed one keeps all jobs well typed.
LEMMA JobTypes ==
    ASSUME NEW x \in Actors, TypeOK, NEW j, JobOK(j),
           job' = [job EXCEPT ![x] = j]
    PROVE  /\ job' \in [Actors -> Jobs]
           /\ \A y \in Actors : job'[y].pc \in OnAlert => job'[y].alert \in Alerts
  BY DEF TypeOK, JobOK

\* The job of saving an alert record is well typed.
LEMMA SaveTypes ==
    ASSUME NEW a \in Alerts, NEW v \in {"none", "off", "on"},
           NEW pc \in OnAlert, NEW old \in {"none", "off", "on"},
           NEW next \in {"idle", "notify", "cancelAll"}
    PROVE  JobOK(Save(a, v, pc, old, next))
  BY DEF JobOK, Jobs, Pcs, OnAlert

\* The job of a goroutine that has nothing to do is well typed.
LEMMA IdleTypes == JobOK(Idle)
  BY DEF JobOK, Jobs, Pcs, OnAlert, Idle

\* A job stays well typed when setAlertTriggered has read the record.
LEMMA FindTypes ==
    ASSUME NEW j \in Jobs, j.alert \in Alerts, NEW o \in {"none", "off", "on"}
    PROVE  JobOK([j EXCEPT !.pc = "write", !.orig = o])
  BY DEF JobOK, Jobs, Pcs

\* A job stays well typed when it moves on with its alert.
LEMMA GotoTypes ==
    ASSUME TypeOK, NEW x \in Actors, NEW pc \in Pcs,
           pc \in OnAlert => job[x].alert \in Alerts
    PROVE  JobOK([job[x] EXCEPT !.pc = pc])
  BY DEF TypeOK, JobOK, Jobs

\* Type correctness of the alert manager's state: every job knows its alert,
\* every fired timer the alert it was started for.
THEOREM TypeCorrect == Spec => []TypeOK
<1>1. Init => TypeOK
  BY DEF Init, TypeOK, Idle, Jobs, Pcs, OnAlert
<1>2. TypeOK /\ [Next]_vars => TypeOK'
  <2> SUFFICES ASSUME TypeOK, [Next]_vars PROVE TypeOK'
    OBVIOUS
  <2> DEFINE JobsOK == /\ job' \in [Actors -> Jobs]
                       /\ \A y \in Actors : job'[y].pc \in OnAlert
                                               => job'[y].alert \in Alerts
  <2>0. Updater \in Actors /\ User \in Actors /\ Infos \subseteq Actors
    OBVIOUS
  <2>1. ASSUME NEW x \in Actors, Find(x) PROVE TypeOK'
    <3>0. job[x].alert \in Alerts /\ rec[job[x].alert] \in {"none", "off", "on"}
      BY <2>1 DEF Find, TypeOK, OnAlert
    <3>1. JobOK([job[x] EXCEPT !.pc = "write", !.orig = rec[job[x].alert]])
      BY <3>0, FindTypes DEF TypeOK
    <3>2. JobsOK
      BY <2>1, <3>1, IdleTypes, JobTypes DEF Find
    <3> QED
      BY <2>1, <3>2 DEF Find, TypeOK
  <2>2. ASSUME NEW x \in Actors, Write(x) PROVE TypeOK'
    <3>1. JobOK([job[x] EXCEPT !.pc = "cache"]) /\ job[x].alert \in Alerts
      BY <2>2, GotoTypes DEF Write, TypeOK, Pcs, OnAlert
    <3>2. JobsOK
      BY <2>2, <3>1, JobTypes DEF Write
    <3>3. rec' \in [Alerts -> {"none", "off", "on"}] /\ due' \in [Alerts -> Int]
      BY <2>2, <3>1 DEF Write, TypeOK, Jobs
    <3> QED
      BY <2>2, <3>2, <3>3 DEF Write, TypeOK
  <2>3. ASSUME NEW x \in Actors, CacheHook(x) PROVE TypeOK'
    <3>1. JobOK([job[x] EXCEPT !.pc = "history"])
      BY <2>3, GotoTypes DEF CacheHook, TypeOK, Pcs, OnAlert
    <3>2. JobsOK
      BY <2>3, <3>1, JobTypes DEF CacheHook
    <3> QED
      BY <2>3, <3>2 DEF CacheHook, TypeOK, Jobs
  <2>4. ASSUME NEW x \in Actors, HistoryHook(x) PROVE TypeOK'
    <3>1. job[x].alert \in Alerts /\ job[x].then \in {"idle", "notify", "cancelAll"}
      BY <2>4 DEF HistoryHook, TypeOK, Jobs, OnAlert
    <3>2. JobOK([job[x] EXCEPT !.pc = job[x].then])
      BY <3>1, GotoTypes DEF Pcs
    <3>3. JobsOK
      BY <2>4, <3>2, IdleTypes, JobTypes DEF HistoryHook
    <3>4. open' \in [Alerts -> Nat]
      <4> DEFINE a == job[x].alert
      <4>1. Resolved(open[a]) \in Nat /\ open[a] + 1 \in Nat
        BY <3>1 DEF TypeOK, Resolved
      <4>2. \/ open' = open \/ open' = [open EXCEPT ![a] = @ + 1]
            \/ open' = [open EXCEPT ![a] = Resolved(@)]
        BY <2>4 DEF HistoryHook
      <4> QED
        BY <3>1, <4>1, <4>2 DEF TypeOK
    <3> QED
      BY <2>4, <3>3, <3>4 DEF HistoryHook, TypeOK
  <2>5. ASSUME NEW x \in Actors, Notify(x) PROVE TypeOK'
    <3>1. JobsOK /\ job[x].alert \in Alerts
      BY <2>5, IdleTypes, JobTypes DEF Notify, TypeOK, OnAlert
    <3>2. due' \in [Alerts -> Int]
      BY <2>5, <3>1 DEF Notify, TypeOK
    <3> QED
      BY <2>5, <3>1, <3>2 DEF Notify, TypeOK
  <2>6. ASSUME NEW i \in Infos, TimerFires(i) PROVE TypeOK'
    BY <2>6 DEF TimerFires, TypeOK
  <2>7. ASSUME NEW i \in Infos, TakePending(i) PROVE TypeOK'
    <3>1. for[i] \in Alerts
      BY <2>7 DEF TakePending, TypeOK
    <3>2. JobOK(Save(for[i], "on", "refresh", "off", "notify"))
      BY <3>1, SaveTypes DEF OnAlert
    <3>3. JobsOK
      <4>1. CASE UNCHANGED job
        BY <4>1 DEF TypeOK
      <4> QED
        BY <2>7, <3>2, <4>1, <2>0, JobTypes DEF TakePending
    <3> QED
      BY <2>7, <3>1, <3>3 DEF TakePending, TypeOK
  <2>8. ASSUME NEW i \in Infos, Refresh(i) PROVE TypeOK'
    <3>1. JobOK([job[i] EXCEPT !.pc = "find"])
      BY <2>8, GotoTypes DEF Refresh, TypeOK, Pcs, OnAlert
    <3>2. JobsOK
      BY <2>8, <3>1, IdleTypes, JobTypes, <2>0 DEF Refresh
    <3> QED
      BY <2>8, <3>2 DEF Refresh, TypeOK
  <2>9. CASE Schedule
    <3>1. JobOK([job[Updater] EXCEPT !.pc = "arm"])
      BY GotoTypes, <2>0 DEF Pcs, OnAlert
    <3>2. JobsOK
      BY <2>9, <3>1, IdleTypes, JobTypes, <2>0 DEF Schedule
    <3> QED
      BY <2>9, <3>2 DEF Schedule, TypeOK, Cached
  <2>10. CASE Arm
    <3>1. JobsOK
      BY <2>10, IdleTypes, JobTypes, <2>0 DEF Arm
    <3> QED
      BY <2>10, <3>1 DEF Arm, TypeOK
  <2>11. CASE Snapshot
    <3>1. ASSUME NEW a \in Cached
          PROVE  JobOK(Save(a, "off", "cancel", cache[a], "notify"))
      BY SaveTypes DEF Cached, TypeOK, OnAlert
    <3>2. JobsOK
      BY <2>11, <3>1, IdleTypes, JobTypes, <2>0 DEF Snapshot
    <3> QED
      BY <2>11, <3>2 DEF Snapshot, TypeOK
  <2>12. CASE CancelOrResolve
    <3>1. JobOK([job[Updater] EXCEPT !.pc = "find"]) /\ job[Updater].alert \in Alerts
      BY <2>12, GotoTypes, <2>0 DEF CancelOrResolve, TypeOK, Pcs, OnAlert
    <3>2. JobsOK
      BY <2>12, <3>1, IdleTypes, JobTypes, <2>0 DEF CancelOrResolve
    <3> QED
      BY <2>12, <3>1, <3>2 DEF CancelOrResolve, Cancel, Stopped, TypeOK
  <2>13. CASE Deactivate
    <3>1. ASSUME NEW a \in Alerts
          PROVE  JobOK(Save(a, "off", "write", "on", "cancelAll"))
      BY SaveTypes DEF OnAlert
    <3>2. JobOK([job[User] EXCEPT !.pc = "cancelAll"])
      BY GotoTypes, <2>0 DEF Pcs, OnAlert
    <3>3. JobsOK
      BY <2>13, <3>1, <3>2, JobTypes, <2>0 DEF Deactivate
    <3> QED
      BY <2>13, <3>3 DEF Deactivate, TypeOK
  <2>14. CASE CancelAll
    <3>1. JobsOK
      BY <2>14, IdleTypes, JobTypes, <2>0 DEF CancelAll
    <3> QED
      BY <2>14, <3>1 DEF CancelAll, TypeOK
  <2>15. CASE Pause \/ Resume
    <3>1. ASSUME NEW pc \in {"idle", "deactivate"}
          PROVE  JobOK([job[User] EXCEPT !.pc = pc])
      BY GotoTypes, <2>0 DEF Pcs, OnAlert
    <3>2. JobsOK
      BY <2>15, <3>1, JobTypes, <2>0 DEF Pause, Resume
    <3> QED
      BY <2>15, <3>2 DEF Pause, Resume, TypeOK
  <2>16. ASSUME NEW a \in Alerts, UpsertAlerts(a) PROVE TypeOK'
    <3>1. rec' \in [Alerts -> {"none", "off", "on"}]
      BY <2>16 DEF UpsertAlerts, TypeOK
    <3>2. JobOK(Save(a, rec'[a], "cache", rec'[a], "idle"))
      BY <3>1, SaveTypes DEF OnAlert
    <3>3. JobsOK
      BY <2>16, <3>2, JobTypes, <2>0 DEF UpsertAlerts
    <3> QED
      BY <2>16, <3>1, <3>3 DEF UpsertAlerts, TypeOK
  <2>17. ASSUME NEW a \in Alerts, DeleteAlerts(a) PROVE TypeOK'
    <3>1. JobOK(Save(a, "none", "cache", rec[a], "idle"))
      BY SaveTypes DEF OnAlert, TypeOK
    <3>2. JobsOK
      BY <2>17, <3>1, JobTypes, <2>0 DEF DeleteAlerts
    <3> QED
      BY <2>17, <3>2 DEF DeleteAlerts, TypeOK
  <2>18. ASSUME NEW new \in {"up", "down"}, StatusChange(new) PROVE TypeOK'
    <3>1. JobOK([job[Updater] EXCEPT !.pc = new])
      BY GotoTypes, <2>0 DEF Pcs, OnAlert
    <3>2. JobsOK
      <4>1. CASE UNCHANGED job
        BY <4>1 DEF TypeOK
      <4> QED
        BY <2>18, <3>1, <4>1, JobTypes, <2>0 DEF StatusChange
    <3> QED
      BY <2>18, <3>2 DEF StatusChange, TypeOK
  <2>19. CASE Restart
    <3>1. JobsOK
      BY <2>19, IdleTypes DEF Restart, JobOK
    <3>2. /\ rec' \in [Alerts -> {"none", "off", "on"}]
          /\ open' \in [Alerts -> Nat] /\ cache' = rec'
          /\ due' \in [Alerts -> Int] /\ crashes' \in Nat /\ status' = status
      BY <2>19 DEF Restart, TypeOK, Resolved
    <3>3. /\ pend' \in [Alerts -> Infos \cup {None}]
          /\ info' \in [Infos -> {"unused", "stored", "armed", "fired", "over"}]
          /\ for' \in [Infos -> Alerts \cup {None}]
          /\ \A i \in Infos : info'[i] \notin {"unused", "over"} => for'[i] \in Alerts
      <4>1. CASE \E a \in Alerts : Restores(a)
        BY <2>19, <4>1 DEF Restart, TypeOK
      <4>2. CASE ~\E a \in Alerts : Restores(a)
        BY <2>19, <4>2 DEF Restart, TypeOK
      <4> QED
        BY <4>1, <4>2
    <3> QED
      BY <3>1, <3>2, <3>3 DEF TypeOK
  <2>20. CASE UNCHANGED vars
    BY <2>20 DEF vars, TypeOK
  <2> QED
    BY NextCases, <2>1, <2>2, <2>3, <2>4, <2>5, <2>6, <2>7, <2>8, <2>9, <2>10,
       <2>11, <2>12, <2>13, <2>14, <2>15, <2>16, <2>17, <2>18, <2>19, <2>20
<1> QED
  BY <1>1, <1>2, PTL DEF Spec

-----------------------------------------------------------------------------
(* Pending alerts.                                                         *)

\* Whatever the updater, the timers, the user and restarts do, in any order,
\* an entry of pendingAlerts has a timer or a goroutine that will remove it.
THEOREM PendingHasTimerTheorem == Spec => []PendingHasTimer
<1>1. Init => PendingHasTimer
  BY DEF Init, PendingHasTimer
<1>2. TypeOK /\ PendingHasTimer /\ [Next]_vars => PendingHasTimer'
  <2> SUFFICES ASSUME TypeOK, PendingHasTimer, [Next]_vars
               PROVE  PendingHasTimer'
    OBVIOUS
  <2> USE DEF TypeOK, PendingHasTimer
  <2>1. ASSUME NEW x \in Actors, \/ Find(x) \/ Write(x) \/ CacheHook(x)
                                 \/ HistoryHook(x) \/ Notify(x)
        PROVE PendingHasTimer'
    <3>1. job[x].pc # "arm" /\ UNCHANGED <<pend, info, for>>
      BY <2>1 DEF Find, Write, CacheHook, HistoryHook, Notify
    <3>2. DOMAIN job' = Actors /\ \A y \in Actors : y # x => job'[y] = job[y]
      BY <2>1 DEF Find, Write, CacheHook, HistoryHook, Notify
    <3> QED
      BY <3>1, <3>2
  <2>2. ASSUME NEW i \in Infos, TimerFires(i) PROVE PendingHasTimer'
    BY <2>2 DEF TimerFires
  <2>3. ASSUME NEW i \in Infos, TakePending(i) PROVE PendingHasTimer'
    <3>1. job'[Updater] = job[Updater] /\ DOMAIN job' = Actors
      BY <2>3 DEF TakePending
    <3>2. info' = [info EXCEPT ![i] = "over"] /\ for' = for
          /\ pend' = [pend EXCEPT ![for[i]] = None]
      BY <2>3 DEF TakePending
    <3>3. \A a \in Alerts : pend'[a] # None => pend'[a] = pend[a] /\ pend[a] # i
      BY <3>2
    <3> QED
      BY <3>1, <3>2, <3>3
  <2>4. ASSUME NEW i \in Infos, Refresh(i) PROVE PendingHasTimer'
    BY <2>4 DEF Refresh
  <2>5. CASE Schedule
    <3>1. CASE \E a \in Cached : pend[a] = None
      <4>1. PICK a \in {b \in Cached : pend[b] = None}, i \in Infos :
              /\ info[i] = "unused"
              /\ info' = [info EXCEPT ![i] = "stored"]
              /\ for' = [for EXCEPT ![i] = a]
              /\ pend' = [pend EXCEPT ![a] = i]
              /\ job' = [job EXCEPT ![Updater] = [job[Updater] EXCEPT !.pc = "arm"]]
        BY <2>5, <3>1 DEF Schedule
      <4>2. a \in Alerts /\ i # None
        BY DEF Cached
      <4>3. job'[Updater].pc = "arm" /\ DOMAIN job' = Actors
        BY <4>1, <2>5 DEF Schedule
      <4> QED
        BY <4>1, <4>2, <4>3
    <3>2. CASE ~\E a \in Cached : pend[a] = None
      BY <2>5, <3>2 DEF Schedule
    <3> QED
      BY <3>1, <3>2
  <2>6. CASE Arm
    BY <2>6 DEF Arm
  <2>7. CASE Snapshot
    BY <2>7 DEF Snapshot
  <2>8. CASE CancelOrResolve
    <3> DEFINE a == job[Updater].alert
    <3>1. a \in Alerts /\ job[Updater].pc = "cancel" /\ for' = for
      BY <2>8 DEF CancelOrResolve, OnAlert
    <3>2. CASE pend[a] = None
      BY <2>8, <3>1, <3>2 DEF CancelOrResolve
    <3>3. CASE pend[a] # None
      <4>1. /\ info' = Stopped(pend[a])
            /\ pend' = [pend EXCEPT ![a] = None]
        BY <2>8, <3>3 DEF CancelOrResolve, Cancel
      <4>2. \A b \in Alerts : pend'[b] # None =>
               pend'[b] = pend[b] /\ info'[pend[b]] = info[pend[b]]
        BY <3>1, <3>3, <4>1 DEF Stopped
      <4> QED
        BY <3>1, <4>2
    <3> QED
      BY <3>2, <3>3
  <2>9. CASE Deactivate
    BY <2>9 DEF Deactivate
  <2>10. CASE CancelAll
    BY <2>10 DEF CancelAll
  <2>11. CASE Pause \/ Resume
    BY <2>11 DEF Pause, Resume
  <2>12. ASSUME NEW a \in Alerts, UpsertAlerts(a) \/ DeleteAlerts(a)
         PROVE PendingHasTimer'
    BY <2>12 DEF UpsertAlerts, DeleteAlerts
  <2>13. ASSUME NEW new \in {"up", "down"}, StatusChange(new) PROVE PendingHasTimer'
    BY <2>13 DEF StatusChange
  <2>14. CASE Restart
    BY <2>14 DEF Restart
  <2>15. CASE UNCHANGED vars
    BY <2>15 DEF vars
  <2> QED
    BY NextCases, <2>1, <2>2, <2>3, <2>4, <2>5, <2>6, <2>7, <2>8, <2>9, <2>10,
       <2>11, <2>12, <2>13, <2>14, <2>15
<1> QED
  BY <1>1, <1>2, TypeCorrect, PTL DEF Spec

-----------------------------------------------------------------------------
(* One record.                                                             *)

\* A user has one Status alert for a system at most: the unique index.
OneRecord == \A a, b \in Existing : a = b

\* No step of the hub creates a second record.
LEMMA OneRecordStep == TypeOK /\ OneRecord /\ [Next]_vars => OneRecord'
<1> SUFFICES ASSUME TypeOK, OneRecord, [Next]_vars PROVE OneRecord'
  OBVIOUS
<1> USE DEF TypeOK, OneRecord, Existing
<1>1. ASSUME UNCHANGED rec PROVE OneRecord'
  BY <1>1
<1>2. ASSUME NEW x \in Actors, Write(x) PROVE OneRecord'
  BY <1>2 DEF Write, OnAlert
<1>3. ASSUME NEW a \in Alerts, UpsertAlerts(a) PROVE OneRecord'
  BY <1>3 DEF UpsertAlerts
<1>4. ASSUME NEW a \in Alerts, DeleteAlerts(a) PROVE OneRecord'
  BY <1>4 DEF DeleteAlerts
<1>5. CASE Restart
  BY <1>5 DEF Restart, Resolves
<1> QED
  BY NextCases, <1>1, <1>2, <1>3, <1>4, <1>5
     DEF Find, CacheHook, HistoryHook, Notify, TimerFires, TakePending, Refresh,
         Schedule, Arm, Snapshot, CancelOrResolve, Deactivate, CancelAll, Pause,
         Resume, StatusChange, vars

-----------------------------------------------------------------------------
(* The cache, and one notification per switch, as long as only the updater *)
(* and the timers save alert records.                                      *)

\* The user leaves the system and its alerts alone.
Undisturbed == Env \subseteq {"crash"}

Saving == {"find", "write", "cache"}

\* A timer's goroutine switches its alert on, and found it off in the cache.
TimerJob(i) ==
    /\ job[i].pc \in {"idle", "refresh", "history", "notify"} \cup Saving
    /\ job[i].pc # "idle" => job[i].want = "on" /\ job[i].then = "notify"
    /\ job[i].pc \in Saving => cache[job[i].alert] = "off"
    /\ job[i].pc = "write" => job[i].orig = "off"
    /\ info[i] # "over" => job[i].pc = "idle"

Resolving == \/ job[Updater].pc \in Saving
             \/ job[Updater].pc = "cancel" /\ job[Updater].orig = "on"

\* The updater switches an alert off, and found it on in the cache.
UpdaterJob ==
    /\ job[Updater].pc \in {"idle", "down", "arm", "up", "cancel", "history",
                            "notify"} \cup Saving
    /\ job[Updater].pc \in {"cancel", "history", "notify"} \cup Saving =>
           job[Updater].want = "off" /\ job[Updater].then = "notify"
    /\ Resolving => cache[job[Updater].alert] = "on"
    /\ job[Updater].pc = "write" => job[Updater].orig = "on"

Busy(i) == info[i] = "fired" \/ job[i].pc \notin {"idle", "notify"}

\* Who saves an alert is alone with it: two timers are never both at work, and
\* a timer and the updater disagree on what the cache holds.
SoleSaver ==
    /\ status # "paused" /\ At(User, "idle")
    /\ UpdaterJob
    /\ \A i \in Infos : TimerJob(i)
    /\ \A i, k \in Infos : Busy(i) /\ Busy(k) => i = k

\* The cache lags behind the record only where a save is under way.
CacheLags ==
    /\ \A x \in Actors : At(x, "cache") => rec[job[x].alert] = job[x].want
    /\ \A a \in Alerts : rec[a] # cache[a] =>
           \E x \in Actors : At(x, "cache") /\ job[x].alert = a

SyncInv == SoleSaver /\ CacheLags

\* An alert that is being saved and not written yet is in the cache as it is
\* in the database.
LEMMA SavesWhatIsCached ==
    ASSUME TypeOK, SyncInv, NEW x \in Actors, job[x].pc \in {"find", "write"}
    PROVE  /\ job[x].alert \in Alerts
           /\ rec[job[x].alert] = cache[job[x].alert]
           /\ rec[job[x].alert] # job[x].want
           /\ rec[job[x].alert] \in {"off", "on"}
           /\ \A y \in Actors : job[y].pc \in Saving /\ y # x
                                    => job[y].alert # job[x].alert
<1> USE DEF TypeOK, SyncInv, SoleSaver, CacheLags, TimerJob, UpdaterJob, Resolving,
            Saving, Busy
<1>1. job[x].alert \in Alerts /\ x # User
  BY DEF OnAlert
<1>2. ASSUME NEW y \in Actors, job[y].pc \in Saving, y # x,
             job[y].alert = job[x].alert
      PROVE  FALSE
  <2>1. y # User
    BY <1>2
  <2>2. CASE x = Updater
    BY <1>2, <2>1, <2>2
  <2>3. CASE y = Updater
    BY <1>1, <1>2, <2>3
  <2>4. CASE x \in Infos /\ y \in Infos
    BY <1>2, <2>4
  <2> QED
    BY <1>1, <2>1, <2>2, <2>3, <2>4
<1>3. rec[job[x].alert] = cache[job[x].alert]
  BY <1>1, <1>2
<1>4. rec[job[x].alert] # job[x].want /\ rec[job[x].alert] \in {"off", "on"}
  BY <1>1, <1>3
<1> QED
  BY <1>1, <1>2, <1>3, <1>4

\* Every step keeps the savers apart.
LEMMA SoleSaverStep ==
    ASSUME Undisturbed, TypeOK, SyncInv, [Next]_vars
    PROVE  SoleSaver'
<1> USE DEF TypeOK, SoleSaver, TimerJob, UpdaterJob, Resolving, Saving, Busy, Idle
<1>0. SoleSaver
  BY DEF SyncInv
<1>1. ASSUME NEW x \in Actors, Find(x) PROVE SoleSaver'
  <2>1. x # User /\ rec[job[x].alert] = cache[job[x].alert]
    BY <1>0, <1>1, SavesWhatIsCached DEF Find
  <2>2. /\ job[x].pc = "find" /\ rec[job[x].alert] # "none"
        /\ job' = [job EXCEPT ![x] = [job[x] EXCEPT !.pc = "write",
                                                   !.orig = rec[job[x].alert]]]
        /\ UNCHANGED <<status, cache, info>>
    BY <1>1, SavesWhatIsCached DEF Find
  <2>3. /\ job'[x].pc = "write" /\ job'[x].orig = rec[job[x].alert]
        /\ job'[x].alert = job[x].alert /\ job'[x].want = job[x].want
        /\ job'[x].then = job[x].then
        /\ \A y \in Actors \ {x} : job'[y] = job[y]
    BY <2>2 DEF Jobs
  <2>4. CASE x = Updater
    BY <1>0, <2>1, <2>2, <2>3, <2>4
  <2>5. CASE x \in Infos
    BY <1>0, <2>1, <2>2, <2>3, <2>5
  <2> QED
    BY <2>1, <2>4, <2>5
<1>2. ASSUME NEW x \in Actors, Write(x) PROVE SoleSaver'
  <2>1. x # User
    BY <1>0, <1>2 DEF Write
  <2> QED
    BY <1>0, <1>2, <2>1 DEF Write
<1>3. ASSUME NEW x \in Actors, CacheHook(x) PROVE SoleSaver'
  BY <1>0, <1>3 DEF CacheHook
<1>4. ASSUME NEW x \in Actors, HistoryHook(x) PROVE SoleSaver'
  <2>1. x # User /\ job[x].then = "notify"
    BY <1>0, <1>4 DEF HistoryHook
  <2>2. /\ job[x].pc = "history" /\ UNCHANGED <<status, cache, info>>
        /\ job' = [job EXCEPT ![x] = [job[x] EXCEPT !.pc = "notify"]]
    BY <1>4, <2>1 DEF HistoryHook
  <2> QED
    BY <1>0, <2>1, <2>2 DEF Jobs
<1>5. ASSUME NEW x \in Actors, Notify(x) PROVE SoleSaver'
  BY <1>0, <1>5 DEF Notify
<1>6. ASSUME NEW i \in Infos, TimerFires(i) PROVE SoleSaver'
  BY <1>0, <1>6 DEF TimerFires
<1>7. ASSUME NEW i \in Infos, TakePending(i) PROVE SoleSaver'
  BY <1>0, <1>7 DEF TakePending
<1>8. ASSUME NEW i \in Infos, Refresh(i) PROVE SoleSaver'
  <2>1. CASE NeedsAlert(job[i].alert)
    <3>1. /\ job[i].pc = "refresh" /\ cache[job[i].alert] = "off"
          /\ job' = [job EXCEPT ![i] = [job[i] EXCEPT !.pc = "find"]]
          /\ UNCHANGED <<status, cache, info>>
      BY <1>8, <2>1 DEF Refresh, NeedsAlert
    <3>2. /\ job'[i].pc = "find" /\ job'[i].alert = job[i].alert
          /\ job'[i].want = job[i].want /\ job'[i].then = job[i].then
          /\ \A y \in Actors \ {i} : job'[y] = job[y]
      BY <3>1 DEF Jobs
    <3> QED
      BY <1>0, <3>1, <3>2
  <2>2. CASE ~NeedsAlert(job[i].alert)
    BY <1>0, <1>8, <2>2 DEF Refresh
  <2> QED
    BY <2>1, <2>2
<1>9. CASE Schedule
  BY <1>0, <1>9 DEF Schedule, Jobs
<1>10. CASE Arm
  BY <1>0, <1>10 DEF Arm
<1>11. CASE Snapshot
  BY <1>0, <1>11 DEF Snapshot
<1>12. CASE CancelOrResolve
  BY <1>0, <1>12 DEF CancelOrResolve, Cancel, Stopped, Jobs
<1>13. CASE \E new \in {"up", "down"} : StatusChange(new)
  BY <1>0, <1>13 DEF StatusChange, Jobs
<1>14. CASE Restart
  BY <1>0, <1>14 DEF Restart
<1>15. CASE UNCHANGED vars
  BY <1>0, <1>15 DEF vars
<1> QED
  BY NextCases, <1>0, <1>1, <1>2, <1>3, <1>4, <1>5, <1>6, <1>7, <1>8, <1>9,
     <1>10, <1>11, <1>12, <1>13, <1>14, <1>15
     DEF Undisturbed, Deactivate, CancelAll, Pause, Resume, UpsertAlerts, DeleteAlerts

\* FindRecordById ends the job or leads to the write.
LEMMA FindMoves ==
    ASSUME TypeOK, NEW x \in Actors, Find(x)
    PROVE  /\ job[x].pc = "find" /\ job'[x].pc \in {"idle", "write"}
           /\ \A y \in Actors \ {x} : job'[y] = job[y]
<1>1. CASE rec[job[x].alert] = "none"
  BY <1>1 DEF Find, TypeOK, Idle
<1>2. CASE rec[job[x].alert] # "none"
  <2>1. /\ job[x].pc = "find"
        /\ job' = [job EXCEPT ![x] = [job[x] EXCEPT !.pc = "write",
                                                   !.orig = rec[job[x].alert]]]
    BY <1>2 DEF Find
  <2>2. job \in [Actors -> Jobs]
    BY DEF TypeOK
  <2> QED
    BY <2>1, <2>2 DEF Jobs
<1> QED
  BY <1>1, <1>2

\* Every step keeps the cache up to date outside a save.
LEMMA CacheLagsStep ==
    ASSUME Undisturbed, TypeOK, SyncInv, [Next]_vars
    PROVE  CacheLags'
<1> USE DEF TypeOK
<1>0. SoleSaver /\ CacheLags
  BY DEF SyncInv
<1>1. ASSUME NEW x \in Actors, ~At(x, "cache"), UNCHANGED <<rec, cache>>,
             job'[x].pc # "cache", \A y \in Actors \ {x} : job'[y] = job[y]
      PROVE  CacheLags'
  BY <1>0, <1>1 DEF CacheLags
<1>2. ASSUME NEW x \in Actors, Write(x) PROVE CacheLags'
  <2> DEFINE a == job[x].alert
  <2>1. /\ a \in Alerts /\ rec[a] = cache[a] /\ rec[a] # job[x].want
        /\ rec[a] \in {"off", "on"}
        /\ \A y \in Actors : job[y].pc \in Saving /\ y # x => job[y].alert # a
    BY <1>2, SavesWhatIsCached DEF Write
  <2>2. job[x].orig # job[x].want /\ x # User /\ job[x].want \in {"off", "on"}
    BY <1>0, <1>2 DEF Write, SoleSaver, TimerJob, UpdaterJob, Saving
  <2>3. /\ rec' = [rec EXCEPT ![a] = job[x].want] /\ cache' = cache
        /\ job' = [job EXCEPT ![x] = [job[x] EXCEPT !.pc = "cache"]]
    BY <1>2, <2>1, <2>2 DEF Write
  <2>4. /\ job'[x].pc = "cache" /\ job'[x].alert = a /\ job'[x].want = job[x].want
        /\ \A y \in Actors \ {x} : job'[y] = job[y]
    BY <2>3 DEF Jobs
  <2>5. \A y \in Actors : job'[y].pc = "cache" => rec'[job'[y].alert] = job'[y].want
    <3> SUFFICES ASSUME NEW y \in Actors, job'[y].pc = "cache"
                 PROVE  rec'[job'[y].alert] = job'[y].want
      OBVIOUS
    <3>1. CASE y = x
      BY <2>1, <2>3, <2>4, <3>1
    <3>2. CASE y # x
      <4>1. job[y].pc = "cache" /\ job[y].alert # a /\ job'[y] = job[y]
        BY <2>1, <2>4, <3>2 DEF Saving
      <4> QED
        BY <1>0, <2>3, <4>1 DEF CacheLags
    <3> QED
      BY <3>1, <3>2
  <2>6. \A b \in Alerts : rec'[b] # cache'[b] =>
           \E y \in Actors : job'[y].pc = "cache" /\ job'[y].alert = b
    <3> SUFFICES ASSUME NEW b \in Alerts, rec'[b] # cache'[b]
                 PROVE  \E y \in Actors : job'[y].pc = "cache" /\ job'[y].alert = b
      OBVIOUS
    <3>1. CASE b = a
      BY <2>4, <3>1
    <3>2. CASE b # a
      <4>1. PICK y \in Actors : job[y].pc = "cache" /\ job[y].alert = b
        BY <1>0, <2>1, <2>3, <3>2 DEF CacheLags
      <4> QED
        BY <2>4, <3>2, <4>1
    <3> QED
      BY <3>1, <3>2
  <2> QED
    BY <2>5, <2>6 DEF CacheLags
<1>3. ASSUME NEW x \in Actors, CacheHook(x) PROVE CacheLags'
  <2> DEFINE a == job[x].alert
  <2>1. /\ a \in Alerts /\ rec[a] = job[x].want /\ rec' = rec
        /\ cache' = [cache EXCEPT ![a] = job[x].want]
        /\ job' = [job EXCEPT ![x] = [job[x] EXCEPT !.pc = "history"]]
    BY <1>0, <1>3 DEF CacheHook, CacheLags, OnAlert
  <2>2. job'[x].pc = "history" /\ \A y \in Actors \ {x} : job'[y] = job[y]
    BY <2>1 DEF Jobs
  <2>3. \A b \in Alerts : rec'[b] # cache'[b] =>
           \E y \in Actors : job'[y].pc = "cache" /\ job'[y].alert = b
    <3> SUFFICES ASSUME NEW b \in Alerts, rec'[b] # cache'[b]
                 PROVE  \E y \in Actors : job'[y].pc = "cache" /\ job'[y].alert = b
      OBVIOUS
    <3>1. b # a
      BY <2>1
    <3>2. PICK y \in Actors : job[y].pc = "cache" /\ job[y].alert = b
      BY <1>0, <2>1, <3>1 DEF CacheLags
    <3> QED
      BY <2>2, <3>1, <3>2
  <2>4. \A y \in Actors : job'[y].pc = "cache" => rec'[job'[y].alert] = job'[y].want
    BY <1>0, <2>1, <2>2 DEF CacheLags
  <2> QED
    BY <2>3, <2>4 DEF CacheLags
<1>4. ASSUME NEW x \in Actors, Find(x) \/ HistoryHook(x) \/ Notify(x)
      PROVE  CacheLags'
  <2>1. job[x].pc # "cache" /\ UNCHANGED <<rec, cache>>
    BY <1>4 DEF Find, HistoryHook, Notify
  <2>2. job'[x].pc # "cache" /\ \A y \in Actors \ {x} : job'[y] = job[y]
    <3>1. CASE Find(x)
      BY <3>1, FindMoves
    <3>2. CASE HistoryHook(x)
      BY <3>2 DEF HistoryHook, Jobs, Idle
    <3>3. CASE Notify(x)
      BY <3>3 DEF Notify, Idle
    <3> QED
      BY <1>4, <3>1, <3>2, <3>3
  <2> QED
    BY <1>1, <2>1, <2>2
<1>5. ASSUME NEW i \in Infos, TimerFires(i) PROVE CacheLags'
  BY <1>0, <1>5 DEF TimerFires, CacheLags
<1>6. ASSUME NEW i \in Infos, TakePending(i) PROVE CacheLags'
  <2>1. job[i].pc = "idle" /\ UNCHANGED <<rec, cache>>
    BY <1>0, <1>6 DEF TakePending, SoleSaver, TimerJob
  <2>2. job'[i].pc # "cache" /\ \A y \in Actors \ {i} : job'[y] = job[y]
    BY <1>6, <2>1 DEF TakePending
  <2> QED
    BY <1>1, <2>1, <2>2
<1>7. ASSUME NEW i \in Infos, Refresh(i) PROVE CacheLags'
  <2>1. job[i].pc # "cache" /\ UNCHANGED <<rec, cache>>
    BY <1>7 DEF Refresh
  <2>2. job'[i].pc # "cache" /\ \A y \in Actors \ {i} : job'[y] = job[y]
    BY <1>7 DEF Refresh, Idle, Jobs
  <2> QED
    BY <1>1, <2>1, <2>2
<1>8. CASE Schedule \/ Arm \/ Snapshot \/ CancelOrResolve
           \/ \E new \in {"up", "down"} : StatusChange(new)
  <2>1. job[Updater].pc # "cache" /\ UNCHANGED <<rec, cache>>
    BY <1>8 DEF Schedule, Arm, Snapshot, CancelOrResolve, StatusChange
  <2>2. /\ job'[Updater].pc # "cache"
        /\ \A y \in Actors \ {Updater} : job'[y] = job[y]
    BY <1>8 DEF Schedule, Arm, Snapshot, CancelOrResolve, StatusChange, Idle, Jobs
  <2> QED
    BY <1>1, <2>1, <2>2
<1>9. CASE Restart
  <2>1. cache' = rec' /\ \A x \in Actors : job'[x].pc = "idle"
    BY <1>9 DEF Restart, Idle
  <2> QED
    BY <2>1 DEF CacheLags
<1>10. CASE UNCHANGED vars
  BY <1>0, <1>10 DEF vars, CacheLags
<1> QED
  BY NextCases, <1>0, <1>2, <1>3, <1>4, <1>5, <1>6, <1>7, <1>8, <1>9, <1>10
     DEF Undisturbed, SoleSaver, Deactivate, CancelAll, Pause, Resume,
         UpsertAlerts, DeleteAlerts

\* While the user leaves the alerts alone, whoever saves one is alone with it.
LEMMA SyncCorrect == Undisturbed => (Spec => [](TypeOK /\ SyncInv))
<1> SUFFICES ASSUME Undisturbed PROVE Spec => [](TypeOK /\ SyncInv)
  OBVIOUS
<1>1. Init => SyncInv
  BY DEF Init, SyncInv, SoleSaver, CacheLags, TimerJob, UpdaterJob, Resolving,
         Saving, Busy, Idle
<1>2. TypeOK /\ SyncInv /\ [Next]_vars => SyncInv'
  BY SoleSaverStep, CacheLagsStep DEF SyncInv
<1> QED
  BY <1>1, <1>2, TypeCorrect, PTL DEF Spec

\* "bindEvents sets up event listeners to keep the cache in sync with database
\* changes": with any number of timers, status changes and restarts, when nobody
\* is at work the cache holds what the database does, as long as the user does
\* not write alerts at the same time.
THEOREM CacheInSyncTheorem == Undisturbed => (Spec => []CacheInSync)
<1> SUFFICES ASSUME Undisturbed PROVE Spec => []CacheInSync
  OBVIOUS
<1>1. TypeOK /\ SyncInv => CacheInSync
  BY DEF TypeOK, SyncInv, CacheLags, CacheInSync, Quiet
<1> QED
  BY <1>1, SyncCorrect, PTL

-----------------------------------------------------------------------------
(* One notification per switch.                                            *)

\* The timers' goroutines that switched alert a on and have not notified yet.
Owing(a) == {i \in Infos : /\ job[i].pc \in {"cache", "history", "notify"}
                           /\ job[i].alert = a}

\* A switch to on that was not notified has a goroutine that will notify.
DueInv == \A a \in Alerts : IsFiniteSet(Owing(a)) /\ due[a] = Cardinality(Owing(a))

\* No goroutine switched an alert on or has sent a notification.
LEMMA DueSame ==
    ASSUME DueInv, due' = due, \A a \in Alerts : Owing(a)' = Owing(a)
    PROVE  DueInv'
  BY DEF DueInv

\* Every step keeps the count of notifications due.
LEMMA DueStep ==
    ASSUME Undisturbed, TypeOK, SyncInv, DueInv, [Next]_vars
    PROVE  DueInv'
<1> USE DEF TypeOK
<1>0. SoleSaver
  BY DEF SyncInv
<1>1. ASSUME NEW x \in Actors, Find(x) PROVE DueInv'
  <2>1. due' = due /\ job[x].pc = "find" /\ job'[x].pc \in {"idle", "write"}
        /\ \A y \in Actors \ {x} : job'[y] = job[y]
    BY <1>1, FindMoves DEF Find
  <2> QED
    BY <2>1, DueSame DEF Owing
<1>2. ASSUME NEW x \in Actors, Write(x) PROVE DueInv'
  <2>0. job[x].alert \in Alerts /\ rec[job[x].alert] # "none"
    BY <1>2, SavesWhatIsCached DEF Write
  <2>1. PICK a \in Alerts : a = job[x].alert /\ rec[a] # "none"
    BY <2>0
  <2>2. /\ job[x].orig # job[x].want /\ job[x].pc = "write"
        /\ \/ x = Updater /\ job[x].want = "off"
           \/ x \in Infos /\ job[x].want = "on"
    BY <1>0, <1>2 DEF Write, SoleSaver, TimerJob, UpdaterJob, Saving
  <2>3. /\ job'[x].pc = "cache" /\ job'[x].alert = a
        /\ \A y \in Actors \ {x} : job'[y] = job[y]
    BY <1>2, <2>1 DEF Write, Jobs
  <2>4. CASE x = Updater
    <3>1. due' = due
      BY <1>2, <2>2, <2>4 DEF Write
    <3>2. \A i \in Infos : job'[i] = job[i]
      BY <2>3, <2>4
    <3> QED
      BY <3>1, <3>2, DueSame DEF Owing
  <2>5. CASE x \in Infos
    <3>1. due' = [due EXCEPT ![a] = @ + 1]
      BY <1>2, <2>1, <2>2, <2>5 DEF Write
    <3>2. x \notin Owing(a) /\ Owing(a)' = Owing(a) \cup {x}
      BY <2>1, <2>2, <2>3, <2>5 DEF Owing
    <3>3. \A b \in Alerts \ {a} : Owing(b)' = Owing(b)
      BY <2>1, <2>2, <2>3, <2>5 DEF Owing
    <3>4. IsFiniteSet(Owing(a)) /\ due[a] = Cardinality(Owing(a))
      BY <2>1 DEF DueInv
    <3>5. IsFiniteSet(Owing(a)') /\ Cardinality(Owing(a)') = Cardinality(Owing(a)) + 1
      BY <3>2, <3>4, FS_AddElement
    <3>6. due'[a] = Cardinality(Owing(a)')
      BY <2>1, <3>1, <3>4, <3>5
    <3>7. ASSUME NEW b \in Alerts
          PROVE  IsFiniteSet(Owing(b)') /\ due'[b] = Cardinality(Owing(b)')
      <4>1. CASE b = a
        BY <3>5, <3>6, <4>1
      <4>2. CASE b # a
        BY <3>1, <3>3, <4>2 DEF DueInv
      <4> QED
        BY <4>1, <4>2
    <3> QED
      BY <3>7 DEF DueInv
  <2> QED
    BY <2>2, <2>4, <2>5
<1>3. ASSUME NEW x \in Actors, CacheHook(x) PROVE DueInv'
  <2>1. /\ due' = due /\ job[x].pc = "cache" /\ job'[x].pc = "history"
        /\ job'[x].alert = job[x].alert
        /\ \A y \in Actors \ {x} : job'[y] = job[y]
    BY <1>3 DEF CacheHook, Jobs
  <2> QED
    BY <2>1, DueSame DEF Owing
<1>4. ASSUME NEW x \in Actors, HistoryHook(x) PROVE DueInv'
  <2>1. job[x].pc = "history" /\ job[x].then = "notify"
    BY <1>0, <1>4 DEF HistoryHook, SoleSaver, TimerJob, UpdaterJob
  <2>2. /\ due' = due /\ job'[x].pc = "notify" /\ job'[x].alert = job[x].alert
        /\ \A y \in Actors \ {x} : job'[y] = job[y]
    BY <1>4, <2>1 DEF HistoryHook, Jobs
  <2> QED
    BY <2>1, <2>2, DueSame DEF Owing
<1>5. ASSUME NEW x \in Actors, Notify(x) PROVE DueInv'
  <2>0. /\ job[x].alert \in Alerts /\ job[x].pc = "notify"
        /\ \/ x = Updater /\ job[x].want = "off"
           \/ x \in Infos /\ job[x].want = "on"
    BY <1>0, <1>5 DEF Notify, SoleSaver, TimerJob, UpdaterJob, OnAlert
  <2>1. PICK a \in Alerts : a = job[x].alert
    BY <2>0
  <2>2. job'[x].pc = "idle" /\ \A y \in Actors \ {x} : job'[y] = job[y]
    BY <1>5 DEF Notify, Idle
  <2>3. CASE x = Updater
    <3>1. due' = due
      BY <1>5, <2>0, <2>1, <2>3 DEF Notify
    <3> QED
      BY <2>2, <2>3, <3>1, DueSame DEF Owing
  <2>4. CASE x \in Infos
    <3>1. due' = [due EXCEPT ![a] = @ - 1]
      BY <1>5, <2>0, <2>1, <2>4 DEF Notify
    <3>2. x \in Owing(a) /\ Owing(a)' = Owing(a) \ {x}
      BY <2>0, <2>1, <2>2, <2>4 DEF Owing
    <3>3. \A b \in Alerts \ {a} : Owing(b)' = Owing(b)
      BY <2>0, <2>1, <2>2, <2>4 DEF Owing
    <3>4. IsFiniteSet(Owing(a)) /\ due[a] = Cardinality(Owing(a))
      BY <2>1 DEF DueInv
    <3>5. IsFiniteSet(Owing(a)') /\ Cardinality(Owing(a)') = Cardinality(Owing(a)) - 1
      BY <3>2, <3>4, FS_RemoveElement
    <3>6. due'[a] = Cardinality(Owing(a)')
      BY <2>1, <3>1, <3>4, <3>5
    <3>7. ASSUME NEW b \in Alerts
          PROVE  IsFiniteSet(Owing(b)') /\ due'[b] = Cardinality(Owing(b)')
      <4>1. CASE b = a
        BY <3>5, <3>6, <4>1
      <4>2. CASE b # a
        BY <3>1, <3>3, <4>2 DEF DueInv
      <4> QED
        BY <4>1, <4>2
    <3> QED
      BY <3>7 DEF DueInv
  <2> QED
    BY <2>0, <2>3, <2>4
<1>6. ASSUME NEW i \in Infos, TimerFires(i) PROVE DueInv'
  BY <1>6, DueSame DEF TimerFires, Owing
<1>7. ASSUME NEW i \in Infos, TakePending(i) PROVE DueInv'
  <2>1. /\ job[i].pc = "idle" /\ due' = due /\ job'[i].pc \in {"idle", "refresh"}
        /\ \A y \in Actors \ {i} : job'[y] = job[y]
    BY <1>0, <1>7 DEF TakePending, SoleSaver, TimerJob
  <2> QED
    BY <2>1, DueSame DEF Owing
<1>8. ASSUME NEW i \in Infos, Refresh(i) PROVE DueInv'
  <2>1. /\ job[i].pc = "refresh" /\ due' = due /\ job'[i].pc \in {"idle", "find"}
        /\ \A y \in Actors \ {i} : job'[y] = job[y]
    BY <1>8 DEF Refresh, Idle, Jobs
  <2> QED
    BY <2>1, DueSame DEF Owing
<1>9. CASE Schedule \/ Arm \/ Snapshot \/ CancelOrResolve
           \/ \E new \in {"up", "down"} : StatusChange(new)
  <2>1. due' = due /\ \A y \in Actors \ {Updater} : job'[y] = job[y]
    BY <1>9 DEF Schedule, Arm, Snapshot, CancelOrResolve, StatusChange
  <2> QED
    BY <2>1, DueSame DEF Owing
<1>10. CASE Restart
  <2>1. \A i \in Infos : job'[i].pc = "idle"
    BY <1>10 DEF Restart, Idle
  <2>2. \A a \in Alerts : due'[a] = 0 /\ Owing(a)' = {}
    BY <1>10, <2>1 DEF Restart, Owing
  <2> QED
    BY <2>2, FS_EmptySet DEF DueInv
<1>11. CASE UNCHANGED vars
  BY <1>11, DueSame DEF vars, Owing
<1> QED
  BY NextCases, <1>0, <1>1, <1>2, <1>3, <1>4, <1>5, <1>6, <1>7, <1>8, <1>9, <1>10,
     <1>11
     DEF Undisturbed, SoleSaver, Deactivate, CancelAll, Pause, Resume,
         UpsertAlerts, DeleteAlerts

\* One switch of "triggered" to on sends at most one "down" notification, with
\* any number of timers and restarts, as long as the user leaves the alerts
\* alone: the notifications still due are the goroutines that will send them.
THEOREM NotifiedOnceTheorem == Undisturbed => (Spec => []NotifiedOnce)
<1> SUFFICES ASSUME Undisturbed PROVE Spec => []NotifiedOnce
  OBVIOUS
<1>1. Init => DueInv
  <2> SUFFICES ASSUME Init, NEW a \in Alerts
               PROVE  IsFiniteSet(Owing(a)) /\ due[a] = Cardinality(Owing(a))
    BY DEF DueInv
  <2>1. Owing(a) = {} /\ due[a] = 0
    BY DEF Init, Owing, Idle
  <2> QED
    BY <2>1, FS_EmptySet
<1>2. TypeOK /\ SyncInv /\ DueInv /\ [Next]_vars => DueInv'
  BY DueStep
<1>3. DueInv => NotifiedOnce
  <2> SUFFICES ASSUME DueInv, NEW a \in Alerts PROVE due[a] >= 0
    BY DEF NotifiedOnce
  <2>1. Cardinality(Owing(a)) \in Nat
    BY FS_CardinalityType DEF DueInv
  <2> QED
    BY <2>1 DEF DueInv
<1> QED
  BY <1>1, <1>2, <1>3, SyncCorrect, PTL DEF Spec
-----------------------------------------------------------------------------
(* Pending alerts and the status of the system.                            *)

\* Records and cache have the same alerts, at most one of them; what is pending
\* is in the cache, so that handleSystemUp comes to it; and nothing is scheduled
\* but for a system that is down.
UpInv ==
    /\ OneRecord
    /\ \A a \in Alerts : rec[a] = "none" <=> cache[a] = "none"
    /\ \A a \in Alerts : pend[a] # None => cache[a] # "none" /\ status # "pending"
    /\ At(Updater, "down") => status = "down"
    /\ UpHasNoPending

\* A save leaves the pending alerts and the alerts there are as they were.
LEMMA UpSave ==
    ASSUME UpInv, UNCHANGED <<status, pend>>,
           \A a \in Alerts : (rec'[a] = "none") = (rec[a] = "none"),
           \A a \in Alerts : (cache'[a] = "none") = (cache[a] = "none"),
           \/ job'[Updater] = job[Updater]
           \/ job[Updater].pc \notin {"up", "cancel"} /\ job'[Updater].pc # "down"
    PROVE  UpInv'
  BY DEF UpInv, UpHasNoPending, OneRecord, Existing

\* Every step keeps them together.
LEMMA UpStep == ASSUME Undisturbed, TypeOK, SyncInv, UpInv, [Next]_vars PROVE UpInv'
<1> USE DEF TypeOK
<1>0. SoleSaver
  BY DEF SyncInv
<1>1. ASSUME NEW x \in Actors, Find(x) PROVE UpInv'
  <2>1. /\ \A y \in Actors \ {x} : job'[y] = job[y]
        /\ job[x].pc = "find" /\ job'[x].pc \in {"idle", "write"}
    BY <1>1, FindMoves DEF Find
  <2> QED BY <1>1, <2>1, UpSave DEF Find
<1>2. ASSUME NEW x \in Actors, Write(x) PROVE UpInv'
  <2>1. /\ rec[job[x].alert] \in {"off", "on"}
        /\ job[x].want \in {"off", "on"}
    BY <1>0, <1>2, SavesWhatIsCached DEF Write, SoleSaver, TimerJob, UpdaterJob, Saving
  <2>2. \A a \in Alerts : (rec'[a] = "none") = (rec[a] = "none")
    BY <1>2, <2>1 DEF Write
  <2>3. /\ \A y \in Actors \ {x} : job'[y] = job[y]
        /\ job[x].pc = "write" /\ job'[x].pc = "cache"
    BY <1>2 DEF Write, Goto, Set, Jobs
  <2> QED BY <1>2, <2>2, <2>3, UpSave DEF Write
<1>3. ASSUME NEW x \in Actors, CacheHook(x) PROVE UpInv'
  <2>1. job[x].want \in {"off", "on"} /\ rec[job[x].alert] = job[x].want
    BY <1>0, <1>3 DEF CacheHook, SyncInv, CacheLags, SoleSaver, TimerJob, UpdaterJob,
                      Saving
  <2>2. \A a \in Alerts : (cache'[a] = "none") = (cache[a] = "none")
    BY <1>3, <2>1 DEF CacheHook, UpInv
  <2>3. /\ \A y \in Actors \ {x} : job'[y] = job[y]
        /\ job[x].pc = "cache" /\ job'[x].pc = "history"
    BY <1>3 DEF CacheHook, Goto, Set, Jobs
  <2> QED BY <1>3, <2>2, <2>3, UpSave DEF CacheHook
<1>4. ASSUME NEW x \in Actors, HistoryHook(x) PROVE UpInv'
  <2>1. /\ \A y \in Actors \ {x} : job'[y] = job[y]
        /\ job[x].pc = "history" /\ job'[x].pc \in {"idle", "notify", "cancelAll"}
    BY <1>4 DEF HistoryHook, Goto, Set, Idle, Jobs
  <2> QED BY <1>4, <2>1, UpSave DEF HistoryHook
<1>5. ASSUME NEW x \in Actors, Notify(x) PROVE UpInv'
  <2>1. /\ \A y \in Actors \ {x} : job'[y] = job[y]
        /\ job[x].pc = "notify" /\ job'[x].pc = "idle"
    BY <1>5 DEF Notify, Set, Idle
  <2> QED BY <1>5, <2>1, UpSave DEF Notify
<1>6. ASSUME NEW i \in Infos, TimerFires(i) PROVE UpInv'
  BY <1>6, UpSave DEF TimerFires
<1>7. ASSUME NEW i \in Infos, TakePending(i) PROVE UpInv'
  <2>1. /\ UNCHANGED <<status, rec, cache>> /\ job'[Updater] = job[Updater]
        /\ \A a \in Alerts : pend'[a] # None => pend'[a] = pend[a]
    BY <1>7, AlertsAssumption DEF TakePending, Set
  <2> QED BY <2>1 DEF UpInv, UpHasNoPending, OneRecord, Existing
<1>8. ASSUME NEW i \in Infos, Refresh(i) PROVE UpInv'
  <2>1. job'[Updater] = job[Updater]
    BY <1>8, AlertsAssumption DEF Refresh, Goto, Set
  <2> QED BY <1>8, <2>1, UpSave DEF Refresh
<1>9. CASE Schedule
  <2>1. status = "down" /\ UNCHANGED <<status, rec, cache>>
    BY <1>9 DEF Schedule, UpInv
  <2>3. job'[Updater].pc \in {"arm", "idle"}
    BY <1>9 DEF Schedule, Goto, Set, Idle, Jobs
  <2>2. \A a \in Alerts : pend'[a] # None => pend[a] # None \/ cache[a] # "none"
    BY <1>9 DEF Schedule, Cached
  <2> QED BY <2>1, <2>2, <2>3 DEF UpInv, UpHasNoPending, OneRecord, Existing
<1>10. CASE Arm
  <2>1. job[Updater].pc = "arm" /\ job'[Updater].pc = "idle"
    BY <1>10 DEF Arm, Set, Idle
  <2> QED BY <1>10, <2>1, UpSave DEF Arm
<1>11. CASE Snapshot
  <2>1. \A a \in Alerts : pend[a] # None => a \in Cached
    BY DEF UpInv, Cached
  <2>2. \A a, b \in Cached : a = b
    BY DEF UpInv, OneRecord, Existing, Cached
  <2>3. \/ Cached = {} /\ job'[Updater].pc = "idle"
        \/ \E a \in Cached : job'[Updater].pc = "cancel" /\ job'[Updater].alert = a
    BY <1>11 DEF Snapshot, Set, Save, Idle
  <2>4. \A a \in Alerts : pend[a] # None =>
            job'[Updater].pc = "cancel" /\ job'[Updater].alert = a
    BY <2>1, <2>2, <2>3
  <2> QED BY <1>11, <2>3, <2>4 DEF Snapshot, UpInv, UpHasNoPending, OneRecord, Existing
<1>12. CASE CancelOrResolve
  <2>1. /\ UNCHANGED <<status, rec, cache>> /\ job[Updater].pc = "cancel"
        /\ job'[Updater].pc # "down"
        /\ \A a \in Alerts : pend'[a] # None => pend'[a] = pend[a]
        /\ pend'[job[Updater].alert] = None
    BY <1>12 DEF CancelOrResolve, Cancel, Set, Goto, Idle, Jobs, OnAlert
  <2> QED BY <2>1 DEF UpInv, UpHasNoPending, OneRecord, Existing
<1>13. ASSUME NEW new \in {"up", "down"}, StatusChange(new) PROVE UpInv'
  <2>1. /\ status' = new /\ UNCHANGED <<rec, cache, pend>>
        /\ job[Updater].pc = "idle"
        /\ IF status = "pending" THEN job' = job ELSE job'[Updater].pc = new
    BY <1>13 DEF StatusChange, Goto, Set, Jobs
  <2>2. OneRecord' /\ \A a \in Alerts : pend'[a] # None => cache'[a] # "none"
    BY <2>1 DEF UpInv, OneRecord, Existing
  <2>3. status' # "pending" /\ (job'[Updater].pc = "down" => new = "down")
    BY <2>1
  <2>4. new = "up" /\ job'[Updater].pc # "up" => \A a \in Alerts : pend'[a] = None
    BY <2>1 DEF UpInv
  <2> QED BY <2>1, <2>2, <2>3, <2>4 DEF UpInv, UpHasNoPending
<1>14. CASE Restart
  <2>1. OneRecord'
    BY <1>14, OneRecordStep DEF UpInv
  <2>2. cache' = rec' /\ UNCHANGED status /\ job'[Updater].pc = "idle"
    BY <1>14 DEF Restart, Idle
  <2>3. \A a \in Alerts : pend'[a] # None => Restores(a)
    BY <1>14 DEF Restart
  <2>4. \A a \in Alerts : Restores(a) => rec'[a] # "none" /\ status = "down"
    BY <1>14 DEF Restart, Restores
  <2> QED BY <2>1, <2>2, <2>3, <2>4 DEF UpInv, UpHasNoPending
<1>15. CASE UNCHANGED vars
  BY <1>15, UpSave DEF vars
<1> QED
  BY NextCases, <1>0, <1>1, <1>2, <1>3, <1>4, <1>5, <1>6, <1>7, <1>8, <1>9, <1>10,
     <1>11, <1>12, <1>13, <1>14, <1>15
     DEF Undisturbed, SoleSaver, Deactivate, CancelAll, Pause, Resume,
         UpsertAlerts, DeleteAlerts

\* While the system is up nothing is pending but what the updater is about to
\* cancel, with any number of timers, outages and restarts, as long as the user
\* leaves system and alerts alone.
THEOREM UpHasNoPendingTheorem == Undisturbed => (Spec => []UpHasNoPending)
<1> SUFFICES ASSUME Undisturbed PROVE Spec => []UpHasNoPending
  OBVIOUS
<1>1. Init => UpInv
  BY DEF Init, UpInv, UpHasNoPending, OneRecord, Idle
<1>2. TypeOK /\ SyncInv /\ UpInv /\ [Next]_vars => UpInv'
  BY UpStep
<1>3. UpInv => UpHasNoPending
  BY DEF UpInv
<1> QED
  BY <1>1, <1>2, <1>3, SyncCorrect, PTL DEF Spec
=============================================================================
