------------------------ MODULE RealtimeWorkerProofs ------------------------
(***************************************************************************)
(* Types of RealtimeWorker, for any systems, handlers and workers and      *)
(* whatever the requests do to each other.                                 *)
(***************************************************************************)
EXTENDS RealtimeWorker, TLAPS

USE RealtimeAssumption
USE DEF At, Goto, None

\* The next-state relation, its steps named for the case splits below.
LEMMA NextCases ==
    ASSUME [Next]_vars
    PROVE  \/ \E h \in Handlers, adds, rems \in SUBSET Systems :
                  adds \cap rems = {} /\ Handle(h, adds, rems)
           \/ \E h \in Handlers : \/ AddNext(h) \/ RemoveNext(h) \/ Increment(h)
                                  \/ onRealtimeSubscriptionAdded(h)
                                  \/ Decrement(h) \/ Drop(h) \/ Check(h) \/ Stop(h)
           \/ \E w \in Workers : Fetch(w) \/ Tick(w)
           \/ \E s \in Systems : Notify(s)
           \/ ConcurrentMapFault
           \/ UNCHANGED vars
  BY DEF Next, HandlerStep, WorkerStep, onRealtimeSubscribeRequest,
         onRealtimeConnectRequest

-----------------------------------------------------------------------------
(* Types.                                                                  *)

\* A handler that works on a system knows which one.
JobOK(j) == /\ j \in [pc : Pcs, sys : Systems \cup {None},
                      adds : SUBSET Systems, rems : SUBSET Systems]
            /\ j.pc \in OnSystem => j.sys \in Systems

\* Replacing one handler's job by a well-typed one keeps all jobs well typed.
LEMMA JobTypes ==
    ASSUME TypeOK, NEW h \in Handlers, NEW j, JobOK(j),
           job' = [job EXCEPT ![h] = j]
    PROVE  /\ job' \in [Handlers -> [pc : Pcs, sys : Systems \cup {None},
                                     adds : SUBSET Systems, rems : SUBSET Systems]]
           /\ \A k \in Handlers : job'[k].pc \in OnSystem => job'[k].sys \in Systems
  BY DEF TypeOK, JobOK

\* The uint8 arithmetic of connectedClients stays within its width.
LEMMA CountTypes ==
    ASSUME NEW n \in 0 .. (CountLimit - 1)
    PROVE  Plus(n) \in 0 .. (CountLimit - 1) /\ Minus(n) \in 0 .. (CountLimit - 1)
  BY DEF Plus, Minus

\* Every step keeps the state well typed.
LEMMA TypeStep == ASSUME TypeOK, [Next]_vars PROVE TypeOK'
<1>j. \A h \in Handlers : JobOK(job[h])
  BY DEF TypeOK, JobOK
<1>i. JobOK(Idle)
  BY DEF JobOK, Idle, Pcs, OnSystem
<1>1. ASSUME NEW h \in Handlers, NEW adds \in SUBSET Systems,
             NEW rems \in SUBSET Systems, Handle(h, adds, rems)
      PROVE  TypeOK'
  <2>1. JobOK([pc |-> "next", sys |-> None, adds |-> adds, rems |-> rems])
    BY DEF JobOK, Pcs, OnSystem
  <2>2. clients' \in [Systems -> 0 .. MaxClients]
    BY <1>1 DEF Handle, TypeOK
  <2>3. overlaps' \in Nat
    BY <1>1 DEF Handle, TypeOK
  <2> QED BY <1>1, <2>1, <2>2, <2>3, JobTypes DEF Handle, TypeOK
<1>2. ASSUME NEW h \in Handlers, AddNext(h) PROVE TypeOK'
  <2>1. PICK s \in job[h].adds :
           /\ active' = active \cup {s}
           /\ count' = IF s \in active THEN count ELSE [count EXCEPT ![s] = 0]
           /\ job' = [job EXCEPT ![h] = [job[h] EXCEPT !.pc = "inc", !.sys = s]]
    BY <1>2 DEF AddNext, TypeOK
  <2>2. s \in Systems BY <1>j DEF JobOK
  <2>3. JobOK([job[h] EXCEPT !.pc = "inc", !.sys = s])
    BY <1>j, <2>2 DEF JobOK, Pcs, OnSystem
  <2>4. count' \in [Systems -> 0 .. (CountLimit - 1)]
    BY <2>1, <2>2 DEF TypeOK
  <2>5. active' \subseteq Systems
    BY <2>1, <2>2 DEF TypeOK
  <2> QED BY <1>2, <2>1, <2>3, <2>4, <2>5, JobTypes DEF AddNext, TypeOK
<1>3. ASSUME NEW h \in Handlers, RemoveNext(h) PROVE TypeOK'
  <2>1. ASSUME NEW s \in job[h].rems,
               job' = [job EXCEPT ![h] = [job[h] EXCEPT !.pc = "dec", !.sys = s]]
        PROVE  TypeOK'
    <3>1. s \in Systems BY <1>j DEF JobOK
    <3>2. JobOK([job[h] EXCEPT !.pc = "dec", !.sys = s])
      BY <1>j, <3>1 DEF JobOK, Pcs, OnSystem
    <3> QED BY <1>3, <2>1, <3>2, JobTypes DEF RemoveNext, TypeOK
  <2>2. CASE job' = [job EXCEPT ![h] = Idle]
    BY <1>3, <1>i, <2>2, JobTypes DEF RemoveNext, TypeOK
  <2> QED BY <1>3, <2>1, <2>2 DEF RemoveNext, TypeOK
<1>4. ASSUME NEW h \in Handlers, Increment(h) PROVE TypeOK'
  <2> DEFINE s == job[h].sys
             j == [job[h] EXCEPT !.pc = "added", !.adds = @ \ {s}]
  <2>1. s \in Systems BY <1>4 DEF Increment, TypeOK, OnSystem
  <2>2. JobOK(j)
    BY <1>j DEF JobOK, Pcs, OnSystem
  <2>3. \/ job' = [job EXCEPT ![h] = Idle]
        \/ job' = [job EXCEPT ![h] = j]
    BY <1>4 DEF Increment, TypeOK
  <2>4. count' \in [Systems -> 0 .. (CountLimit - 1)]
    BY <1>4, <2>1, CountTypes DEF Increment, TypeOK
  <2> HIDE DEF j
  <2> QED BY <1>4, <1>i, <2>2, <2>3, <2>4, JobTypes DEF Increment, TypeOK
<1>5. ASSUME NEW h \in Handlers, onRealtimeSubscriptionAdded(h) PROVE TypeOK'
  <2>1. JobOK([job[h] EXCEPT !.pc = "next"])
    BY <1>j DEF JobOK, Pcs, OnSystem
  <2>2. job' = [job EXCEPT ![h] = [job[h] EXCEPT !.pc = "next"]]
    BY <1>5 DEF onRealtimeSubscriptionAdded, TypeOK
  <2>3. worker' \in [Workers -> Places]
    BY <1>5 DEF onRealtimeSubscriptionAdded, TypeOK, Places
  <2> QED BY <1>5, <2>1, <2>2, <2>3, JobTypes DEF onRealtimeSubscriptionAdded, TypeOK
<1>6. ASSUME NEW h \in Handlers, Decrement(h) PROVE TypeOK'
  <2> DEFINE s == job[h].sys
             j(pc) == [job[h] EXCEPT !.pc = pc, !.rems = @ \ {s}]
  <2>1. s \in Systems BY <1>6 DEF Decrement, TypeOK, OnSystem
  <2>2. JobOK(j("check")) /\ JobOK(j("drop"))
    BY <1>j, <2>1 DEF JobOK, Pcs, OnSystem
  <2>3. \/ job' = [job EXCEPT ![h] = j("check")]
        \/ job' = [job EXCEPT ![h] = j("drop")]
    BY <1>6 DEF Decrement, TypeOK
  <2>4. count' \in [Systems -> 0 .. (CountLimit - 1)]
    BY <1>6, <2>1, CountTypes DEF Decrement, TypeOK
  <2> HIDE DEF j
  <2> QED BY <1>6, <2>2, <2>3, <2>4, JobTypes DEF Decrement, TypeOK
<1>7. ASSUME NEW h \in Handlers, Drop(h) PROVE TypeOK'
  <2>1. \A k \in Handlers : JobOK([job[k] EXCEPT !.pc = "check"])
    BY <1>j DEF JobOK, Pcs, OnSystem
  <2>2. \A k \in Handlers : At(k, "drop") => JobOK([job[k] EXCEPT !.pc = "dropOrphan"])
    BY <1>j DEF JobOK, Pcs, OnSystem
  <2>3. CASE Unused(h)
    <3>1. job' = [k \in Handlers |->
                  IF k = h THEN [job[h] EXCEPT !.pc = "check"]
                  ELSE IF At(k, "drop") /\ job[k].sys = job[h].sys
                  THEN [job[k] EXCEPT !.pc = "dropOrphan"] ELSE job[k]]
      BY <1>7, <2>3 DEF Drop
    <3>2. \A k \in Handlers : JobOK(job'[k])
      BY <1>j, <2>1, <2>2, <3>1
    <3>3. job' \in [Handlers -> [pc : Pcs, sys : Systems \cup {None},
                                 adds : SUBSET Systems, rems : SUBSET Systems]]
      BY <3>1, <3>2 DEF JobOK
    <3> QED BY <1>7, <2>3, <3>2, <3>3 DEF Drop, TypeOK, JobOK
  <2>4. CASE ~Unused(h)
    <3>1. job' = [job EXCEPT ![h] = [job[h] EXCEPT !.pc = "check"]]
      BY <1>7, <2>4 DEF Drop, TypeOK
    <3> QED BY <1>7, <2>1, <2>4, <3>1, JobTypes DEF Drop, TypeOK
  <2> QED BY <2>3, <2>4
<1>8. ASSUME NEW h \in Handlers, Check(h) PROVE TypeOK'
  <2> DEFINE pc == IF running /\ active = {} THEN "stop" ELSE "next"
  <2>1. JobOK([job[h] EXCEPT !.pc = pc])
    BY <1>j DEF JobOK, Pcs, OnSystem
  <2>2. job' = [job EXCEPT ![h] = [job[h] EXCEPT !.pc = pc]]
    BY <1>8 DEF Check, TypeOK
  <2> HIDE DEF pc
  <2> QED BY <1>8, <2>1, <2>2, JobTypes DEF Check, TypeOK
<1>9. ASSUME NEW h \in Handlers, Stop(h) PROVE TypeOK'
  <2>1. JobOK([job[h] EXCEPT !.pc = "next"])
    BY <1>j DEF JobOK, Pcs, OnSystem
  <2>2. job' = [job EXCEPT ![h] = [job[h] EXCEPT !.pc = "next"]]
    BY <1>9 DEF Stop, TypeOK
  <2>3. worker' \in [Workers -> Places]
    BY <1>9 DEF Stop, TypeOK, Places
  <2> QED BY <1>9, <2>1, <2>2, <2>3, JobTypes DEF Stop, TypeOK
<1>10. ASSUME NEW w \in Workers, Fetch(w) \/ Tick(w) PROVE TypeOK'
  BY <1>10 DEF Fetch, Tick, TypeOK, Places
<1>11. ASSUME NEW s \in Systems, Notify(s) PROVE TypeOK'
  BY <1>11 DEF Notify, TypeOK
<1>12. CASE ConcurrentMapFault
  <2>1. 0 \in 0 .. MaxClients /\ 0 \in 0 .. (CountLimit - 1) OBVIOUS
  <2> QED BY <1>12, <1>i, <2>1 DEF ConcurrentMapFault, TypeOK, JobOK, Places
<1>13. CASE UNCHANGED vars
  BY <1>13 DEF vars, TypeOK
<1> QED BY <1>1, <1>2, <1>3, <1>4, <1>5, <1>6, <1>7, <1>8, <1>9, <1>10, <1>11,
           <1>12, <1>13, NextCases

\* The hub starts without clients, subscriptions and workers.
LEMMA TypeInit == Init => TypeOK
<1>1. 0 \in 0 .. MaxClients /\ 0 \in 0 .. (CountLimit - 1) OBVIOUS
<1>2. JobOK(Idle)
  BY DEF JobOK, Idle, Pcs, OnSystem
<1>3. Init => \A h \in Handlers : JobOK(job[h])
  BY <1>2 DEF Init
<1>4. Init => job \in [Handlers -> [pc : Pcs, sys : Systems \cup {None},
                                   adds : SUBSET Systems, rems : SUBSET Systems]]
  BY <1>2 DEF Init, JobOK
<1>5. Init => /\ clients \in [Systems -> 0 .. MaxClients]
              /\ count \in [Systems -> 0 .. (CountLimit - 1)]
  BY <1>1 DEF Init
<1>6. Init => /\ worker \in [Workers -> Places]
              /\ active \subseteq Systems /\ fetching \subseteq Systems
              /\ running \in BOOLEAN
  BY DEF Init, Places
<1>7. Init => \A h \in Handlers : job[h].pc \in OnSystem => job[h].sys \in Systems
  BY <1>3 DEF JobOK
<1>8. Init => overlaps \in Nat
  BY DEF Init
<1> QED BY <1>4, <1>5, <1>6, <1>7, <1>8 DEF TypeOK

\* The state stays well typed whatever the requests do to each other; with it
\* connectedClients stays within its width and every handler that works on a
\* system has one.
THEOREM TypeCorrect == Spec => []TypeOK
  BY TypeInit, TypeStep, PTL DEF Spec
=============================================================================
