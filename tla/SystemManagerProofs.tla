------------------------ MODULE SystemManagerProofs ------------------------
(***************************************************************************)
(* Proofs about SystemManager, for any number of connections, restarts and *)
(* operations that overlap, and every choice of what may happen.           *)
(***************************************************************************)
EXTENDS SystemManager, TLAPS

USE ManagerAssumption
USE DEF At, Set, Goto, None, User, Resumer, Threads, Statuses, memory, net

\* The next-state relation, its steps named for the case splits below.
LEMMA NextCases ==
    ASSUME [Next]_vars
    PROVE  \/ \E x \in Threads : \/ Remove(x) \/ Forget(x) \/ Update(x) \/ Answered(x)
                                 \/ NotAnswered(x) \/ Read(x) \/ SetDown(x) \/ SaveRecord(x)
                                 \/ Hook(x) \/ OrphanHook(x)
           \/ \E i \in Instances : \/ Connect(i) \/ Add(i) \/ Put(i) \/ Start(i)
                                   \/ Cancelled(i) \/ Tick(i) \/ Down(i)
                                   \/ OnClose(i) \/ FiveSeconds(i)
           \/ PauseHook \/ ResumeHook \/ Pause \/ Resume \/ Delete \/ Rotate
           \/ Restart
           \/ UNCHANGED vars
  BY DEF Next, RecordStep, AddStep, LoopStep, UserStep, UserRequest

-----------------------------------------------------------------------------
(* Types.                                                                  *)

\* Replacing one thread's job by a well-typed one keeps all jobs well typed.
LEMMA JobTypes ==
    ASSUME TypeOK, NEW x \in Threads, NEW j, JobOK(j), job' = [job EXCEPT ![x] = j]
    PROVE  job' \in [Threads -> Jobs] /\ \A y \in Threads : JobOK(job'[y])
<1>1. j \in Jobs BY DEF JobOK
<1>2. \A y \in Threads : job'[y] = IF y = x THEN j ELSE job[y]
  BY DEF TypeOK
<1> QED BY <1>1, <1>2 DEF TypeOK

\* A job that works on an instance may move on to each of these steps.
LEMMA MoveTypes ==
    ASSUME NEW j, JobOK(j), j.of \in Instances,
           NEW pc \in OnInstance \cup {"over", "save", "hook", "orphanHook"}
    PROVE  JobOK([j EXCEPT !.pc = pc])
<1>1. j \in Jobs /\ pc \in Pcs /\ pc \notin {"remove", "forget"}
  BY DEF JobOK, Pcs, Resting, OnInstance
<1>2. [j EXCEPT !.pc = pc] \in Jobs
  BY <1>1 DEF Jobs
<1>3. [j EXCEPT !.pc = pc].pc = pc /\ [j EXCEPT !.pc = pc].of = j.of
  BY <1>1 DEF Jobs
<1> QED BY <1>1, <1>2, <1>3 DEF JobOK

\* A job may move on to the hook whatever it works on.
LEMMA HookTypes ==
    ASSUME NEW j, JobOK(j), NEW pc \in {"hook", "orphanHook"}
    PROVE  JobOK([j EXCEPT !.pc = pc])
<1>1. j \in Jobs /\ pc \in Pcs
  BY DEF JobOK, Pcs
<1>2. [j EXCEPT !.pc = pc] \in Jobs /\ [j EXCEPT !.pc = pc].pc = pc
  BY <1>1 DEF Jobs
<1> QED BY <1>2 DEF JobOK, OnInstance

\* A job may call RemoveSystem, and knows where to return.
LEMMA RemoveTypes ==
    ASSUME NEW j, JobOK(j), NEW then,
           then = "idle" \/ (then \in {"add", "loop", "setDown"} /\ j.of \in Instances)
    PROVE  JobOK([j EXCEPT !.pc = "remove", !.then = then])
<1>1. j \in Jobs /\ "remove" \in Pcs BY DEF JobOK, Pcs
<1>2. [j EXCEPT !.pc = "remove", !.then = then] \in Jobs
  BY <1>1 DEF Jobs
<1>3. LET k == [j EXCEPT !.pc = "remove", !.then = then]
      IN  k.pc = "remove" /\ k.of = j.of /\ k.then = then
  BY <1>1 DEF Jobs
<1> QED BY <1>2, <1>3 DEF JobOK, OnInstance

\* A thread between two operations is well typed, and it may go on from there.
LEMMA RestTypes ==
    ASSUME NEW x \in Threads
    PROVE  /\ JobOK(Rest(x)) /\ JobOK(Fresh(x))
           /\ Rest(x).pc = "idle" \/ (Rest(x).pc = "loop" /\ x \in Instances)
           /\ x \in Instances => /\ JobOK([Rest(x) EXCEPT !.pc = "start"])
                                 /\ JobOK([Rest(x) EXCEPT !.pc = "over"])
           /\ JobOK([Rest(x) EXCEPT !.pc = "remove", !.then = Rest(x).pc])
           /\ Rest(x).then = "over" /\ Fresh(x).then = "over"
<1>1. CASE x \in Instances
  <2>1. /\ Rest(x) = Job("loop", x, "up", "up", "over")
        /\ Fresh(x) = Job("unused", None, "up", "up", "over")
    BY <1>1 DEF Rest, Fresh
  <2>2. /\ JobOK(Rest(x)) /\ JobOK(Fresh(x)) /\ Rest(x).pc = "loop"
        /\ Rest(x).of \in Instances /\ Rest(x).then = "over" /\ Fresh(x).then = "over"
    BY <1>1, <2>1 DEF Job, JobOK, Jobs, Pcs, OnInstance, Resting
  <2>3. JobOK([Rest(x) EXCEPT !.pc = "start"]) /\ JobOK([Rest(x) EXCEPT !.pc = "over"])
    BY <2>2, MoveTypes DEF OnInstance
  <2>4. JobOK([Rest(x) EXCEPT !.pc = "remove", !.then = Rest(x).pc])
    BY <2>2, RemoveTypes
  <2> QED BY <1>1, <2>2, <2>3, <2>4
<1>2. CASE x \notin Instances
  <2>1. /\ Rest(x) = Job("idle", None, "up", "up", "over")
        /\ Fresh(x) = Job("idle", None, "up", "up", "over")
    BY <1>2 DEF Rest, Fresh
  <2>2. /\ JobOK(Rest(x)) /\ JobOK(Fresh(x)) /\ Rest(x).pc = "idle"
        /\ Rest(x).then = "over" /\ Fresh(x).then = "over"
    BY <2>1 DEF Job, JobOK, Jobs, Pcs, OnInstance, Resting
  <2>3. JobOK([Rest(x) EXCEPT !.pc = "remove", !.then = Rest(x).pc])
    BY <2>2, RemoveTypes
  <2> QED BY <1>2, <2>2, <2>3
<1> QED BY <1>1, <1>2

\* RemoveSystem moves on to its second step, or returns.
LEMMA ReturnTypes ==
    ASSUME NEW j, JobOK(j), j.pc \in {"remove", "forget"}
    PROVE  JobOK([j EXCEPT !.pc = "forget"]) /\ JobOK([j EXCEPT !.pc = j.then])
<1>1. j \in Jobs /\ "forget" \in Pcs BY DEF JobOK, Pcs
<1>2. JobOK([j EXCEPT !.pc = "forget"])
  <2>1. LET k == [j EXCEPT !.pc = "forget"]
        IN  k \in Jobs /\ k.pc = "forget" /\ k.of = j.of /\ k.then = j.then
    BY <1>1 DEF Jobs
  <2> QED BY <2>1 DEF JobOK, OnInstance
<1>3. JobOK([j EXCEPT !.pc = j.then])
  <2>1. j.then \in Pcs /\ j.then \notin {"remove", "forget"}
    BY DEF JobOK, Pcs, OnInstance, Resting
  <2>2. LET k == [j EXCEPT !.pc = j.then]
        IN  k \in Jobs /\ k.pc = j.then /\ k.of = j.of
    BY <1>1, <2>1 DEF Jobs
  <2>3. j.then \in OnInstance => j.of \in Instances
    BY DEF JobOK, OnInstance
  <2> QED BY <2>1, <2>2, <2>3 DEF JobOK
<1> QED BY <1>2, <1>3

\* A job may save a status.
LEMMA SaveTypes ==
    ASSUME NEW j, JobOK(j), NEW want \in Statuses, NEW old \in Statuses
    PROVE  JobOK([j EXCEPT !.pc = "save", !.want = want, !.old = old])
<1>1. j \in Jobs /\ "save" \in Pcs BY DEF JobOK, Pcs
<1>2. LET k == [j EXCEPT !.pc = "save", !.want = want, !.old = old]
      IN  k \in Jobs /\ k.pc = "save"
  BY <1>1 DEF Jobs
<1> QED BY <1>2 DEF JobOK, OnInstance

\* The end of a save is well typed.
LEMMA DoneTypes ==
    ASSUME TypeOK, NEW x \in Threads
    PROVE  JobOK(Done(x)) /\ Done(x).then \in {"over", "idle"}
<1>1. CASE job[x].then = "rotated"
  <2>1. JobOK(job[x]) BY DEF TypeOK
  <2>2. [job[x] EXCEPT !.pc = "remove", !.then = "idle"].then = "idle"
    BY <2>1 DEF JobOK, Jobs
  <2>3. \A then : then = "idle" => JobOK([job[x] EXCEPT !.pc = "remove", !.then = then])
    BY <2>1, RemoveTypes
  <2> QED BY <1>1, <2>2, <2>3 DEF Done
<1>2. CASE job[x].then # "rotated"
  BY <1>2, RestTypes DEF Done
<1> QED BY <1>1, <1>2

\* What follows a failed update is well typed.
LEMMA FailedTypes ==
    ASSUME TypeOK, NEW x \in Threads, job[x].of \in Instances
    PROVE  /\ JobOK(Failed(x))
           /\ Failed(x).pc \in {"idle", "setDown"}
           /\ Failed(x).then \in {"over", job[x].then}
<1>1. JobOK(job[x]) /\ job[x] \in Jobs BY DEF TypeOK, JobOK
<1>2. CASE x \in Instances
  BY <1>1, <1>2, MoveTypes DEF Failed, OnInstance, Jobs
<1>3. CASE x \notin Instances
  BY <1>1, <1>3, RestTypes DEF Failed
<1> QED BY <1>2, <1>3

\* The jobs that the requests start with are well typed.
LEMMA FirstTypes ==
    ASSUME NEW want \in Statuses, NEW old \in Statuses, NEW i \in Instances
    PROVE  /\ JobOK(Job("hook", None, want, old, "idle"))
           /\ JobOK(Job("remove", None, "up", "up", "idle"))
           /\ JobOK(Job("update", i, "up", "up", "idle"))
           /\ JobOK(Job("setDown", i, "down", old, "rotated"))
           /\ JobOK(Job("add", i, "up", "up", "add"))
           /\ JobOK(Job("remove", i, "up", "up", "add"))
  BY DEF Job, JobOK, Jobs, Pcs, OnInstance, Resting

\* The statuses in memory stay statuses.
LEMMA MemTypes ==
    ASSUME TypeOK, NEW s \in Statuses, store # None
    PROVE  HookMemory(s) \in [Instances -> Statuses]
  BY DEF TypeOK, HookMemory

\* The links stay links.
LEMMA LinkTypes ==
    ASSUME TypeOK, NEW i \in Instances
    PROVE  CloseLink(i) \in [Instances -> {"none", "open", "closing", "closed"}]
  BY DEF TypeOK, CloseLink

TypeRest == /\ db \in Statuses \cup {"deleted"}
            /\ store \in Instances \cup {None}
            /\ mem \in [Instances -> Statuses]
            /\ link \in [Instances -> {"none", "open", "closing", "closed"}]
            /\ detached \subseteq Instances
            /\ cancelled \subseteq Instances
            /\ signal \in [Instances -> {"none", "sleeping", "ready"}]
            /\ overlaps \in Nat
            /\ restarts \in Nat

\* The count of overlaps stays a count.
LEMMA StartsTypes == ASSUME TypeRest, Starts PROVE overlaps' \in Nat
  BY DEF TypeRest, Starts

\* A step that gives one thread a well-typed job and keeps the rest well typed.
LEMMA TypeBy ==
    ASSUME TypeOK, TypeRest', NEW x \in Threads, NEW j, JobOK(j),
           job' = [job EXCEPT ![x] = j]
    PROVE  TypeOK'
  BY JobTypes DEF TypeOK, TypeRest

\* Every step keeps the state well typed.
LEMMA TypeStep == ASSUME TypeOK, [Next]_vars PROVE TypeOK'
<1>j. \A x \in Threads : JobOK(job[x]) /\ job[x] \in Jobs
  BY DEF TypeOK, JobOK
<1>r. TypeRest BY DEF TypeOK, TypeRest
<1>i. \A i \in Instances : i \in Threads
  OBVIOUS
<1>u. User \in Threads /\ Resumer \in Threads
  OBVIOUS
<1>1. ASSUME NEW x \in Threads, Remove(x) PROVE TypeOK'
  <2>1. JobOK([job[x] EXCEPT !.pc = "forget"]) /\ JobOK([job[x] EXCEPT !.pc = job[x].then])
    BY <1>1, <1>j, ReturnTypes DEF Remove
  <2>2. TypeRest'
    BY <1>1, <1>r, LinkTypes DEF Remove, TypeRest, Cancels
  <2> QED BY <1>1, <2>1, <2>2, TypeBy DEF Remove
<1>2. ASSUME NEW x \in Threads, Forget(x) PROVE TypeOK'
  <2>1. JobOK([job[x] EXCEPT !.pc = job[x].then])
    BY <1>2, <1>j, ReturnTypes DEF Forget
  <2>2. TypeRest' BY <1>2, <1>r DEF Forget, TypeRest, Forgets
  <2> QED BY <1>2, <2>1, <2>2, TypeBy DEF Forget
<1>3. ASSUME NEW x \in Threads, Update(x) PROVE TypeOK'
  <2>1. job[x].of \in Instances
    BY <1>3, <1>j DEF Update, JobOK, OnInstance
  <2>2. JobOK([job[x] EXCEPT !.pc = "fetch"])
    BY <1>j, <2>1, MoveTypes DEF OnInstance
  <2>3. JobOK(Rest(x)) /\ JobOK([job[x] EXCEPT !.pc = "remove", !.then = Rest(x).pc])
    BY <1>j, <2>1, RestTypes, RemoveTypes
  <2>4. TypeRest' BY <1>3, <1>r DEF Update, TypeRest
  <2>5. \/ job' = [job EXCEPT ![x] = [job[x] EXCEPT !.pc = "fetch"]]
        \/ job' = [job EXCEPT ![x] = Rest(x)]
        \/ job' = [job EXCEPT ![x] = [job[x] EXCEPT !.pc = "remove", !.then = Rest(x).pc]]
    BY <1>3 DEF Update
  <2> QED BY <2>2, <2>3, <2>4, <2>5, TypeBy
<1>4. ASSUME NEW x \in Threads, Answered(x) \/ NotAnswered(x) PROVE TypeOK'
  <2>1. job[x].of \in Instances
    BY <1>4, <1>j DEF Answered, NotAnswered, JobOK, OnInstance
  <2>2. JobOK([job[x] EXCEPT !.pc = "read"]) /\ JobOK(Failed(x))
    BY <1>j, <2>1, MoveTypes, FailedTypes DEF OnInstance
  <2>3. TypeRest' BY <1>4, <1>r DEF Answered, NotAnswered, TypeRest
  <2>4. \/ job' = [job EXCEPT ![x] = [job[x] EXCEPT !.pc = "read"]]
        \/ job' = [job EXCEPT ![x] = Failed(x)]
    BY <1>4 DEF Answered, NotAnswered
  <2> QED BY <2>2, <2>3, <2>4, TypeBy
<1>5. ASSUME NEW x \in Threads, Read(x) PROVE TypeOK'
  <2>1. job[x].of \in Instances
    BY <1>5, <1>j DEF Read, JobOK, OnInstance
  <2>2. JobOK([job[x] EXCEPT !.pc = "remove", !.then = Failed(x).pc])
    BY <1>j, <2>1, FailedTypes, RemoveTypes
  <2>3. db # "deleted" => JobOK([job[x] EXCEPT !.pc = "save", !.want = "up", !.old = db])
    BY <1>j, <1>r, SaveTypes DEF TypeRest
  <2>4. TypeRest' BY <1>5, <1>r DEF Read, TypeRest
  <2>5. CASE db = "deleted"
    BY <1>5, <2>2, <2>4, <2>5, TypeBy DEF Read, Missing
  <2>6. CASE db # "deleted"
    BY <1>5, <2>3, <2>4, <2>6, TypeBy DEF Read, Missing
  <2> QED BY <2>5, <2>6
<1>6. ASSUME NEW x \in Threads, SetDown(x) PROVE TypeOK'
  <2>1. job[x].of \in Instances
    BY <1>6, <1>j DEF SetDown, JobOK, OnInstance
  <2>2. JobOK(Done(x)) /\ JobOK([job[x] EXCEPT !.pc = "remove", !.then = Rest(x).pc])
    BY <1>j, <2>1, DoneTypes, RestTypes, RemoveTypes
  <2>3. db # "deleted" => JobOK([job[x] EXCEPT !.pc = "save", !.want = "down", !.old = db])
    BY <1>j, <1>r, SaveTypes DEF TypeRest
  <2>4. TypeRest' BY <1>6, <1>r DEF SetDown, TypeRest
  <2>5. \/ job' = [job EXCEPT ![x] = Done(x)]
        \/ job' = [job EXCEPT ![x] = [job[x] EXCEPT !.pc = "remove", !.then = Rest(x).pc]]
        \/ /\ db # "deleted"
           /\ job' = [job EXCEPT ![x] =
                         [job[x] EXCEPT !.pc = "save", !.want = "down", !.old = db]]
    BY <1>6 DEF SetDown, Missing
  <2> QED BY <2>2, <2>3, <2>4, <2>5, TypeBy
<1>7. ASSUME NEW x \in Threads, SaveRecord(x) PROVE TypeOK'
  <2>1. JobOK([job[x] EXCEPT !.pc = "hook"])
    BY <1>j, HookTypes
  <2>2. job[x].want \in Statuses BY <1>j DEF Jobs
  <2>3. TypeRest' BY <1>7, <1>r, <2>2 DEF SaveRecord, TypeRest
  <2> QED BY <1>7, <2>1, <2>3, TypeBy DEF SaveRecord
<1>8. ASSUME NEW x \in Threads, Hook(x) PROVE TypeOK'
  <2>1. JobOK([job[x] EXCEPT !.pc = "orphanHook"]) /\ JobOK(Done(x))
    BY <1>j, HookTypes, DoneTypes
  <2>2. TypeRest' BY <1>8, <1>r, MemTypes DEF Hook, TypeRest
  <2> QED BY <1>8, <2>1, <2>2, TypeBy DEF Hook
<1>9. ASSUME NEW x \in Threads, OrphanHook(x) PROVE TypeOK'
  <2>1. JobOK(Done(x)) /\ JobOK([Rest(x) EXCEPT !.pc = "remove", !.then = Rest(x).pc])
    BY DoneTypes, RestTypes
  <2>2. TypeRest' BY <1>9, <1>r DEF OrphanHook, TypeRest
  <2> QED BY <1>9, <2>1, <2>2, TypeBy DEF OrphanHook
<1>10. ASSUME NEW i \in Instances, Connect(i) PROVE TypeOK'
  <2>1. JobOK(Job("add", i, "up", "up", "add")) /\ JobOK(Job("remove", i, "up", "up", "add"))
    BY FirstTypes
  <2>2. TypeRest' BY <1>10, <1>r, StartsTypes DEF Connect, TypeRest
  <2> QED BY <1>10, <1>i, <2>1, <2>2, TypeBy DEF Connect
<1>11. ASSUME NEW i \in Instances, Add(i) PROVE TypeOK'
  <2>1. job[i].of \in Instances
    BY <1>11, <1>i, <1>j DEF Add, JobOK, OnInstance
  <2>2. JobOK([job[i] EXCEPT !.pc = "put"]) /\ JobOK([job[i] EXCEPT !.pc = "over"])
    BY <1>i, <1>j, <2>1, MoveTypes DEF OnInstance
  <2>3. TypeRest' BY <1>11, <1>r, LinkTypes DEF Add, TypeRest
  <2> QED BY <1>11, <1>i, <2>2, <2>3, TypeBy DEF Add
<1>12. ASSUME NEW i \in Instances, Put(i) PROVE TypeOK'
  <2>1. JobOK([Rest(i) EXCEPT !.pc = "start"])
    BY <1>i, RestTypes
  <2>2. TypeRest' BY <1>12, <1>r DEF Put, TypeRest
  <2> QED BY <1>12, <1>i, <2>1, <2>2, TypeBy DEF Put
<1>13. ASSUME NEW i \in Instances, Start(i) \/ Cancelled(i) \/ Tick(i) \/ Down(i)
       PROVE  TypeOK'
  <2>1. job[i].of \in Instances
    BY <1>13, <1>i, <1>j DEF Start, Cancelled, Tick, Down, JobOK, OnInstance
  <2>2. \A pc \in {"update", "loop", "over", "setDown"} : JobOK([job[i] EXCEPT !.pc = pc])
    BY <1>i, <1>j, <2>1, MoveTypes DEF OnInstance
  <2>3. TypeRest' BY <1>13, <1>r, StartsTypes DEF Start, Cancelled, Tick, Down, TypeRest
  <2>4. PICK pc \in {"update", "loop", "over", "setDown"} :
            job' = [job EXCEPT ![i] = [job[i] EXCEPT !.pc = pc]]
    BY <1>13 DEF Start, Cancelled, Tick, Down
  <2> QED BY <1>i, <2>2, <2>3, <2>4, TypeBy
<1>14. ASSUME NEW i \in Instances, OnClose(i) \/ FiveSeconds(i) PROVE TypeOK'
  BY <1>14 DEF OnClose, FiveSeconds, TypeOK
<1>15. CASE PauseHook
  <2>1. TypeRest' BY <1>15, <1>r, MemTypes, LinkTypes DEF PauseHook, TypeRest
  <2> QED BY <1>15, <1>u, <2>1, RestTypes, TypeBy DEF PauseHook
<1>16. CASE ResumeHook
  <2> DEFINE j == IF store \in Instances \ detached
                  THEN Job("update", store, "up", "up", "idle") ELSE job[Resumer]
  <2>1. TypeRest' BY <1>16, <1>r, MemTypes DEF ResumeHook, TypeRest
  <2>2. JobOK(j)
    BY <1>j, <1>u, FirstTypes
  <2>3. \A y \in Threads : job'[y] = CASE y = User -> Rest(User)
                                       [] y = Resumer -> j
                                       [] OTHER -> job[y]
    BY <1>16 DEF ResumeHook, TypeOK
  <2>4. JobOK(Rest(User)) BY <1>u, RestTypes
  <2> HIDE DEF j
  <2>5. \A y \in Threads : JobOK(job'[y])
    BY <1>j, <2>2, <2>3, <2>4
  <2>6. job' \in [Threads -> Jobs]
    <3>1. DOMAIN job' = Threads /\ job' = [y \in Threads |-> job'[y]]
      BY <1>16 DEF ResumeHook, TypeOK
    <3> QED BY <2>5, <3>1 DEF JobOK
  <2> QED BY <2>1, <2>5, <2>6 DEF TypeOK, TypeRest
<1>17. CASE Pause \/ Resume
  <2>1. TypeRest' BY <1>17, <1>r, StartsTypes DEF Pause, Resume, TypeRest
  <2>2. PICK s \in Statuses : job' = [job EXCEPT ![User] = Job("hook", None, s, db, "idle")]
    BY <1>17 DEF Pause, Resume
  <2>3. db \in Statuses BY <1>17 DEF Pause, Resume
  <2>4. JobOK(Job("hook", None, s, db, "idle"))
    BY <2>3 DEF Job, JobOK, Jobs, Pcs, OnInstance
  <2> QED BY <1>u, <2>1, <2>2, <2>4, TypeBy
<1>18. CASE Delete
  <2>1. TypeRest' BY <1>18, <1>r, StartsTypes DEF Delete, TypeRest
  <2>2. JobOK(Job("remove", None, "up", "up", "idle"))
    BY DEF Job, JobOK, Jobs, Pcs, OnInstance
  <2> QED BY <1>18, <1>u, <2>1, <2>2, TypeBy DEF Delete
<1>19. CASE Rotate
  <2>1. TypeRest' BY <1>19, <1>r, MemTypes, StartsTypes DEF Rotate, TypeRest
  <2>2. CASE store = None
    BY <1>19, <2>1, <2>2 DEF Rotate, TypeOK, TypeRest
  <2>3. CASE store # None
    <3>1. JobOK(Job("setDown", store, "down", db, "rotated"))
      BY <1>19, <1>r, <2>3, FirstTypes DEF Rotate, TypeRest
    <3> QED BY <1>19, <1>u, <2>1, <2>3, <3>1, TypeBy DEF Rotate
  <2> QED BY <2>2, <2>3
<1>20. CASE Restart
  <2>1. TypeRest' BY <1>20, <1>r DEF Restart, TypeRest
  <2>2. \A x \in Threads : job'[x] = IF x \in Instances /\ ~At(x, "unused")
                                     THEN [Rest(x) EXCEPT !.pc = "over"] ELSE Fresh(x)
    BY <1>20 DEF Restart
  <2>3. \A x \in Threads : JobOK(job'[x])
    BY <2>2, RestTypes
  <2>4. job' \in [Threads -> Jobs]
    <3>1. job' = [y \in Threads |-> job'[y]]
      BY <1>20 DEF Restart
    <3> QED BY <2>3, <3>1 DEF JobOK
  <2> QED BY <2>1, <2>3, <2>4 DEF TypeOK, TypeRest
<1>21. CASE UNCHANGED vars
  BY <1>21 DEF vars, TypeOK
<1> QED BY <1>1, <1>2, <1>3, <1>4, <1>5, <1>6, <1>7, <1>8, <1>9, <1>10, <1>11,
           <1>12, <1>13, <1>14, <1>15, <1>16, <1>17, <1>18, <1>19, <1>20, <1>21,
           NextCases

\* The hub starts with nothing in memory.
LEMMA TypeInit == Init => TypeOK
<1>1. Init => \A x \in Threads : job[x] = Fresh(x) BY DEF Init
<1>2. Init => \A x \in Threads : JobOK(job[x]) BY <1>1, RestTypes
<1>3. Init => job \in [Threads -> Jobs]
  <2>1. Init => job = [x \in Threads |-> Fresh(x)] BY DEF Init
  <2>2. \A x \in Threads : Fresh(x) \in Jobs BY RestTypes DEF JobOK
  <2> QED BY <2>1, <2>2
<1>4. Init => TypeRest BY DEF Init, TypeRest
<1> QED BY <1>2, <1>3, <1>4 DEF TypeOK, TypeRest

\* The state stays well typed in every interleaving: a thread that is going to
\* work on an instance always has one.
THEOREM TypeCorrect == Spec => []TypeOK
  BY TypeInit, TypeStep, PTL DEF Spec

-----------------------------------------------------------------------------
(* What is in the store is monitored, or on its way out.  The              *)
(* strengthening is about the instances that are not in the store yet:     *)
(* nobody can cancel what is not there, and so Put never puts a cancelled  *)
(* instance there.                                                         *)

\* A job of an instance whose AddSystem has not put it into the store.
Fledgling(j) == j.pc \in {"unused", "add", "put"} \/ j.then = "add"

NotYet == \A i \in Instances : Fledgling(job[i]) => store # i /\ i \notin cancelled

\* Its updater has not ended, unless the instance is on its way out.
Updating == \/ store = None
            \/ store \notin cancelled /\ job[store].pc # "over"
            \/ \E x \in Threads : At(x, "forget")

StoreInv == TypeOK /\ NotYet /\ Updating

\* What the moves of a job leave alone.
LEMMA MoveFields ==
    ASSUME NEW j \in Jobs, NEW pc, NEW then, NEW want, NEW old
    PROVE  /\ [j EXCEPT !.pc = pc].pc = pc /\ [j EXCEPT !.pc = pc].then = j.then
           /\ [j EXCEPT !.pc = "remove", !.then = then].pc = "remove"
           /\ [j EXCEPT !.pc = "remove", !.then = then].then = then
           /\ [j EXCEPT !.pc = "save", !.want = want, !.old = old].pc = "save"
           /\ [j EXCEPT !.pc = "save", !.want = want, !.old = old].then = j.then
  BY DEF Jobs

\* Steps that put nothing into the store and cancel at most what is there
\* leave the new instances alone.
LEMMA NotYetKept ==
    ASSUME NotYet, store' \in {store, None}, cancelled' \subseteq cancelled \cup {store},
           \A i \in Instances : Fledgling(job'[i]) => Fledgling(job[i])
    PROVE  NotYet'
  BY DEF NotYet

\* The same for a step that moves one thread.
LEMMA NotYetBy ==
    ASSUME TypeOK, NotYet, store' \in {store, None},
           cancelled' \subseteq cancelled \cup {store},
           NEW x \in Threads, NEW j, job' = [job EXCEPT ![x] = j],
           x \in Instances /\ Fledgling(j) => Fledgling(job[x])
    PROVE  NotYet'
<1>1. \A y \in Threads : job'[y] = IF y = x THEN j ELSE job[y]
  BY DEF TypeOK
<1>2. \A i \in Instances : Fledgling(job'[i]) => Fledgling(job[i])
  BY <1>1
<1> QED BY <1>2, NotYetKept

\* The end of an operation belongs to an instance that is in the store, or was.
LEMMA RestGrown ==
    ASSUME TypeOK, NEW x \in Threads
    PROVE  /\ ~Fledgling(Rest(x))
           /\ ~Fledgling([Rest(x) EXCEPT !.pc = "start"])
           /\ ~Fledgling([Rest(x) EXCEPT !.pc = "over"])
           /\ ~Fledgling([Rest(x) EXCEPT !.pc = "remove", !.then = Rest(x).pc])
           /\ ~Fledgling(Done(x))
<1>1. /\ Rest(x) \in Jobs /\ Rest(x).then = "over" /\ Rest(x).pc \in {"idle", "loop"}
      /\ job[x] \in Jobs
  BY RestTypes DEF JobOK, TypeOK
<1>2. /\ ~Fledgling(Rest(x))
      /\ ~Fledgling([Rest(x) EXCEPT !.pc = "start"])
      /\ ~Fledgling([Rest(x) EXCEPT !.pc = "over"])
      /\ ~Fledgling([Rest(x) EXCEPT !.pc = "remove", !.then = Rest(x).pc])
  BY <1>1, MoveFields DEF Fledgling
<1>3. ~Fledgling([job[x] EXCEPT !.pc = "remove", !.then = "idle"])
  BY <1>1, MoveFields DEF Fledgling
<1> QED BY <1>2, <1>3 DEF Done

\* A new instance stays out of the store and uncancelled until Put.
LEMMA NotYetStep == ASSUME TypeOK, NotYet, [Next]_vars PROVE NotYet'
<1>j. \A x \in Threads : JobOK(job[x]) /\ job[x] \in Jobs
  BY DEF TypeOK, JobOK
<1>i. \A i \in Instances : i \in Threads
  OBVIOUS
<1>m. ASSUME NEW x \in Threads, NEW pc, pc \notin {"unused", "add", "put"},
             Fledgling([job[x] EXCEPT !.pc = pc])
      PROVE  Fledgling(job[x])
  BY <1>j, <1>m, MoveFields DEF Fledgling
<1>s. ASSUME NEW x \in Threads, NEW want, NEW old,
             Fledgling([job[x] EXCEPT !.pc = "save", !.want = want, !.old = old])
      PROVE  Fledgling(job[x])
  BY <1>j, <1>s, MoveFields DEF Fledgling
<1>t. ASSUME NEW x \in Threads, Fledgling([job[x] EXCEPT !.pc = job[x].then]),
             job[x].pc \in {"remove", "forget"}
      PROVE  Fledgling(job[x])
  <2>1. job[x].then \notin {"unused", "put"} BY <1>j DEF Jobs
  <2> QED BY <1>j, <1>t, <2>1, MoveFields DEF Fledgling
<1>r. ASSUME NEW x \in Threads, NEW then, then # "add",
             Fledgling([job[x] EXCEPT !.pc = "remove", !.then = then])
      PROVE  FALSE
  BY <1>j, <1>r, MoveFields DEF Fledgling
<1>1. ASSUME NEW x \in Threads, Remove(x) PROVE NotYet'
  BY <1>1, <1>m, <1>t, NotYetBy DEF Remove, Cancels
<1>2. ASSUME NEW x \in Threads, Forget(x) PROVE NotYet'
  BY <1>2, <1>t, NotYetBy DEF Forget, Forgets
<1>3. ASSUME NEW x \in Threads, Update(x) PROVE NotYet'
  <2>1. Rest(x).pc # "add" BY RestTypes
  <2>2. \/ job' = [job EXCEPT ![x] = [job[x] EXCEPT !.pc = "fetch"]]
        \/ job' = [job EXCEPT ![x] = Rest(x)]
        \/ job' = [job EXCEPT ![x] = [job[x] EXCEPT !.pc = "remove", !.then = Rest(x).pc]]
    BY <1>3 DEF Update
  <2>3. store' = store /\ cancelled' = cancelled BY <1>3 DEF Update
  <2> QED BY <1>m, <1>r, <2>1, <2>2, <2>3, RestGrown, NotYetBy
<1>4. ASSUME NEW x \in Threads, Answered(x) \/ NotAnswered(x) PROVE NotYet'
  <2>1. x \in Instances => Failed(x) = [job[x] EXCEPT !.pc = "setDown"] BY DEF Failed
  <2>2. \/ job' = [job EXCEPT ![x] = [job[x] EXCEPT !.pc = "read"]]
        \/ job' = [job EXCEPT ![x] = Failed(x)]
    BY <1>4 DEF Answered, NotAnswered
  <2>3. store' = store /\ cancelled' = cancelled BY <1>4 DEF Answered, NotAnswered
  <2>4. x \in Instances /\ Fledgling(Failed(x)) => Fledgling(job[x])
    BY <1>m, <2>1
  <2> QED BY <1>m, <2>2, <2>3, <2>4, NotYetBy
<1>5. ASSUME NEW x \in Threads, Read(x) PROVE NotYet'
  <2>1. Failed(x).pc # "add"
    <3>1. job[x].of \in Instances
      BY <1>5, <1>j DEF Read, JobOK, OnInstance
    <3> QED BY <3>1, FailedTypes
  <2>2. \/ job' = [job EXCEPT ![x] = [job[x] EXCEPT !.pc = "remove", !.then = Failed(x).pc]]
        \/ job' = [job EXCEPT ![x] = [job[x] EXCEPT !.pc = "save", !.want = "up", !.old = db]]
    BY <1>5 DEF Read
  <2>3. store' = store /\ cancelled' = cancelled BY <1>5 DEF Read
  <2> QED BY <1>r, <1>s, <2>1, <2>2, <2>3, NotYetBy
<1>6. ASSUME NEW x \in Threads, SetDown(x) PROVE NotYet'
  <2>1. Rest(x).pc # "add" BY RestTypes
  <2>2. \/ job' = [job EXCEPT ![x] = Done(x)]
        \/ job' = [job EXCEPT ![x] = [job[x] EXCEPT !.pc = "remove", !.then = Rest(x).pc]]
        \/ job' = [job EXCEPT ![x] =
                       [job[x] EXCEPT !.pc = "save", !.want = "down", !.old = db]]
    BY <1>6 DEF SetDown
  <2>3. store' = store /\ cancelled' = cancelled BY <1>6 DEF SetDown
  <2> QED BY <1>r, <1>s, <2>1, <2>2, <2>3, RestGrown, NotYetBy
<1>7. ASSUME NEW x \in Threads, SaveRecord(x) PROVE NotYet'
  BY <1>7, <1>m, NotYetBy DEF SaveRecord
<1>8. ASSUME NEW x \in Threads, Hook(x) PROVE NotYet'
  BY <1>8, <1>m, RestGrown, NotYetBy DEF Hook
<1>9. ASSUME NEW x \in Threads, OrphanHook(x) PROVE NotYet'
  BY <1>9, RestGrown, NotYetBy DEF OrphanHook
<1>10. ASSUME NEW i \in Instances, Connect(i) PROVE NotYet'
  <2>1. Fledgling(job[i]) BY <1>10 DEF Connect, Fledgling
  <2> QED BY <1>10, <1>i, <2>1, NotYetBy DEF Connect
<1>11. ASSUME NEW i \in Instances, Add(i) PROVE NotYet'
  <2>1. Fledgling(job[i]) BY <1>11 DEF Add, Fledgling
  <2> QED BY <1>11, <1>i, <2>1, NotYetBy DEF Add
<1>12. ASSUME NEW i \in Instances, Put(i) PROVE NotYet'
  <2>1. \A k \in Instances : job'[k] = IF k = i THEN [Rest(i) EXCEPT !.pc = "start"]
                                       ELSE job[k]
    BY <1>12 DEF Put, TypeOK
  <2>2. ~Fledgling(job'[i]) BY <1>i, <2>1, RestGrown
  <2> QED BY <1>12, <2>1, <2>2 DEF Put, NotYet
<1>13. ASSUME NEW i \in Instances, Start(i) \/ Cancelled(i) \/ Tick(i) \/ Down(i)
       PROVE  NotYet'
  <2>1. PICK pc \in {"update", "loop", "over", "setDown"} :
            job' = [job EXCEPT ![i] = [job[i] EXCEPT !.pc = pc]]
    BY <1>13 DEF Start, Cancelled, Tick, Down
  <2>2. store' = store /\ cancelled' = cancelled
    BY <1>13 DEF Start, Cancelled, Tick, Down
  <2> QED BY <1>i, <1>m, <2>1, <2>2, NotYetBy
<1>14. ASSUME NEW i \in Instances, OnClose(i) \/ FiveSeconds(i) PROVE NotYet'
  BY <1>14 DEF OnClose, FiveSeconds, NotYet
<1>15. CASE PauseHook \/ Pause \/ Resume \/ Delete
  <2>1. /\ store' = store /\ cancelled' = cancelled
        /\ \A i \in Instances : job'[i] = job[i]
    BY <1>15 DEF PauseHook, Pause, Resume, Delete, TypeOK
  <2> QED BY <2>1 DEF NotYet
<1>16. CASE ResumeHook \/ Rotate
  <2>1. /\ store' = store /\ cancelled' = cancelled
        /\ \A i \in Instances : job'[i] = job[i]
    BY <1>16 DEF ResumeHook, Rotate, TypeOK
  <2> QED BY <2>1 DEF NotYet
<1>17. CASE Restart
  <2>1. \A i \in Instances : job'[i] = IF ~At(i, "unused")
                                       THEN [Rest(i) EXCEPT !.pc = "over"] ELSE Fresh(i)
    BY <1>17 DEF Restart
  <2>2. \A i \in Instances : Fledgling(job'[i]) => Fledgling(job[i])
    BY <1>i, <2>1, RestGrown DEF Fledgling
  <2> QED BY <1>17, <2>2, NotYetKept DEF Restart
<1>18. CASE UNCHANGED vars
  BY <1>18 DEF vars, NotYet
<1> QED BY <1>1, <1>2, <1>3, <1>4, <1>5, <1>6, <1>7, <1>8, <1>9, <1>10, <1>11,
           <1>12, <1>13, <1>14, <1>15, <1>16, <1>17, <1>18, NextCases

\* Where the ends of operations lead to.
LEMMA NotOver ==
    ASSUME TypeOK, NEW x \in Threads
    PROVE  /\ Rest(x).pc # "over" /\ Done(x).pc # "over"
           /\ [Rest(x) EXCEPT !.pc = "remove", !.then = Rest(x).pc].pc # "over"
           /\ [Rest(x) EXCEPT !.pc = "start"].pc = "start"
<1>1. /\ Rest(x) \in Jobs /\ job[x] \in Jobs /\ Rest(x).pc \in {"idle", "loop"}
  BY RestTypes DEF JobOK, TypeOK
<1>2. [job[x] EXCEPT !.pc = "remove", !.then = "idle"].pc = "remove"
  BY <1>1, MoveFields
<1> QED BY <1>1, <1>2, MoveFields DEF Done

\* A step of one thread that leaves the store alone, does not end the updater
\* of what is there and does not finish a removal.
LEMMA UpdatingBy ==
    ASSUME TypeOK, Updating, store' = store, cancelled' = cancelled,
           NEW x \in Threads, NEW j, job' = [job EXCEPT ![x] = j],
           job[x].pc # "forget", x = store => j.pc # "over"
    PROVE  Updating'
<1>1. \A y \in Threads : job'[y] = IF y = x THEN j ELSE job[y]
  BY DEF TypeOK
<1>2. store # None => store \in Threads
  BY DEF TypeOK
<1>3. ASSUME NEW y \in Threads, At(y, "forget") PROVE At(y, "forget")'
  BY <1>1, <1>3
<1> QED BY <1>1, <1>2, <1>3 DEF Updating

\* Every step keeps what is in the store monitored or on its way out.
LEMMA UpdatingStep == ASSUME TypeOK, NotYet, Updating, [Next]_vars PROVE Updating'
<1>j. \A x \in Threads : JobOK(job[x]) /\ job[x] \in Jobs
  BY DEF TypeOK, JobOK
<1>i. \A i \in Instances : i \in Threads
  OBVIOUS
<1>1. ASSUME NEW x \in Threads, Remove(x) PROVE Updating'
  <2>1. CASE store = None
    BY <1>1, <2>1 DEF Remove, Updating
  <2>2. CASE store # None
    <3>1. job'[x] = [job[x] EXCEPT !.pc = "forget"]
      BY <1>1, <2>2 DEF Remove, TypeOK
    <3>2. job'[x].pc = "forget" BY <1>j, <3>1, MoveFields
    <3> QED BY <3>2 DEF Updating
  <2> QED BY <2>1, <2>2
<1>2. ASSUME NEW x \in Threads, Forget(x) PROVE Updating'
  BY <1>2 DEF Forget, Forgets, Updating
<1>3. ASSUME NEW x \in Threads, Update(x) PROVE Updating'
  <2>1. /\ [job[x] EXCEPT !.pc = "fetch"].pc # "over"
        /\ [job[x] EXCEPT !.pc = "remove", !.then = Rest(x).pc].pc # "over"
    BY <1>j, MoveFields
  <2>2. \/ job' = [job EXCEPT ![x] = [job[x] EXCEPT !.pc = "fetch"]]
        \/ job' = [job EXCEPT ![x] = Rest(x)]
        \/ job' = [job EXCEPT ![x] = [job[x] EXCEPT !.pc = "remove", !.then = Rest(x).pc]]
    BY <1>3 DEF Update
  <2>3. job[x].pc # "forget" /\ store' = store /\ cancelled' = cancelled
    BY <1>3 DEF Update
  <2> QED BY <2>1, <2>2, <2>3, NotOver, UpdatingBy
<1>4. ASSUME NEW x \in Threads, Answered(x) \/ NotAnswered(x) PROVE Updating'
  <2>1. /\ [job[x] EXCEPT !.pc = "read"].pc # "over"
        /\ [job[x] EXCEPT !.pc = "setDown"].pc # "over"
    BY <1>j, MoveFields
  <2>2. Failed(x).pc # "over" BY <2>1, NotOver DEF Failed
  <2>3. \/ job' = [job EXCEPT ![x] = [job[x] EXCEPT !.pc = "read"]]
        \/ job' = [job EXCEPT ![x] = Failed(x)]
    BY <1>4 DEF Answered, NotAnswered
  <2>4. job[x].pc # "forget" /\ store' = store /\ cancelled' = cancelled
    BY <1>4 DEF Answered, NotAnswered
  <2> QED BY <2>1, <2>2, <2>3, <2>4, UpdatingBy
<1>5. ASSUME NEW x \in Threads, Read(x) PROVE Updating'
  <2>1. /\ [job[x] EXCEPT !.pc = "remove", !.then = Failed(x).pc].pc # "over"
        /\ [job[x] EXCEPT !.pc = "save", !.want = "up", !.old = db].pc # "over"
    BY <1>j, MoveFields
  <2>2. \/ job' = [job EXCEPT ![x] = [job[x] EXCEPT !.pc = "remove", !.then = Failed(x).pc]]
        \/ job' = [job EXCEPT ![x] = [job[x] EXCEPT !.pc = "save", !.want = "up", !.old = db]]
    BY <1>5 DEF Read
  <2>3. job[x].pc # "forget" /\ store' = store /\ cancelled' = cancelled
    BY <1>5 DEF Read
  <2> QED BY <2>1, <2>2, <2>3, UpdatingBy
<1>6. ASSUME NEW x \in Threads, SetDown(x) PROVE Updating'
  <2>1. /\ [job[x] EXCEPT !.pc = "remove", !.then = Rest(x).pc].pc # "over"
        /\ [job[x] EXCEPT !.pc = "save", !.want = "down", !.old = db].pc # "over"
    BY <1>j, MoveFields
  <2>2. \/ job' = [job EXCEPT ![x] = Done(x)]
        \/ job' = [job EXCEPT ![x] = [job[x] EXCEPT !.pc = "remove", !.then = Rest(x).pc]]
        \/ job' = [job EXCEPT ![x] =
                       [job[x] EXCEPT !.pc = "save", !.want = "down", !.old = db]]
    BY <1>6 DEF SetDown
  <2>3. job[x].pc # "forget" /\ store' = store /\ cancelled' = cancelled
    BY <1>6 DEF SetDown
  <2> QED BY <2>1, <2>2, <2>3, NotOver, UpdatingBy
<1>7. ASSUME NEW x \in Threads, SaveRecord(x) PROVE Updating'
  <2>1. [job[x] EXCEPT !.pc = "hook"].pc # "over" BY <1>j, MoveFields
  <2> QED BY <1>7, <2>1, UpdatingBy DEF SaveRecord
<1>8. ASSUME NEW x \in Threads, Hook(x) \/ OrphanHook(x) PROVE Updating'
  <2>1. [job[x] EXCEPT !.pc = "orphanHook"].pc # "over" BY <1>j, MoveFields
  <2>2. \/ job' = [job EXCEPT ![x] = [job[x] EXCEPT !.pc = "orphanHook"]]
        \/ job' = [job EXCEPT ![x] = Done(x)]
        \/ job' = [job EXCEPT ![x] = [Rest(x) EXCEPT !.pc = "remove", !.then = Rest(x).pc]]
    BY <1>8 DEF Hook, OrphanHook
  <2>3. job[x].pc # "forget" /\ store' = store /\ cancelled' = cancelled
    BY <1>8 DEF Hook, OrphanHook
  <2> QED BY <2>1, <2>2, <2>3, NotOver, UpdatingBy
<1>9. ASSUME NEW i \in Instances, Connect(i) \/ Add(i) PROVE Updating'
  <2>1. PICK j : job' = [job EXCEPT ![i] = j]
    BY <1>9 DEF Connect, Add
  <2>2. Fledgling(job[i]) BY <1>9 DEF Connect, Add, Fledgling
  <2>3. store # i BY <2>2 DEF NotYet
  <2>4. job[i].pc # "forget" /\ store' = store /\ cancelled' = cancelled
    BY <1>9 DEF Connect, Add
  <2> QED BY <1>i, <2>1, <2>3, <2>4, UpdatingBy
<1>10. ASSUME NEW i \in Instances, Put(i) PROVE Updating'
  <2>1. Fledgling(job[i]) BY <1>10 DEF Put, Fledgling
  <2>2. i \notin cancelled BY <2>1 DEF NotYet
  <2>3. job'[i] = [Rest(i) EXCEPT !.pc = "start"] BY <1>10, <1>i DEF Put, TypeOK
  <2>4. job'[i].pc # "over" BY <1>i, <2>3, NotOver
  <2> QED BY <1>10, <2>2, <2>4 DEF Put, Updating
<1>11. ASSUME NEW i \in Instances, Cancelled(i) PROVE Updating'
  <2>1. /\ job' = [job EXCEPT ![i] = [job[i] EXCEPT !.pc = "over"]]
        /\ job[i].pc = "loop" /\ i \in cancelled
        /\ store' = store /\ cancelled' = cancelled
    BY <1>11 DEF Cancelled
  <2>2. \A y \in Threads \ {i} : job'[y] = job[y] BY <2>1 DEF TypeOK
  <2> QED BY <2>1, <2>2 DEF Updating, TypeOK
<1>12. ASSUME NEW i \in Instances, Start(i) \/ Tick(i) \/ Down(i) PROVE Updating'
  <2>1. \A pc \in {"update", "loop", "setDown"} : [job[i] EXCEPT !.pc = pc].pc # "over"
    BY <1>i, <1>j, MoveFields
  <2>2. PICK pc \in {"update", "loop", "setDown"} :
            job' = [job EXCEPT ![i] = [job[i] EXCEPT !.pc = pc]]
    BY <1>12 DEF Start, Tick, Down
  <2>3. job[i].pc # "forget" /\ store' = store /\ cancelled' = cancelled
    BY <1>12 DEF Start, Tick, Down
  <2> QED BY <1>i, <2>1, <2>2, <2>3, UpdatingBy
<1>13. ASSUME NEW i \in Instances, OnClose(i) \/ FiveSeconds(i) PROVE Updating'
  BY <1>13 DEF OnClose, FiveSeconds, Updating
<1>14. CASE PauseHook \/ ResumeHook \/ Pause \/ Resume \/ Delete \/ Rotate
  <2>1. \A y \in Threads \ {User, Resumer} : job'[y] = job[y]
    BY <1>14 DEF PauseHook, ResumeHook, Pause, Resume, Delete, Rotate, TypeOK
  <2>2. store' = store /\ cancelled' = cancelled
    BY <1>14 DEF PauseHook, ResumeHook, Pause, Resume, Delete, Rotate
  <2>3. job[User].pc # "forget"
    BY <1>14 DEF PauseHook, ResumeHook, Pause, Resume, Delete, Rotate
  <2>4. job[Resumer].pc # "idle" => job'[Resumer] = job[Resumer]
    BY <1>14 DEF PauseHook, ResumeHook, Pause, Resume, Delete, Rotate, TypeOK
  <2>5. store # None => store \in Threads \ {User, Resumer}
    BY DEF TypeOK
  <2> QED BY <2>1, <2>2, <2>3, <2>4, <2>5 DEF Updating
<1>15. CASE Restart
  BY <1>15 DEF Restart, Updating
<1>16. CASE UNCHANGED vars
  BY <1>16 DEF vars, Updating
<1> QED BY <1>1, <1>2, <1>3, <1>4, <1>5, <1>6, <1>7, <1>8, <1>9, <1>10, <1>11,
           <1>12, <1>13, <1>14, <1>15, <1>16, NextCases

\* AddSystem, RemoveSystem, the hooks, the updaters and the user's requests are
\* several steps each, and others may run between any two of them.  Whatever
\* they do, what the store holds has an updater that runs and was not told to
\* stop, or is about to leave the store.
THEOREM MonitoredTheorem == Spec => []Monitored
<1>1. Init => StoreInv
  <2>1. Init => store = None /\ cancelled = {} BY DEF Init
  <2> QED BY <2>1, TypeInit DEF StoreInv, NotYet, Updating
<1>2. StoreInv /\ [Next]_vars => StoreInv'
  BY TypeStep, NotYetStep, UpdatingStep DEF StoreInv
<1>3. StoreInv => Monitored
  BY DEF StoreInv, NotYet, Fledgling, Updating, Monitored, TypeOK
<1> QED BY <1>1, <1>2, <1>3, PTL DEF Spec
=============================================================================
