------------------------ MODULE RequestManagerProofs ------------------------
(***************************************************************************)
(* Proofs about RequestManager, for any set of calls and any agent.  Each  *)
(* safety property is proved from an inductive invariant of its own, and   *)
(* the invariants build on each other in the order of this module.         *)
(***************************************************************************)
EXTENDS RequestManager, TLAPS

USE RequestAssumption
USE DEF callers, table, messages, reader, conn, Goto, ReaderIdle, CanDrop

\* The next-state relation, its steps named for the case splits below.
LEMMA NextCases ==
    ASSUME [Next]_vars
    PROVE  \/ \E r \in Reqs : \/ NotConnected(r) \/ Create(r) \/ Register(r)
                              \/ Send(r) \/ SendFails(r) \/ StartCleanup(r)
                              \/ Receive(r) \/ GiveUp(r) \/ Expire(r)
                              \/ cleanupRequest(r) \/ AgentReplies(r)
           \/ \E m \in wire : Lookup(m) \/ LookupFails(m)
           \/ Deliver \/ deleteRequest \/ Drop \/ OnClose \/ Close \/ ConnLost
           \/ UNCHANGED vars
  BY DEF Next, Caller, Reading

\* Type correctness: every step of Request, handleResponse, cleanupRequest and
\* Close keeps the state well formed, ResponseCh within its capacity of one.
THEOREM TypeCorrect == Spec => []TypeOK
<1>1. Init => TypeOK
  BY DEF Init, TypeOK
<1>2. TypeOK /\ [Next]_vars => TypeOK'
  <2> SUFFICES ASSUME TypeOK, [Next]_vars PROVE TypeOK'
    OBVIOUS
  <2> USE DEF TypeOK, callers, reader, Replies
  <2>1. ASSUME NEW r \in Reqs, NotConnected(r) \/ Create(r) \/ Register(r)
        PROVE TypeOK'
    BY <2>1 DEF NotConnected, Create, Register, Without, WithId
  <2>2. ASSUME NEW r \in Reqs, Send(r) \/ SendFails(r) \/ StartCleanup(r)
        PROVE TypeOK'
    BY <2>2 DEF Send, SendFails, StartCleanup, cancelRequest, Without, WithId
  <2>3. ASSUME NEW r \in Reqs, Receive(r) PROVE TypeOK'
    BY <2>3 DEF Receive
  <2>4. ASSUME NEW r \in Reqs, GiveUp(r) \/ Expire(r) \/ cleanupRequest(r)
        PROVE TypeOK'
    BY <2>4 DEF GiveUp, Expire, cleanupRequest, cancelRequest, Without, WithId
  <2>5. ASSUME NEW r \in Reqs, AgentReplies(r) PROVE TypeOK'
    BY <2>5 DEF AgentReplies
  <2>6. ASSUME NEW m \in wire, Lookup(m) \/ LookupFails(m) PROVE TypeOK'
    BY <2>6 DEF Lookup, LookupFails, Targets, WithId, Oldest
  <2>7. CASE Deliver
    BY <2>7 DEF Deliver
  <2>8. CASE deleteRequest \/ OnClose
    BY <2>8 DEF deleteRequest, OnClose, Without, WithId
  <2>10. CASE Drop
    <3>1. closed' \in [Reqs -> Nat]
      BY <2>10 DEF Drop
    <3> QED
      BY <2>10, <3>1 DEF Drop
  <2>9. CASE Close \/ ConnLost \/ UNCHANGED vars
    BY <2>9 DEF Close, ConnLost, vars
  <2> QED
    BY NextCases, <2>1, <2>2, <2>3, <2>4, <2>5, <2>6, <2>7, <2>8, <2>9,
       <2>10
<1> QED
  BY <1>1, <1>2, PTL DEF Spec

-----------------------------------------------------------------------------
(* Ids name requests, and nothing is pending without an owner.             *)

\* What the pending map relies on: ids are drawn once, a request has one from
\* the time it can be in the map, and whoever owns an entry will remove it.
OwnInv ==
    /\ \A r \in Reqs : id[r] <= nextID
    /\ \A r \in Reqs : (pc[r] \in {"created", "registered", "sent", "waiting"}
                        \/ r \in pending) => id[r] # 0
    /\ \A r, q \in Reqs : id[r] = id[q] /\ id[r] # 0 => r = q
    /\ \A r \in Reqs : watcher[r] = "waiting" => pc[r] \in {"waiting", "done"}
    /\ PendingOwned

\* Request ids stay unique and every pending entry keeps an owner.
LEMMA OwnInvariant == Spec => []OwnInv
<1>1. Init => OwnInv
  BY DEF Init, OwnInv, PendingOwned
<1>2. TypeOK /\ OwnInv /\ [Next]_vars => OwnInv'
  <2> SUFFICES ASSUME TypeOK, OwnInv, [Next]_vars PROVE OwnInv'
    OBVIOUS
  <2> USE DEF TypeOK, OwnInv, PendingOwned, callers, reader
  <2>1. ASSUME NEW r \in Reqs, NotConnected(r) \/ Register(r)
        PROVE OwnInv'
    BY <2>1 DEF NotConnected, Register, Without, WithId
  <2>2. ASSUME NEW r \in Reqs, Create(r) PROVE OwnInv'
    BY <2>2 DEF Create
  <2>3. ASSUME NEW r \in Reqs, Send(r) \/ SendFails(r) \/ StartCleanup(r)
        PROVE OwnInv'
    BY <2>3 DEF Send, SendFails, StartCleanup, cancelRequest, Without, WithId
  <2>4. ASSUME NEW r \in Reqs, Receive(r) \/ GiveUp(r) \/ Expire(r)
        PROVE OwnInv'
    BY <2>4 DEF Receive, GiveUp, Expire
  <2>5. ASSUME NEW r \in Reqs, cleanupRequest(r) PROVE OwnInv'
    BY <2>5 DEF cleanupRequest, cancelRequest, Without, WithId
  <2>6. ASSUME NEW r \in Reqs, AgentReplies(r) PROVE OwnInv'
    BY <2>6 DEF AgentReplies
  <2>7. ASSUME NEW m \in wire, Lookup(m) \/ LookupFails(m) PROVE OwnInv'
    BY <2>7 DEF Lookup, LookupFails
  <2>8. CASE Deliver \/ deleteRequest \/ Drop \/ OnClose
    BY <2>8 DEF Deliver, deleteRequest, Drop, OnClose, Without, WithId
  <2>9. CASE Close \/ ConnLost \/ UNCHANGED vars
    BY <2>9 DEF Close, ConnLost, vars
  <2> QED
    BY NextCases, <2>1, <2>2, <2>3, <2>4, <2>5, <2>6, <2>7, <2>8, <2>9
<1> QED
  BY <1>1, <1>2, TypeCorrect, PTL DEF Spec

\* The map never holds an entry that nobody will remove: SendRequest itself
\* does on a failed send, the cleanup goroutine once the context is done.
THEOREM PendingOwnedTheorem == Spec => []PendingOwned
<1>1. OwnInv => PendingOwned
  BY DEF OwnInv
<1> QED
  BY <1>1, OwnInvariant, PTL

-----------------------------------------------------------------------------
(* The reader finds the buffer empty.                                      *)

\* A request with a buffered reply is no longer pending, or the reader is just
\* about to delete it; and no reply is buffered before the request is sent.
BufferInv ==
    /\ ReaderNeverBlocked
    /\ \A r \in Reqs : ch[r] # {} =>
          /\ r \notin pending \/ (rdPc = "delete" /\ rdReq = r)
          /\ pc[r] \notin {"idle", "created"}
    /\ rdPc \in {"deliver", "delete"} => pc[rdReq] \notin {"idle", "created"}

\* The read loop never blocks on a caller: handleResponse and
\* routeLegacyResponse always find ResponseCh empty when they are to deliver.
THEOREM ReaderNeverBlockedTheorem == Spec => []ReaderNeverBlocked
<1>1. Init => BufferInv
  BY DEF Init, BufferInv, ReaderNeverBlocked
<1>2. TypeOK /\ OwnInv /\ BufferInv /\ [Next]_vars => BufferInv'
  <2> SUFFICES ASSUME TypeOK, OwnInv, BufferInv, [Next]_vars PROVE BufferInv'
    OBVIOUS
  <2> USE DEF TypeOK, OwnInv, PendingOwned, BufferInv, ReaderNeverBlocked,
              callers, reader
  <2>1. ASSUME NEW r \in Reqs, NotConnected(r) \/ Create(r) \/ Register(r)
        PROVE BufferInv'
    BY <2>1 DEF NotConnected, Create, Register, Without, WithId
  <2>2. ASSUME NEW r \in Reqs, Send(r) \/ SendFails(r) \/ StartCleanup(r)
        PROVE BufferInv'
    BY <2>2 DEF Send, SendFails, StartCleanup, cancelRequest, Without, WithId
  <2>3. ASSUME NEW r \in Reqs, Receive(r) PROVE BufferInv'
    BY <2>3 DEF Receive
  <2>4. ASSUME NEW r \in Reqs, GiveUp(r) \/ Expire(r) \/ AgentReplies(r)
        PROVE BufferInv'
    BY <2>4 DEF GiveUp, Expire, AgentReplies
  <2>5. ASSUME NEW r \in Reqs, cleanupRequest(r) PROVE BufferInv'
    BY <2>5 DEF cleanupRequest, cancelRequest, Without, WithId
  <2>6. ASSUME NEW m \in wire, Lookup(m) PROVE BufferInv'
    BY <2>6 DEF Lookup, Targets, WithId, Oldest
  <2>7. ASSUME NEW m \in wire, LookupFails(m) PROVE BufferInv'
    BY <2>7 DEF LookupFails
  <2>8. CASE Deliver
    BY <2>8 DEF Deliver
  <2>9. CASE deleteRequest
    BY <2>9 DEF deleteRequest, Without, WithId
  <2>10. CASE Drop \/ OnClose \/ Close \/ ConnLost \/ UNCHANGED vars
    BY <2>10 DEF Drop, OnClose, Close, ConnLost, vars
  <2> QED
    BY NextCases, <2>1, <2>2, <2>3, <2>4, <2>5, <2>6, <2>7, <2>8, <2>9,
       <2>10
<1>3. BufferInv => ReaderNeverBlocked
  BY DEF BufferInv
<1> QED
  BY <1>1, <1>2, <1>3, TypeCorrect, OwnInvariant, PTL DEF Spec

-----------------------------------------------------------------------------
(* Replies reach the call they answer.                                     *)

\* With ids, the reply the reader holds answers the request it looked up.
MatchInv ==
    /\ Matching
    /\ \A w \in wire : w.hasId /\ w.of \in Reqs
    /\ rdPc \in {"deliver", "delete"} => rdMsg = rdReq

\* From an agent that echoes ids, no caller is ever given, or has waiting in
\* its ResponseCh, the reply to another call.
THEOREM MatchingTheorem == ~LegacyAgent /\ Spec => []Matching
<1>0. SUFFICES ASSUME ~LegacyAgent PROVE Spec => []Matching
  OBVIOUS
<1>1. Init => MatchInv
  BY DEF Init, MatchInv, Matching
<1>2. TypeOK /\ OwnInv /\ MatchInv /\ [Next]_vars => MatchInv'
  <2> SUFFICES ASSUME TypeOK, OwnInv, MatchInv, [Next]_vars PROVE MatchInv'
    OBVIOUS
  <2> USE DEF TypeOK, OwnInv, MatchInv, Matching, callers, reader, Replies
  <2>1. ASSUME NEW r \in Reqs, \/ NotConnected(r) \/ Create(r) \/ Register(r)
                               \/ Send(r) \/ SendFails(r) \/ StartCleanup(r)
        PROVE MatchInv'
    BY <2>1 DEF NotConnected, Create, Register, Send, SendFails, StartCleanup
  <2>2. ASSUME NEW r \in Reqs, Receive(r) PROVE MatchInv'
    BY <2>2 DEF Receive
  <2>3. ASSUME NEW r \in Reqs, GiveUp(r) \/ Expire(r) \/ cleanupRequest(r)
        PROVE MatchInv'
    BY <2>3 DEF GiveUp, Expire, cleanupRequest
  <2>4. ASSUME NEW r \in Reqs, AgentReplies(r) PROVE MatchInv'
    BY <1>0, <2>4 DEF AgentReplies
  <2>5. ASSUME NEW m \in wire, Lookup(m) PROVE MatchInv'
    <3>1. PICK q \in Targets(m) : rdReq' = q
      BY <2>5 DEF Lookup
    <3>2. q \in pending /\ id[q] = id[m.of] /\ m.of \in Reqs
      BY <3>1 DEF Targets, WithId
    <3>3. q = m.of
      BY <3>2
    <3> QED
      BY <2>5, <3>1, <3>3 DEF Lookup
  <2>6. ASSUME NEW m \in wire, LookupFails(m) PROVE MatchInv'
    BY <2>6 DEF LookupFails
  <2>7. CASE Deliver
    BY <2>7 DEF Deliver
  <2>8. CASE deleteRequest \/ Drop \/ OnClose \/ Close \/ ConnLost
             \/ UNCHANGED vars
    BY <2>8 DEF deleteRequest, Drop, OnClose, Close, ConnLost, vars
  <2> QED
    BY NextCases, <2>1, <2>2, <2>3, <2>4, <2>5, <2>6, <2>7, <2>8
<1>3. MatchInv => Matching
  BY DEF MatchInv
<1> QED
  BY <1>1, <1>2, <1>3, TypeCorrect, OwnInvariant, PTL DEF Spec

-----------------------------------------------------------------------------
(* A reply is in one place at a time.                                      *)

OnWire(m) == \E w \in wire : w.of = m
Held(m) == rdPc = "deliver" /\ rdMsg = m
Buffered(m) == \E q \in Reqs : m \in ch[q]

\* The places of a reply, in the order it passes through them, exclude each
\* other; and it is closed, once, only after it has left the last of them.
PlaceInv ==
    \A m \in Reqs :
      /\ (pc[m] \in {"idle", "created", "registered"} \/ m \in atAgent) =>
            ~OnWire(m) /\ ~Held(m) /\ ~Buffered(m) /\ closed[m] = 0
      /\ pc[m] \in {"idle", "created", "registered"} => m \notin atAgent
      /\ OnWire(m) => ~Held(m) /\ ~Buffered(m) /\ closed[m] = 0
      /\ Held(m) => ~Buffered(m) /\ closed[m] = 0
      /\ Buffered(m) => closed[m] = 0
      /\ \A v, w \in wire : v.of = m /\ w.of = m => v = w
      /\ \A q, p \in Reqs : m \in ch[q] /\ m \in ch[p] => q = p
      /\ closed[m] <= 1

\* The caller and the reader never both close the same message, so a buffer
\* is never put back into the pool while somebody still reads it.
THEOREM ClosedOnceTheorem == Spec => []ClosedOnce
<1>1. Init => PlaceInv
  BY DEF Init, PlaceInv, OnWire, Held, Buffered
<1>2. TypeOK /\ PlaceInv /\ [Next]_vars => PlaceInv'
  <2> SUFFICES ASSUME TypeOK, PlaceInv, [Next]_vars PROVE PlaceInv'
    OBVIOUS
  <2> USE DEF TypeOK, PlaceInv, OnWire, Held, Buffered, callers, reader,
              Replies
  <2>1. ASSUME NEW r \in Reqs, NotConnected(r) \/ Create(r) \/ Register(r)
        PROVE PlaceInv'
    BY <2>1 DEF NotConnected, Create, Register
  <2>2. ASSUME NEW r \in Reqs, Send(r) PROVE PlaceInv'
    BY <2>2 DEF Send
  <2>3. ASSUME NEW r \in Reqs, SendFails(r) \/ StartCleanup(r) PROVE PlaceInv'
    BY <2>3 DEF SendFails, StartCleanup
  <2>4. ASSUME NEW r \in Reqs, Receive(r) PROVE PlaceInv'
    BY <2>4 DEF Receive
  <2>5. ASSUME NEW r \in Reqs, GiveUp(r) \/ Expire(r) \/ cleanupRequest(r)
        PROVE PlaceInv'
    BY <2>5 DEF GiveUp, Expire, cleanupRequest
  <2>6. ASSUME NEW r \in Reqs, AgentReplies(r) PROVE PlaceInv'
    BY <2>6 DEF AgentReplies
  <2>7. ASSUME NEW m \in wire, Lookup(m) PROVE PlaceInv'
    BY <2>7 DEF Lookup
  <2>8. ASSUME NEW m \in wire, LookupFails(m) PROVE PlaceInv'
    BY <2>8 DEF LookupFails
  <2>9. CASE Deliver
    BY <2>9 DEF Deliver
  <2>10. CASE Drop
    BY <2>10 DEF Drop
  <2>11. CASE deleteRequest \/ OnClose \/ Close \/ ConnLost \/ UNCHANGED vars
    BY <2>11 DEF deleteRequest, OnClose, Close, ConnLost, vars
  <2> QED
    BY NextCases, <2>1, <2>2, <2>3, <2>4, <2>5, <2>6, <2>7, <2>8, <2>9,
       <2>10, <2>11
<1>3. PlaceInv => ClosedOnce
  BY DEF PlaceInv, ClosedOnce
<1> QED
  BY <1>1, <1>2, <1>3, TypeCorrect, PTL DEF Spec

-----------------------------------------------------------------------------
(* The manager implements Rpc.                                             *)

\* A caller that has been given a reply has returned.
AnswerInv == \A r \in Reqs : got[r] # {} => pc[r] = "done"

\* Request returns as soon as it has taken a reply out of ResponseCh.
LEMMA AnswerInvariant == Spec => []AnswerInv
<1>1. Init => AnswerInv
  BY DEF Init, AnswerInv
<1>2. TypeOK /\ AnswerInv /\ [Next]_vars => AnswerInv'
  <2> SUFFICES ASSUME TypeOK, AnswerInv, [Next]_vars PROVE AnswerInv'
    OBVIOUS
  <2> USE DEF TypeOK, AnswerInv, callers
  <2>1. ASSUME NEW r \in Reqs, \/ NotConnected(r) \/ Create(r) \/ Register(r)
                               \/ Send(r) \/ SendFails(r) \/ StartCleanup(r)
                               \/ Receive(r) \/ GiveUp(r) \/ Expire(r)
                               \/ cleanupRequest(r) \/ AgentReplies(r)
        PROVE AnswerInv'
    BY <2>1 DEF NotConnected, Create, Register, Send, SendFails, StartCleanup,
                Receive, GiveUp, Expire, cleanupRequest, AgentReplies
  <2>2. CASE UNCHANGED <<pc, got>>
    BY <2>2
  <2>3. (\E m \in wire : Lookup(m) \/ LookupFails(m)) \/ Deliver
        \/ deleteRequest \/ Drop \/ OnClose \/ Close \/ ConnLost
        \/ UNCHANGED vars => UNCHANGED <<pc, got>>
    BY DEF Lookup, LookupFails, Deliver, deleteRequest, Drop, OnClose, Close,
           ConnLost, vars
  <2> QED
    BY NextCases, <2>1, <2>2, <2>3
<1> QED
  BY <1>1, <1>2, TypeCorrect, PTL DEF Spec

\* With an agent that echoes ids, Request and the RequestManager together give
\* each caller what Rpc promises: one outcome, and its own reply or an error.
THEOREM RefinementTheorem == ~LegacyAgent /\ Spec => ImplementsRpc
<1>0. SUFFICES ASSUME ~LegacyAgent PROVE Spec => ImplementsRpc
  OBVIOUS
<1>1. Init => Promise!Init
  BY DEF Init, Promise!Init, Phase
<1>2. TypeOK /\ Matching /\ AnswerInv /\ Matching' /\ [Next]_vars
        => [Promise!Next]_(Promise!vars)
  <2> SUFFICES ASSUME TypeOK, Matching, AnswerInv, Matching', [Next]_vars
               PROVE  [Promise!Next]_(Promise!vars)
    OBVIOUS
  <2> USE DEF TypeOK
  <2>1. CASE UNCHANGED <<pc, got>>
    BY <2>1 DEF Promise!vars, Phase
  <2>2. ASSUME NEW r \in Reqs, NotConnected(r) \/ SendFails(r) \/ GiveUp(r)
        PROVE  Promise!Fail(r)
    <3>1. pc[r] # "done" /\ pc' = [pc EXCEPT ![r] = "done"] /\ UNCHANGED got
      BY <2>2 DEF NotConnected, SendFails, GiveUp
    <3> QED
      BY <3>1 DEF Promise!Fail, Phase
  <2>3. ASSUME NEW r \in Reqs, Create(r) PROVE Promise!Start(r)
    <3>1. pc[r] = "idle" /\ pc' = [pc EXCEPT ![r] = "created"] /\ UNCHANGED got
      BY <2>3 DEF Create
    <3> QED
      BY <3>1 DEF Promise!Start, Phase
  <2>4. ASSUME NEW r \in Reqs, Register(r) \/ Send(r) \/ StartCleanup(r)
        PROVE  UNCHANGED Promise!vars
    <3>1. PICK s \in {"registered", "sent", "waiting"} :
             pc' = [pc EXCEPT ![r] = s] /\ UNCHANGED got
      BY <2>4 DEF Register, Send, StartCleanup
    <3>2. pc[r] \notin {"idle", "done"}
      BY <2>4 DEF Register, Send, StartCleanup
    <3> QED
      BY <3>1, <3>2 DEF Promise!vars, Phase
  <2>5. ASSUME NEW r \in Reqs, Receive(r) PROVE Promise!Answer(r)
    <3>1. pc[r] = "waiting" /\ pc' = [pc EXCEPT ![r] = "done"]
      BY <2>5 DEF Receive
    <3>2. got[r] = {}
      BY <3>1 DEF AnswerInv
    <3>3. PICK m \in ch[r] : got' = [got EXCEPT ![r] = @ \cup {m}]
      BY <2>5 DEF Receive
    <3>4. m = r
      BY <3>3 DEF Matching
    <3>5. got' = [got EXCEPT ![r] = {r}]
      BY <3>2, <3>3, <3>4
    <3> QED
      BY <3>1, <3>5 DEF Promise!Answer, Phase
  <2>6. ASSUME NEW r \in Reqs, Expire(r) \/ cleanupRequest(r)
                               \/ AgentReplies(r)
        PROVE  UNCHANGED <<pc, got>>
    BY <2>6 DEF Expire, cleanupRequest, AgentReplies, callers
  <2>7. (\E m \in wire : Lookup(m) \/ LookupFails(m)) \/ Deliver
        \/ deleteRequest \/ Drop \/ OnClose \/ Close \/ ConnLost
        \/ UNCHANGED vars => UNCHANGED <<pc, got>>
    BY DEF Lookup, LookupFails, Deliver, deleteRequest, Drop, OnClose, Close,
           ConnLost, vars, callers
  <2> QED
    BY NextCases, <2>1, <2>2, <2>3, <2>4, <2>5, <2>6, <2>7 DEF Promise!Next
<1> QED
  BY <1>0, <1>1, <1>2, TypeCorrect, MatchingTheorem, AnswerInvariant, PTL
  DEF Spec, ImplementsRpc, Promise!Spec
=============================================================================
