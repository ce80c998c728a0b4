--------------------------- MODULE RequestManager ---------------------------
(***************************************************************************)
(* The hub's side of one agent connection: callers of transport.Request,   *)
(* the RequestManager that matches replies to pending requests, the        *)
(* goroutine that reads the socket, and one cleanup goroutine per request. *)
(*                                                                         *)
(* A reply is identified by the request it answers.  A reply that carries  *)
(* no id (an old agent) is routed to the oldest pending request.  CreatedAt *)
(* stamps are taken as distinct and in the order of the ids: ids are only  *)
(* compared for equality, so naming them in stamp order loses nothing.     *)
(* Replies are read in any order: no line of the manager relies on one.    *)
(***************************************************************************)
EXTENDS Naturals, FiniteSets

CONSTANTS Reqs,         \* the calls of transport.Request on this connection
          LegacyAgent   \* TRUE: the agent may answer without a request id

ASSUME RequestAssumption == LegacyAgent \in BOOLEAN

VARIABLES
    pc,         \* pc[r]: where the calling goroutine is
    id,         \* id[r]: PendingRequest.ID, 0 before it is drawn
    nextID,     \* RequestManager.nextID
    pending,    \* the requests in pendingReqs, a map keyed by id
    ch,         \* ch[r]: the replies buffered in ResponseCh (capacity 1)
    ctxDone,    \* the requests whose Context is done
    watcher,    \* watcher[r]: the goroutine running cleanupRequest
    got,        \* got[r]: the replies the caller took out of ResponseCh
    closed,     \* closed[m]: how often reply m was given back by Close()
    atAgent,    \* requests the agent has received and not answered
    wire,       \* replies on their way to the hub
    rdPc,       \* where the ReadLoop goroutine is
    rdMsg,      \* the reply it holds, when it holds one
    rdReq,      \* the request it looked up for that reply
    connOpen,   \* the socket accepts writes
    connSet     \* WsConn.conn # nil

callers == <<pc, id, nextID, got>>
table == <<pending, ctxDone, watcher>>
messages == <<ch, closed, atAgent, wire>>
reader == <<rdPc, rdMsg, rdReq>>
conn == <<connOpen, connSet>>
vars == <<callers, table, messages, reader, conn>>

NoReq == "noReq"
Replies == [of : Reqs, hasId : BOOLEAN]

TypeOK ==
    /\ pc \in [Reqs -> {"idle", "created", "registered", "sent", "waiting",
                        "done"}]
    /\ id \in [Reqs -> Nat]
    /\ nextID \in Nat
    /\ pending \subseteq Reqs
    /\ ch \in [Reqs -> SUBSET Reqs]
    /\ \A r \in Reqs : \A a, b \in ch[r] : a = b
    /\ ctxDone \subseteq Reqs
    /\ watcher \in [Reqs -> {"none", "waiting", "done"}]
    /\ got \in [Reqs -> SUBSET Reqs]
    /\ closed \in [Reqs -> Nat]
    /\ atAgent \subseteq Reqs
    /\ wire \subseteq Replies
    /\ rdPc \in {"idle", "deliver", "delete", "ended"}
    /\ rdMsg \in Reqs \cup {NoReq}
    /\ rdReq \in Reqs \cup {NoReq}
    /\ rdPc \in {"deliver", "delete"} => rdMsg \in Reqs /\ rdReq \in Reqs
    /\ connOpen \in BOOLEAN
    /\ connSet \in BOOLEAN

Init ==
    /\ pc = [r \in Reqs |-> "idle"]
    /\ id = [r \in Reqs |-> 0]
    /\ nextID = 0
    /\ pending = {}
    /\ ch = [r \in Reqs |-> {}]
    /\ ctxDone = {}
    /\ watcher = [r \in Reqs |-> "none"]
    /\ got = [r \in Reqs |-> {}]
    /\ closed = [r \in Reqs |-> 0]
    /\ atAgent = {}
    /\ wire = {}
    /\ rdPc = "idle"
    /\ rdMsg = NoReq
    /\ rdReq = NoReq
    /\ connOpen = TRUE
    /\ connSet = TRUE

-----------------------------------------------------------------------------
(* The pending map.  Entries are the requests; the key of one is its id.   *)

WithId(i) == {q \in pending : id[q] = i}
Oldest == {q \in pending : \A p \in pending : id[q] <= id[p]}

\* deleteRequest: the entry goes, its context is left alone.
WithoutNone(i) == pending    \* a bug: the entry stays
Without(i) == pending \ WithId(i)

\* cancelRequest: the entry, if there is one, is cancelled and removed.
cancelRequest(i) == /\ ctxDone' = ctxDone \cup WithId(i)
                    /\ pending' = Without(i)

-----------------------------------------------------------------------------
(* The calling goroutine: WebSocketTransport.Request and SendRequest.      *)

Goto(r, from, to) == pc[r] = from /\ pc' = [pc EXCEPT ![r] = to]

\* IsConnected is false: ErrWebSocketNotConnected.
NotConnected(r) ==
    /\ Goto(r, "idle", "done")
    /\ ~connSet
    /\ UNCHANGED <<id, nextID, got, table, messages, reader, conn>>

\* Draw the id, derive the context, build the PendingRequest.
Create(r) ==
    /\ Goto(r, "idle", "created")
    /\ connSet
    /\ nextID' = nextID + 1
    /\ id' = [id EXCEPT ![r] = nextID + 1]
    /\ UNCHANGED <<got, table, messages, reader, conn>>

\* pendingReqs[reqID] = req, under the lock.
Register(r) ==
    /\ Goto(r, "created", "registered")
    /\ pending' = Without(id[r]) \cup {r}
    /\ UNCHANGED <<id, nextID, got, ctxDone, watcher, messages, reader, conn>>

\* sendMessage succeeds.
Send(r) ==
    /\ Goto(r, "registered", "sent")
    /\ connOpen
    /\ atAgent' = atAgent \cup {r}
    /\ UNCHANGED <<id, nextID, got, table, ch, closed, wire, reader, conn>>

\* sendMessage fails (encoding, or the socket): cancelRequest, no cleanup
\* goroutine, and Request returns the error.
SendFails(r) ==
    /\ Goto(r, "registered", "done")
    /\ cancelRequest(id[r])
    /\ UNCHANGED <<id, nextID, got, watcher, messages, reader, conn>>

\* go rm.cleanupRequest(req); SendRequest returns to Request.
StartCleanup(r) ==
    /\ Goto(r, "sent", "waiting")
    /\ watcher' = [watcher EXCEPT ![r] = "waiting"]
    /\ UNCHANGED <<id, nextID, got, pending, ctxDone, messages, reader, conn>>

\* The first case of Request's select: take the reply, decode it, cancel the
\* context and close the message on return.
Receive(r) ==
    /\ Goto(r, "waiting", "done")
    /\ \E m \in ch[r] :
          /\ got' = [got EXCEPT ![r] = @ \cup {m}]
          /\ ch' = [ch EXCEPT ![r] = @ \ {m}]
          /\ closed' = [closed EXCEPT ![m] = @ + 1]
    /\ ctxDone' = ctxDone \cup {r}
    /\ UNCHANGED <<id, nextID, pending, watcher, atAgent, wire, reader, conn>>

\* The second case of Request's select: the context is done.
GiveUpNever(r) == FALSE    \* a bug: Request waits for the reply alone
GiveUp(r) ==
    /\ Goto(r, "waiting", "done")
    /\ r \in ctxDone
    /\ UNCHANGED <<id, nextID, got, table, messages, reader, conn>>

\* The deadline passes, or the caller's own context is cancelled.
Expire(r) ==
    /\ id[r] # 0
    /\ r \notin ctxDone
    /\ ctxDone' = ctxDone \cup {r}
    /\ UNCHANGED <<callers, pending, watcher, messages, reader, conn>>

\* cleanupRequest: the context is done, cancel by id.
cleanupRequest(r) ==
    /\ watcher[r] = "waiting"
    /\ r \in ctxDone
    /\ watcher' = [watcher EXCEPT ![r] = "done"]
    /\ cancelRequest(id[r])
    /\ UNCHANGED <<callers, messages, reader, conn>>

-----------------------------------------------------------------------------
(* The reading goroutine: Handler.OnMessage and handleResponse.            *)

\* The request a reply is routed to: by id, or the oldest one pending.
TargetsOldest(m) == Oldest    \* a bug: the id of the reply is ignored
Targets(m) == IF m.hasId THEN WithId(id[m.of]) ELSE Oldest

ReaderIdle == rdPc' = "idle" /\ rdMsg' = NoReq /\ rdReq' = NoReq

\* Look the request up under the read lock.
Lookup(m) ==
    /\ rdPc = "idle"
    /\ wire' = wire \ {m}
    /\ \E q \in Targets(m) : rdReq' = q
    /\ rdMsg' = m.of
    /\ rdPc' = "deliver"
    /\ UNCHANGED <<callers, table, ch, closed, atAgent, conn>>

\* No request to route to: close the message.
LookupFails(m) ==
    /\ rdPc = "idle"
    /\ wire' = wire \ {m}
    /\ Targets(m) = {}
    /\ closed' = [closed EXCEPT ![m.of] = @ + 1]
    /\ UNCHANGED <<callers, table, ch, atAgent, reader, conn>>

\* req.ResponseCh <- message: possible while the buffer is empty.
Deliver ==
    /\ rdPc = "deliver"
    /\ ch[rdReq] = {}
    /\ ch' = [ch EXCEPT ![rdReq] = {rdMsg}]
    /\ rdPc' = "delete"
    /\ UNCHANGED <<callers, table, closed, atAgent, wire, rdMsg, rdReq, conn>>

\* deleteRequest(reqID) after the delivery.
deleteRequest ==
    /\ rdPc = "delete"
    /\ pending' = Without(id[rdReq])
    /\ ReaderIdle
    /\ UNCHANGED <<callers, ctxDone, watcher, messages, conn>>

\* <-req.Context.Done(): the reader closes the message itself.
CanDropLate == rdPc \in {"deliver", "delete"}    \* a bug: also once delivered
CanDrop == rdPc = "deliver"
Drop ==
    /\ CanDrop
    /\ rdReq \in ctxDone
    /\ closed' = [closed EXCEPT ![rdMsg] = @ + 1]
    /\ ReaderIdle
    /\ UNCHANGED <<callers, table, ch, atAgent, wire, conn>>

\* Handler.OnClose: the read loop has ended, WsConn.conn becomes nil.  The
\* pending requests are left to their deadlines.
OnClose ==
    /\ rdPc = "idle"
    /\ ~connOpen
    /\ rdPc' = "ended"
    /\ connSet' = FALSE
    /\ wire' = {}
    /\ UNCHANGED <<callers, table, ch, closed, atAgent, rdMsg, rdReq, connOpen>>

-----------------------------------------------------------------------------
(* The connection and the agent.                                           *)

\* WsConn.Close: WriteClose if connected, then RequestManager.Close cancels
\* and forgets every pending request.
Close ==
    /\ connOpen \/ pending # {}
    /\ connOpen' = FALSE
    /\ ctxDone' = ctxDone \cup pending
    /\ pending' = {}
    /\ UNCHANGED <<callers, watcher, messages, reader, connSet>>

\* The socket breaks or the agent closes it.
ConnLost ==
    /\ connOpen
    /\ connOpen' = FALSE
    /\ UNCHANGED <<callers, table, messages, reader, connSet>>

\* The agent answers a request it has received, at most once.
AgentReplies(r) ==
    /\ r \in atAgent
    /\ connOpen
    /\ atAgent' = atAgent \ {r}
    /\ \E h \in BOOLEAN : /\ h \/ LegacyAgent
                          /\ wire' = wire \cup {[of |-> r, hasId |-> h]}
    /\ UNCHANGED <<callers, table, ch, closed, reader, conn>>

-----------------------------------------------------------------------------
Caller(r) == \/ NotConnected(r) \/ Create(r) \/ Register(r)
             \/ Send(r) \/ SendFails(r) \/ StartCleanup(r)
             \/ Receive(r) \/ GiveUp(r)

Reading == \/ \E m \in wire : Lookup(m) \/ LookupFails(m)
           \/ Deliver \/ deleteRequest \/ Drop \/ OnClose

Next == \/ \E r \in Reqs : \/ Caller(r) \/ Expire(r) \/ cleanupRequest(r)
                           \/ AgentReplies(r)
        \/ Reading
        \/ Close \/ ConnLost

Spec == Init /\ [][Next]_vars

(***************************************************************************)
(* Goroutines that can run do run, and context deadlines pass (5 seconds,  *)
(* or the caller's).  Nothing is assumed of the agent or of the network.   *)
(***************************************************************************)
Fairness ==
    /\ \A r \in Reqs :
          /\ WF_vars(Register(r)) /\ WF_vars(Send(r) \/ SendFails(r))
          /\ WF_vars(StartCleanup(r)) /\ WF_vars(Receive(r) \/ GiveUp(r))
          /\ WF_vars(Expire(r)) /\ WF_vars(cleanupRequest(r))
    /\ WF_vars(Reading)

LiveSpec == Spec /\ Fairness

-----------------------------------------------------------------------------
(* Properties.                                                             *)

\* A caller never gets the reply to another call, although the reader looks a
\* request up, lets go of the lock and delivers later (agents that echo ids).
Matching == \A r \in Reqs : got[r] \cup ch[r] \subseteq {r}

\* The reader never hangs: whenever it is about to deliver, the one-place
\* buffer is empty, so one slow caller cannot stop the connection.
ReaderNeverBlocked == rdPc = "deliver" => ch[rdReq] = {}

\* Nothing is pending without somebody bound to take it out: the goroutine
\* still inside SendRequest, or the cleanup goroutine.  Otherwise the map
\* would grow for as long as the connection lives.
PendingOwned ==
    \A r \in pending : pc[r] \in {"registered", "sent"} \/ watcher[r] = "waiting"

\* A reply is given back to the buffer pool at most once, whichever of the
\* reader and the caller ends up responsible for it.
ClosedOnce == \A m \in Reqs : closed[m] <= 1

\* Every call of Request returns, whatever the agent and the socket do.
CallReturns == \A r \in Reqs : id[r] # 0 ~> pc[r] = "done"

\* Every entry leaves the pending map, also when the connection is lost and
\* nobody calls Close.
PendingDrains == \A r \in Reqs : r \in pending ~> r \notin pending

\* Neither a caller nor an entry of the map is left behind, whatever the agent and
\* the connection do.
CallsEnd == CallReturns /\ PendingDrains

\* With ids, the manager gives every caller what Rpc promises.
Phase(r) == CASE pc[r] = "idle" -> "idle"
              [] pc[r] = "done" -> "ended"
              [] OTHER -> "open"

Promise == INSTANCE Rpc WITH
    Calls <- Reqs,
    phase <- [r \in Reqs |-> Phase(r)],
    answer <- got

\* Refinement: every step of the manager is a step of Rpc or invisible to it.
ImplementsRpc == Promise!Spec
=============================================================================
