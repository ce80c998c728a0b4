-------------------------- MODULE AgentConnection --------------------------
(***************************************************************************)
(* The agent's connection manager: the loop of Start (Main), the           *)
(* goroutines that run connect after a disconnect, and one read loop per   *)
(* WebSocket connection, which reports OnOpen and OnClose over a channel   *)
(* of one place.  Nothing in ConnectionManager is protected by a lock.     *)
(*                                                                         *)
(* Time is what lastConnectAttempt measures: an attempt is recent until    *)
(* five seconds have passed.                                               *)
(***************************************************************************)
EXTENDS Naturals

CONSTANTS Dialers,   \* goroutines of "go c.connect()"; bounds them
          Conns      \* connections with a read loop; bounds them

Main == "main"
None == "none"

ASSUME ConnectionAssumption == Main \notin Dialers /\ None \notin Conns

VARIABLES
    state,       \* State
    event,       \* what eventChan holds, or None
    ticker,      \* whether wsTicker runs
    connecting,  \* isConnecting
    current,     \* wsClient.Conn
    recent,      \* less than five seconds since lastConnectAttempt
    pc,          \* pc[x]: where Main and the dialers are
    booting,     \* Start is still in its first connect
    loop,        \* loop[c]: where the read loop of c is
    open         \* the connections that are open

manager == <<state, ticker, connecting>>
socket == <<loop, open>>
vars == <<manager, event, current, recent, pc, booting, socket>>

Actors == Dialers \cup {Main}
Steps == {"enter", "sleep", "start", "connect", "dial", "undo", "failed", "leave"}

TypeOK ==
    /\ state \in {"disconnected", "connected"}
    /\ event \in {None, "connect", "disconnect"}
    /\ ticker \in BOOLEAN
    /\ connecting \in BOOLEAN
    /\ current \in Conns \cup {None}
    /\ recent \in BOOLEAN
    /\ pc \in [Actors -> Steps \cup {"idle"}]
    /\ booting \in BOOLEAN
    /\ loop \in [Conns -> {"none", "open", "read", "close"}]
    /\ open \subseteq {c \in Conns : loop[c] \in {"open", "read"}}

\* startWsTicker, then connect in the goroutine of Start.
Init ==
    /\ state = "disconnected"
    /\ event = None
    /\ ticker = TRUE
    /\ connecting = FALSE
    /\ current = None
    /\ recent = FALSE
    /\ pc = [x \in Actors |-> IF x = Main THEN "enter" ELSE "idle"]
    /\ booting = TRUE
    /\ loop = [c \in Conns |-> "none"]
    /\ open = {}

At(x, s) == pc[x] = s
Goto(x, s) == pc' = [pc EXCEPT ![x] = s]

\* Close of the client: the connection there is, if any.
CloseCurrent == open \ {current}

-----------------------------------------------------------------------------
(* connect                                                                 *)

Enter(x) ==
    /\ At(x, "enter")
    /\ connecting' = TRUE
    /\ Goto(x, IF recent THEN "sleep" ELSE "start")
    /\ UNCHANGED <<state, ticker, event, current, recent, booting, socket>>

\* Five seconds since the last attempt; who slept has slept enough.
FiveSeconds ==
    /\ recent \/ \E x \in Actors : At(x, "sleep")
    /\ recent' = FALSE
    /\ pc' = [x \in Actors |-> IF At(x, "sleep") THEN "start" ELSE pc[x]]
    /\ UNCHANGED <<manager, event, current, booting, socket>>

\* A tick of Main ignores the error; connect goes on with it.
Refused(x) == IF x = Main /\ ~booting THEN "idle" ELSE "failed"
Returns(x) == IF x = Main /\ ~booting THEN "idle" ELSE "leave"

\* startWebSocketConnection: "already connected", "already connecting", or on.
StartConnection(x) ==
    /\ At(x, "start")
    /\ Goto(x, IF state = "connected" \/ recent THEN Refused(x) ELSE "connect")
    /\ UNCHANGED <<manager, event, current, recent, booting, socket>>

\* Connect: the attempt is stamped and the previous connection closed.
Connect(x) ==
    /\ At(x, "connect")
    /\ recent' = TRUE
    /\ open' = CloseCurrent
    /\ Goto(x, "dial")
    /\ UNCHANGED <<manager, event, current, booting, loop>>

\* NewClient: the hub accepts, and the read loop is started.
Dial(x) ==
    /\ At(x, "dial")
    /\ \E c \in Conns \ {current} :
          /\ loop[c] = "none"
          /\ current' = c
          /\ open' = open \cup {c}
          /\ loop' = [loop EXCEPT ![c] = "open"]
    /\ Goto(x, Returns(x))
    /\ UNCHANGED <<manager, event, recent, booting>>

DialFails(x) ==
    /\ At(x, "dial")
    /\ current' = None
    /\ Goto(x, "undo")
    /\ UNCHANGED <<manager, event, recent, booting, socket>>

\* After a failed dial closeWebSocket closes what is there by now.
Undo(x) ==
    /\ At(x, "undo")
    /\ open' = CloseCurrent
    /\ Goto(x, Refused(x))
    /\ UNCHANGED <<manager, event, current, recent, booting, loop>>

RetriesNot == ticker    \* a bug: nothing tries again
Retries == TRUE

\* startWsTicker
Retry(x) ==
    /\ At(x, "failed")
    /\ ticker' = Retries
    /\ Goto(x, "leave")
    /\ UNCHANGED <<state, connecting, event, current, recent, booting, socket>>

\* The deferred function.
Leave(x) ==
    /\ At(x, "leave")
    /\ connecting' = FALSE
    /\ Goto(x, "idle")
    /\ booting' = (booting /\ x # Main)
    /\ UNCHANGED <<state, ticker, event, current, recent, socket>>

-----------------------------------------------------------------------------
(* The loop of Start.                                                      *)

Tick ==
    /\ At(Main, "idle")
    /\ ticker
    /\ Goto(Main, "start")
    /\ UNCHANGED <<manager, event, current, recent, booting, socket>>

\* handleEvent(WebSocketConnect)
Connected ==
    /\ At(Main, "idle")
    /\ event = "connect"
    /\ event' = None
    /\ IF state = "connected" THEN UNCHANGED manager
       ELSE /\ state' = "connected"
            /\ ticker' = FALSE
            /\ connecting' = FALSE
    /\ UNCHANGED <<current, recent, pc, booting, socket>>

ReconnectsNever == FALSE    \* a bug: the flag is tested the wrong way round
Reconnects == ~connecting

\* handleEvent(WebSocketDisconnect); an attempt under way is left to go on.
Disconnected ==
    /\ At(Main, "idle")
    /\ event = "disconnect"
    /\ event' = None
    /\ IF state = "connected" THEN state' = "disconnected" ELSE UNCHANGED state
    /\ IF state = "connected" /\ Reconnects
       THEN /\ connecting' = TRUE
            /\ open' = CloseCurrent
            /\ \E d \in Dialers : At(d, "idle") /\ Goto(d, "enter")
       ELSE UNCHANGED <<connecting, open, pc>>
    /\ UNCHANGED <<ticker, current, recent, booting, loop>>

-----------------------------------------------------------------------------
(* The read loops.                                                         *)

\* A send on the channel blocks until there is room.
Send(e) == event = None /\ event' = e

OnOpen(c) ==
    /\ loop[c] = "open"
    /\ Send("connect")
    /\ loop' = [loop EXCEPT ![c] = "read"]
    /\ UNCHANGED <<manager, current, recent, pc, booting, open>>

ReadEnds(c) == c \notin open

ReadFails(c) ==
    /\ loop[c] = "read"
    /\ ReadEnds(c)
    /\ loop' = [loop EXCEPT ![c] = "close"]
    /\ UNCHANGED <<manager, event, current, recent, pc, booting, open>>

\* A bug: the send has a default case, and the event is dropped.
OnCloseDrops(c) ==
    /\ loop[c] = "close"
    /\ event' = IF event = None THEN "disconnect" ELSE event
    /\ loop' = [loop EXCEPT ![c] = "none"]
    /\ UNCHANGED <<manager, current, recent, pc, booting, open>>
OnClose(c) ==
    /\ loop[c] = "close"
    /\ Send("disconnect")
    /\ loop' = [loop EXCEPT ![c] = "none"]
    /\ UNCHANGED <<manager, current, recent, pc, booting, open>>

\* The hub or the network closes it, or a failed write of a reply does.
Lost(c) ==
    /\ c \in open
    /\ open' = open \ {c}
    /\ UNCHANGED <<manager, event, current, recent, pc, booting, loop>>

\* A signal, or an unknown host with EXIT_ON_DNS_ERROR: the process ends and
\* the service manager starts it again.
Exit ==
    /\ At(Main, "idle") \/ \E x \in Actors : At(x, "failed")
    /\ state' = "disconnected" /\ event' = None /\ ticker' = TRUE
    /\ connecting' = FALSE /\ current' = None /\ recent' = FALSE
    /\ pc' = [x \in Actors |-> IF x = Main THEN "enter" ELSE "idle"]
    /\ booting' = TRUE
    /\ loop' = [c \in Conns |-> "none"]
    /\ open' = {}

-----------------------------------------------------------------------------
DialStep(x) == \/ Enter(x) \/ StartConnection(x) \/ Connect(x) \/ Dial(x)
               \/ DialFails(x) \/ Undo(x) \/ Retry(x) \/ Leave(x)
LoopStep(c) == OnOpen(c) \/ ReadFails(c) \/ OnClose(c)

Next == \/ \E x \in Actors : DialStep(x)
        \/ \E c \in Conns : LoopStep(c) \/ Lost(c)
        \/ FiveSeconds \/ Tick \/ Connected \/ Disconnected \/ Exit

Spec == Init /\ [][Next]_vars

\* Goroutines run, dials end, time passes, a channel serves its blocked senders
\* in order, and select is fair to the event channel and to the ticker.
\* Nothing is assumed of the hub or the network.
Fairness == /\ \A x \in Actors : WF_vars(DialStep(x))
            /\ \A c \in Conns : SF_vars(LoopStep(c))
            /\ WF_vars(FiveSeconds) /\ WF_vars(Tick)
            /\ SF_vars(Connected \/ Disconnected)

LiveSpec == Spec /\ Fairness

-----------------------------------------------------------------------------
(* Properties.                                                             *)

Dialing == \E x \in Actors : pc[x] \in Steps
Opening == event = "connect" \/ \E c \in Conns : loop[c] = "open"

\* "It handles connection events, reconnection": an agent that is not
\* connected has an attempt under way, a ticker that will make one, or a new
\* connection that has yet to be reported.
NeverGivesUp == state = "disconnected" => ticker \/ Dialing \/ Opening

\* Somebody will report the end of the connection an agent believes in:
\* otherwise it would never try again.
EndIsReported ==
    state = "connected" => event = "disconnect" \/ \E c \in Conns : loop[c] # "none"

\* An agent that is not connected asks the hub again, and again.
KeepsDialing ==
    [](state = "disconnected" => <>(state = "connected" \/ \E x \in Actors : At(x, "dial")))
=============================================================================
