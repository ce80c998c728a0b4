----------------------- MODULE AgentConnectionProofs -----------------------
(***************************************************************************)
(* The agent never gives up, for any number of dialing goroutines and of   *)
(* connections.                                                            *)
(***************************************************************************)
EXTENDS AgentConnection, TLAPS

\* A tick of Main is not committed: its failure starts no ticker, but then the
\* ticker runs.
Committed(x) == x \in Dialers \/ booting

Trying(x) ==
    /\ Committed(x)
    /\ pc[x] \in {"enter", "sleep", "start", "connect", "dial", "undo", "failed"}

\* Trying, and not yet past the test of the state.
Waiting(x) == Committed(x) /\ pc[x] \in {"enter", "sleep", "start", "failed"}

SomeLoop == \E c \in Conns : loop[c] # "none"

\* What NeverGivesUp rests on: the actor at hand still leads to a ticker or to
\* a connection, and one that was overtaken by a connection keeps the flag
\* isConnecting only until it has started the ticker.
AttemptInv == state = "disconnected" => ticker \/ Opening \/ \E x \in Actors : Trying(x)
FlagInv == (state = "connected" /\ connecting) => ticker \/ \E x \in Actors : Waiting(x)
BootInv == pc[Main] = "enter" => booting
OpenInv == event = "connect" => SomeLoop

LEMMA TypeInit == Init => TypeOK
  BY ConnectionAssumption DEF Init, TypeOK, Actors, Steps, Main, None

LEMMA TypeStep == TypeOK /\ [Next]_vars => TypeOK'
<1> SUFFICES ASSUME TypeOK, [Next]_vars PROVE TypeOK'
  OBVIOUS
<1> USE DEF TypeOK, Actors, Steps, At, Goto, manager, socket
<1>1. ASSUME NEW x \in Actors, Enter(x) PROVE TypeOK'
  BY <1>1 DEF Enter
<1>2. ASSUME NEW x \in Actors, StartConnection(x) PROVE TypeOK'
  BY <1>2 DEF StartConnection, Refused
<1>3. ASSUME NEW x \in Actors, Connect(x) PROVE TypeOK'
  BY <1>3 DEF Connect, CloseCurrent
<1>4. ASSUME NEW x \in Actors, Dial(x) PROVE TypeOK'
  BY <1>4 DEF Dial, Returns
<1>5. ASSUME NEW x \in Actors, DialFails(x) PROVE TypeOK'
  BY <1>5 DEF DialFails
<1>6. ASSUME NEW x \in Actors, Undo(x) PROVE TypeOK'
  BY <1>6 DEF Undo, CloseCurrent, Refused
<1>7. ASSUME NEW x \in Actors, Retry(x) PROVE TypeOK'
  BY <1>7 DEF Retry, Retries
<1>8. ASSUME NEW x \in Actors, Leave(x) PROVE TypeOK'
  BY <1>8 DEF Leave
<1>9. ASSUME NEW c \in Conns, LoopStep(c) \/ Lost(c) PROVE TypeOK'
  BY <1>9 DEF LoopStep, OnOpen, ReadFails, ReadEnds, OnClose, Lost, Send
<1>10. CASE FiveSeconds
  BY <1>10 DEF FiveSeconds
<1>11. CASE Tick
  BY <1>11 DEF Tick
<1>12. CASE Connected
  BY <1>12 DEF Connected
<1>13. CASE Disconnected
  BY <1>13 DEF Disconnected, CloseCurrent
<1>14. CASE Exit
  BY <1>14 DEF Exit
<1>15. CASE UNCHANGED vars
  BY <1>15 DEF vars
<1> QED
  BY <1>1, <1>2, <1>3, <1>4, <1>5, <1>6, <1>7, <1>8, <1>9, <1>10, <1>11,
     <1>12, <1>13, <1>14, <1>15 DEF Next, DialStep

\* Every variable of the connection manager keeps its type, and only a
\* connection with a read loop is open.
THEOREM TypeCorrect == Spec => []TypeOK
  BY TypeInit, TypeStep, PTL DEF Spec

-----------------------------------------------------------------------------
(* Somebody reports the end of a connection.                               *)

LEMMA EndStep ==
  TypeOK /\ EndIsReported /\ OpenInv /\ [Next]_vars => EndIsReported' /\ OpenInv'
<1> SUFFICES ASSUME TypeOK, EndIsReported, OpenInv, [Next]_vars
             PROVE  EndIsReported' /\ OpenInv'
  OBVIOUS
<1> USE DEF EndIsReported, OpenInv, SomeLoop, TypeOK, manager, socket
<1>1. ASSUME NEW x \in Actors, Dial(x) PROVE EndIsReported' /\ OpenInv'
  BY <1>1 DEF Dial
<1>2. ASSUME NEW x \in Actors, DialStep(x), ~Dial(x) PROVE EndIsReported' /\ OpenInv'
  BY <1>2 DEF DialStep, Enter, StartConnection, Connect, DialFails, Undo, Retry, Leave
<1>3. ASSUME NEW c \in Conns, OnOpen(c) PROVE EndIsReported' /\ OpenInv'
  BY <1>3 DEF OnOpen, Send
<1>4. ASSUME NEW c \in Conns, ReadFails(c) PROVE EndIsReported' /\ OpenInv'
  BY <1>4 DEF ReadFails
<1>5. ASSUME NEW c \in Conns, OnClose(c) PROVE EndIsReported' /\ OpenInv'
  BY <1>5 DEF OnClose, Send
<1>6. ASSUME NEW c \in Conns, Lost(c) PROVE EndIsReported' /\ OpenInv'
  BY <1>6 DEF Lost
<1>7. CASE FiveSeconds \/ Tick
  BY <1>7 DEF FiveSeconds, Tick
<1>8. CASE Connected
  BY <1>8 DEF Connected, None
<1>9. CASE Disconnected
  BY <1>9 DEF Disconnected, None
<1>10. CASE Exit
  BY <1>10 DEF Exit, None
<1>11. CASE UNCHANGED vars
  BY <1>11 DEF vars
<1> QED
  BY <1>1, <1>2, <1>3, <1>4, <1>5, <1>6, <1>7, <1>8, <1>9, <1>10, <1>11
     DEF Next, LoopStep

\* However the events of old and new connections interleave in the channel of
\* one place, an agent that believes it is connected will hear of the end:
\* a read loop runs, or a disconnect is waiting.
THEOREM EndIsReportedTheorem == Spec => []EndIsReported
<1>1. Init => EndIsReported /\ OpenInv
  BY DEF Init, EndIsReported, OpenInv, None
<1> QED
  BY <1>1, EndStep, TypeCorrect, PTL DEF Spec

-----------------------------------------------------------------------------
(* The agent never gives up.                                               *)

\* Only the first connect of Start is at its beginning in Main.
LEMMA BootStep == TypeOK /\ BootInv /\ [Next]_vars => BootInv'
<1> SUFFICES ASSUME TypeOK, BootInv, [Next]_vars PROVE BootInv'
  OBVIOUS
<1> USE DEF TypeOK, BootInv, Actors, At, Goto, manager, socket
<1>1. ASSUME NEW x \in Actors, DialStep(x) PROVE BootInv'
  BY <1>1 DEF DialStep, Enter, StartConnection, Connect, Dial, DialFails, Undo,
              Retry, Leave, Refused, Returns
<1>2. ASSUME NEW c \in Conns, LoopStep(c) \/ Lost(c) PROVE BootInv'
  BY <1>2 DEF LoopStep, OnOpen, ReadFails, OnClose, Lost
<1>3. CASE FiveSeconds \/ Tick \/ Connected \/ Exit
  BY <1>3 DEF FiveSeconds, Tick, Connected, Exit
<1>4. CASE Disconnected
  BY <1>4, ConnectionAssumption DEF Disconnected
<1>5. CASE UNCHANGED vars
  BY <1>5 DEF vars
<1> QED
  BY <1>1, <1>2, <1>3, <1>4, <1>5 DEF Next

LEMMA AttemptStep ==
  TypeOK /\ BootInv /\ AttemptInv /\ FlagInv /\ [Next]_vars => AttemptInv' /\ FlagInv'
<1> SUFFICES ASSUME TypeOK, BootInv, AttemptInv, FlagInv, [Next]_vars
             PROVE  AttemptInv' /\ FlagInv'
  OBVIOUS
<1> USE DEF AttemptInv, FlagInv, Opening, Trying, Waiting, Committed, TypeOK,
            Actors, Steps, At, Goto, manager, socket
<1>1. ASSUME NEW x \in Actors, Enter(x) PROVE AttemptInv' /\ FlagInv'
  BY <1>1 DEF Enter, BootInv
<1>2. ASSUME NEW x \in Actors, StartConnection(x) PROVE AttemptInv' /\ FlagInv'
  BY <1>2, ConnectionAssumption DEF StartConnection, Refused
<1>3. ASSUME NEW x \in Actors, Connect(x) PROVE AttemptInv' /\ FlagInv'
  BY <1>3 DEF Connect
<1>4. ASSUME NEW x \in Actors, Dial(x) PROVE AttemptInv' /\ FlagInv'
  BY <1>4 DEF Dial, Returns
<1>5. ASSUME NEW x \in Actors, DialFails(x) PROVE AttemptInv' /\ FlagInv'
  BY <1>5 DEF DialFails
<1>6. ASSUME NEW x \in Actors, Undo(x) PROVE AttemptInv' /\ FlagInv'
  BY <1>6, ConnectionAssumption DEF Undo, Refused
<1>7. ASSUME NEW x \in Actors, Retry(x) PROVE AttemptInv' /\ FlagInv'
  BY <1>7 DEF Retry, Retries
<1>8. ASSUME NEW x \in Actors, Leave(x) PROVE AttemptInv' /\ FlagInv'
  BY <1>8 DEF Leave
<1>9. ASSUME NEW c \in Conns, LoopStep(c) \/ Lost(c) PROVE AttemptInv' /\ FlagInv'
  BY <1>9 DEF LoopStep, OnOpen, ReadFails, OnClose, Lost, Send, None
<1>10. CASE FiveSeconds
  BY <1>10 DEF FiveSeconds
<1>11. CASE Tick
  BY <1>11 DEF Tick
<1>12. CASE Connected
  BY <1>12 DEF Connected
<1>13. CASE Disconnected
  BY <1>13 DEF Disconnected, Reconnects
<1>14. CASE Exit
  BY <1>14 DEF Exit
<1>15. CASE UNCHANGED vars
  BY <1>15 DEF vars
<1> QED
  BY <1>1, <1>2, <1>3, <1>4, <1>5, <1>6, <1>7, <1>8, <1>9, <1>10, <1>11,
     <1>12, <1>13, <1>14, <1>15 DEF Next, DialStep

\* Although isConnecting is read and written by several goroutines without a
\* lock, no interleaving leaves the agent disconnected with nothing under way
\* that leads to a new attempt.
THEOREM NeverGivesUpTheorem == Spec => []NeverGivesUp
<1>1. Init => BootInv /\ AttemptInv /\ FlagInv
  BY DEF Init, BootInv, AttemptInv, FlagInv, Actors
<1>2. AttemptInv => NeverGivesUp
  BY DEF AttemptInv, NeverGivesUp, Trying, Dialing, Steps
<1> QED
  BY <1>1, <1>2, BootStep, AttemptStep, TypeCorrect, PTL DEF Spec
=============================================================================
