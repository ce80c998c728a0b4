-------------------------------- MODULE Rpc --------------------------------
(***************************************************************************)
(* What a caller of transport.Request is promised: a call that was started *)
(* ends once, either with the reply to that very call or with an error,    *)
(* and the outcome of a finished call never changes.                       *)
(***************************************************************************)
CONSTANT Calls

VARIABLES phase,    \* phase[c]: "idle", "open" or "ended"
          answer    \* answer[c]: the calls whose replies c was given

vars == <<phase, answer>>

Init == /\ phase = [c \in Calls |-> "idle"]
        /\ answer = [c \in Calls |-> {}]

\* The caller enters Request.
Start(c) == /\ phase[c] = "idle"
            /\ phase' = [phase EXCEPT ![c] = "open"]
            /\ UNCHANGED answer

\* The caller returns with the agent's reply to this call.
Answer(c) == /\ phase[c] = "open"
             /\ phase' = [phase EXCEPT ![c] = "ended"]
             /\ answer' = [answer EXCEPT ![c] = {c}]

\* The caller returns with an error (not connected, not sent, timed out).
Fail(c) == /\ phase[c] \in {"idle", "open"}
           /\ phase' = [phase EXCEPT ![c] = "ended"]
           /\ UNCHANGED answer

Next == \E c \in Calls : Start(c) \/ Answer(c) \/ Fail(c)

Spec == Init /\ [][Next]_vars
=============================================================================
