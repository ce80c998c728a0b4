------------------------------- MODULE Stores -------------------------------
(***************************************************************************)
(* The two stores that App fills when it is mounted: the systems and the   *)
(* alerts.  They share neither state nor messages, so that a behaviour of  *)
(* both is a behaviour of each; store says which of the two a behaviour    *)
(* follows, and the other one is left as it was at first.                  *)
(***************************************************************************)
EXTENDS Integers, Sequences, FiniteSets

CONSTANTS Ids, Names, Width, MaxChanges,                       \* systems
          Systems, AlertNames, Vals, Copies, MaxAlertChanges   \* alerts

VARIABLES store,
          db, fresh, byName, byId, up, down, paused, longest, favicon,
          phase, answer, wire, online, missed, changes,
          aDb, alerts, batch, aPhase, aAnswer, aWire, aMissed, copies, guess, direct, cards, aChanges

Sys == INSTANCE SystemsStore
Alert == INSTANCE AlertsStore WITH
    Names <- AlertNames, MaxChanges <- MaxAlertChanges, db <- aDb, phase <- aPhase,
    answer <- aAnswer, wire <- aWire, missed <- aMissed, changes <- aChanges

ASSUME StoresAssumption == Sys!StoreConstants /\ Alert!StoreConstants

systemVars == <<db, fresh, byName, byId, up, down, paused, longest, favicon,
                phase, answer, wire, online, missed, changes>>
alertVars == <<aDb, alerts, batch, aPhase, aAnswer, aWire, aMissed, copies, guess, direct, cards, aChanges>>
vars == <<store, systemVars, alertVars>>

Init ==
    /\ store \in {"systems", "alerts"}
    /\ Sys!Init /\ Alert!Init
    /\ store # "systems" => db = {}
    /\ store # "alerts" => aDb = {}

SysOnly == store = "systems" /\ UNCHANGED <<store, alertVars>>
AlertOnly == store = "alerts" /\ UNCHANGED <<store, systemVars>>

Next ==
    \/ SysOnly /\ Sys!Next
    \/ AlertOnly /\ Alert!Next

\* Messages that were sent arrive while the connection lasts, and the timer of
\* the batch runs out.
Arrives == (SysOnly /\ Sys!Deliver) \/ (AlertOnly /\ Alert!Deliver)
RunsOut == AlertOnly /\ Alert!Flush
Fairness == WF_vars(Arrives) /\ WF_vars(RunsOut)

Spec == Init /\ [][Next]_vars /\ Fairness

-----------------------------------------------------------------------------
(* Properties, of the modules of the two stores.                           *)

\* Both stores keep their state well-formed.
TypeOK == /\ store = "systems" => Sys!TypeOK
          /\ store = "alerts" => Alert!TypeOK

\* Both stores stay well-formed, and after every message the copies of a
\* system's record agree: the up, down and paused stores hold the records of
\* their status, no known system is found under an old name, the favicon shows
\* the number of systems that are down and the name column fits the names.
StoresAgree ==
    /\ TypeOK
    /\ store = "systems" => Sys!StoresAgree

\* When no message is on its way, the browser has of every system and of every
\* alert what the hub announced last.
Synced == /\ store = "systems" => Sys!Synced
          /\ store = "alerts" => Alert!Synced

\* A batch of alert messages is as good as its messages one by one.
BatchLossless == store = "alerts" => Alert!BatchLossless

\* The card of active alerts names the systems that have some.
ActiveSystemsShown == store = "alerts" => Alert!ActiveSystemsShown

\* Every change that is announced gets to be shown: a message is delivered, and
\* a batch is applied however many messages follow.
ChangesShown == Sys!ChangeShown /\ Alert!BatchApplied
=============================================================================
