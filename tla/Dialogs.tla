------------------------------- MODULE Dialogs -------------------------------
(***************************************************************************)
(* What the pages do by requests of their own: signing in (main.tsx,       *)
(* login.tsx), the actions on an agent (routes/system/info-bar.tsx: SSH    *)
(* access, install script, deletion), enrolling and renaming one           *)
(* (add-system.tsx), the Telegram settings (notifications.tsx), and the    *)
(* toasts that report on them (ui/use-toast.ts).                           *)
(*                                                                         *)
(* A call is in flight until it is answered.  It carries the generation of *)
(* the component that made it: state set for a component that was          *)
(* unmounted since is lost.  The bar of a system stays mounted from one    *)
(* system to the next.                                                     *)
(***************************************************************************)
EXTENDS Naturals, Sequences

CONSTANTS Agents,       \* systems
          UserIds,      \* Telegram ids; 0, in none, is a blank one
          ToastLimit,   \* TOAST_LIMIT
          MaxClicks     \* bound on what the user does

VARIABLES
    authenticated,  \* "unknown", "no" or "yes"
    viewing,    \* the system whose page is shown, or 0
    gen,        \* generation of each component
    bar,        \* state of InfoBar
    add,        \* state of SystemDialog
    signIn,     \* state of Login
    telegram,   \* state of Notifications
    calls,      \* requests in flight
    hubSide,    \* what the hub has: agents, launches, Telegram ids
    asked,      \* agents whose deletion was only asked for after an uninstallation
    toasts,     \* memoryState.toasts, newest first
    toastTimeouts,  \* ids of dismissed toasts that wait to be removed
    count,      \* of toasts so far
    clicks      \* so far

vars == <<authenticated, viewing, gen, bar, add, signIn, telegram, calls, hubSide, asked,
          toasts, toastTimeouts, count, clicks>>

Parts == {"bar", "add", "signIn", "telegram"}
FreshBar == [ssh |-> 0, sshLoading |-> FALSE, install |-> 0, delete |-> FALSE,
             uninstall |-> FALSE, deleteLoading |-> FALSE]
FreshAdd == [open |-> FALSE, loading |-> FALSE, token |-> 0, install |-> FALSE]
FreshTelegram == [ids |-> {}, loading |-> TRUE]

TypeOK ==
    /\ authenticated \in {"unknown", "no", "yes"} /\ viewing \in Agents \cup {0}
    /\ gen \in [Parts -> Nat]
    /\ bar \in [ssh : Nat, sshLoading : BOOLEAN, install : Agents \cup {0}, delete : BOOLEAN,
                uninstall : BOOLEAN, deleteLoading : BOOLEAN]
    /\ add \in [open : BOOLEAN, loading : BOOLEAN, token : Nat, install : BOOLEAN]
    /\ signIn \in [loading : BOOLEAN, error : BOOLEAN]
    /\ telegram \in [ids : SUBSET (UserIds \cup {0}), loading : BOOLEAN]
    /\ \A c \in calls : c.part \in Parts
    /\ hubSide.ids \subseteq UserIds /\ hubSide.agents \subseteq Agents
    /\ Len(toasts) <= ToastLimit /\ \A i \in DOMAIN toasts : toasts[i].id <= count
    /\ clicks \in 0 .. MaxClicks

-----------------------------------------------------------------------------
(* Toasts: the reducer and its side effects.                               *)

AddToast(list, id) == SubSeq(<<[id |-> id, open |-> TRUE]>> \o list, 1,
                             IF Len(list) < ToastLimit THEN Len(list) + 1 ELSE ToastLimit)
DismissToast(list, id) == [i \in DOMAIN list |-> IF list[i].id = id THEN [list[i] EXCEPT !.open = FALSE] ELSE list[i]]
\* The ids are unique: at most one toast is filtered out.
RemoveToast(list, id) ==
    IF \A i \in DOMAIN list : list[i].id # id THEN list
    ELSE LET at == CHOOSE i \in DOMAIN list : list[i].id = id
         IN  SubSeq(list, 1, at - 1) \o SubSeq(list, at + 1, Len(list))

toast == /\ count' = count + 1
         /\ toasts' = AddToast(toasts, count + 1)
         /\ UNCHANGED toastTimeouts
Quiet == UNCHANGED <<toasts, toastTimeouts, count>>

\* Its duration runs out, or it is closed: addToRemoveQueue.
Dismiss(i) ==
    /\ toasts[i].open
    /\ toasts' = DismissToast(toasts, toasts[i].id)
    /\ toastTimeouts' = toastTimeouts \cup {toasts[i].id}
    /\ UNCHANGED <<authenticated, viewing, gen, bar, add, signIn, telegram, calls, hubSide, asked, count, clicks>>

\* TOAST_REMOVE_DELAY later.
Removed(id) ==
    /\ toastTimeouts' = toastTimeouts \ {id}
    /\ toasts' = RemoveToast(toasts, id)
    /\ UNCHANGED <<authenticated, viewing, gen, bar, add, signIn, telegram, calls, hubSide, asked, count, clicks>>

-----------------------------------------------------------------------------
(* Calls.                                                                  *)

Call(part, op, id) == [part |-> part, op |-> op, id |-> id, gen |-> gen[part], ids |-> {}]
Click == clicks < MaxClicks /\ clicks' = clicks + 1
Send(c) == calls' = calls \cup {c}

\* A user's click that changes one part and sends a call.
Sends(c) == Click /\ Send(c) /\ UNCHANGED <<authenticated, viewing, gen, hubSide>> /\ Quiet

\* State set by an answer, if the component is still there.
Current(c) == c.gen = gen[c.part]
SetBar(c, b) == bar' = (IF Current(c) THEN b ELSE bar)
SetAdd(c, a) == add' = (IF Current(c) THEN a ELSE add)

Answered(c) == calls' = calls \ {c} /\ UNCHANGED clicks

-----------------------------------------------------------------------------
(* Signing in.                                                             *)

\* Layout: only 401 leads to the login; an error counts as signed in.
AuthChecked ==
    /\ authenticated = "unknown"
    /\ authenticated' \in {"no", "yes"}
    /\ UNCHANGED <<viewing, gen, bar, add, signIn, telegram, calls, hubSide, asked, clicks>> /\ Quiet

LoginSubmit ==
    /\ authenticated = "no" /\ ~signIn.loading
    /\ signIn' = [loading |-> TRUE, error |-> FALSE]
    /\ Sends(Call("signIn", "auth", 0))
    /\ UNCHANGED <<bar, add, telegram, asked>>

LoginAnswer(c) ==
    /\ c.op = "auth"
    /\ Answered(c)
    /\ \/ authenticated' = "yes" /\ signIn' = [loading |-> FALSE, error |-> FALSE]
       \/ authenticated' = authenticated /\ signIn' = [loading |-> FALSE, error |-> TRUE]
    /\ UNCHANGED <<viewing, gen, bar, add, telegram, hubSide, asked>> /\ Quiet

-----------------------------------------------------------------------------
(* InfoBar.                                                                *)

\* A page of a system, or home; the bar unmounts only on the way home.
Goto(i) ==
    /\ viewing' = i
    /\ IF i = 0 /\ viewing # 0 THEN bar' = FreshBar /\ gen' = [gen EXCEPT !["bar"] = @ + 1]
       ELSE UNCHANGED <<bar, gen>>

Navigate(i) ==
    /\ authenticated = "yes" /\ i # viewing
    /\ Click /\ Goto(i)
    /\ UNCHANGED <<authenticated, add, signIn, telegram, calls, hubSide, asked>> /\ Quiet

createSSHLaunch ==
    /\ viewing # 0 /\ bar.ssh = 0 /\ ~bar.sshLoading
    /\ bar' = [bar EXCEPT !.sshLoading = TRUE]
    /\ Sends(Call("bar", "create", viewing))
    /\ UNCHANGED <<add, signIn, telegram, asked>>

\* finally: sshLoading ends, whatever the answer.
SSHLoadingEnds(b) == [b EXCEPT !.sshLoading = FALSE]

SSHLaunchAnswer(c) ==
    /\ c.op = "create"
    /\ Answered(c)
    /\ \/ LET token == hubSide.tokens + 1
          IN  /\ hubSide' = [hubSide EXCEPT !.tokens = token, !.launches = @ \cup {token}]
              /\ SetBar(c, SSHLoadingEnds([bar EXCEPT !.ssh = token]))
       \/ SetBar(c, SSHLoadingEnds(bar)) /\ UNCHANGED hubSide
    /\ UNCHANGED <<authenticated, viewing, gen, add, signIn, telegram, asked>> /\ Quiet

\* The button stays enabled while the request is in flight.
revokeSSHLaunch ==
    /\ viewing # 0 /\ bar.ssh # 0
    /\ Sends(Call("bar", "revoke", bar.ssh))
    /\ UNCHANGED <<bar, add, signIn, telegram, asked>>

\* The status of the answer is not looked at: the command is forgotten unless
\* the request itself fails.
RevokeAnswer(c) ==
    /\ c.op = "revoke"
    /\ Answered(c)
    /\ \/ hubSide' = [hubSide EXCEPT !.launches = @ \ {c.id}] /\ SetBar(c, [bar EXCEPT !.ssh = 0])
       \/ UNCHANGED hubSide /\ SetBar(c, [bar EXCEPT !.ssh = 0])
       \/ UNCHANGED hubSide /\ UNCHANGED bar
    /\ UNCHANGED <<authenticated, viewing, gen, add, signIn, telegram, asked>> /\ Quiet

loadInstallScript ==
    /\ viewing # 0
    /\ Sends(Call("bar", "install", viewing))
    /\ UNCHANGED <<bar, add, signIn, telegram, asked>>

InstallAnswer(c) ==
    /\ c.op = "install"
    /\ Answered(c)
    /\ SetBar(c, [bar EXCEPT !.install = c.id]) \/ UNCHANGED bar
    /\ UNCHANGED <<authenticated, viewing, gen, add, signIn, telegram, hubSide, asked>> /\ Quiet

\* The dialog of the deletion; closing it clears the checkbox.
DeleteDialog ==
    /\ viewing # 0
    /\ Click
    /\ bar' \in {[bar EXCEPT !.delete = TRUE], [bar EXCEPT !.delete = TRUE, !.uninstall = ~@],
                 [bar EXCEPT !.delete = FALSE, !.uninstall = FALSE]} \ {bar}
    /\ UNCHANGED <<authenticated, viewing, gen, add, signIn, telegram, calls, hubSide, asked>> /\ Quiet

\* deleteSystem, up to its first request.
FirstDeleteCall(un) == IF un THEN "uninstall" ELSE "delete"

\* A deletion of i without an uninstallation is under way, or was carried out.
DeletedPlainly(i) ==
    i \notin hubSide.uninstalled /\ (i \notin hubSide.agents \/ \E c \in calls : c.op = "delete" /\ c.id = i)

deleteSystem ==
    /\ viewing # 0 /\ bar.delete /\ ~bar.deleteLoading
    /\ bar' = [bar EXCEPT !.deleteLoading = TRUE]
    /\ asked' = IF bar.uninstall /\ ~DeletedPlainly(viewing) THEN asked \cup {viewing} ELSE asked \ {viewing}
    /\ Sends(Call("bar", FirstDeleteCall(bar.uninstall), viewing))
    /\ UNCHANGED <<add, signIn, telegram>>

\* The uninstallation failed, or the deletion is next.
UninstallAnswer(c) ==
    /\ c.op = "uninstall"
    /\ \/ /\ hubSide' = [hubSide EXCEPT !.uninstalled = @ \cup {c.id}]
          /\ calls' = (calls \ {c}) \cup {[c EXCEPT !.op = "delete"]}
          /\ UNCHANGED bar
       \/ calls' = calls \ {c} /\ SetBar(c, [bar EXCEPT !.deleteLoading = FALSE]) /\ UNCHANGED hubSide
    /\ UNCHANGED <<authenticated, viewing, gen, add, signIn, telegram, asked, clicks>> /\ Quiet

\* Deleted: navigate("/"), wherever the user is by now.
DeleteAnswer(c) ==
    /\ c.op = "delete"
    /\ Answered(c)
    /\ \/ hubSide' = [hubSide EXCEPT !.agents = @ \ {c.id}] /\ Goto(0)
       \/ /\ SetBar(c, [bar EXCEPT !.deleteLoading = FALSE])
          /\ UNCHANGED <<hubSide, viewing, gen>>
    /\ UNCHANGED <<authenticated, add, signIn, telegram, asked>> /\ Quiet

-----------------------------------------------------------------------------
(* SystemDialog, to enroll a system.                                       *)

\* Opening and closing mount it anew.
AddDialog ==
    /\ authenticated = "yes"
    /\ Click
    /\ add' = [FreshAdd EXCEPT !.open = ~add.open]
    /\ gen' = [gen EXCEPT !["add"] = @ + 1]
    /\ UNCHANGED <<authenticated, viewing, bar, signIn, telegram, calls, hubSide, asked>> /\ Quiet

AddSubmit ==
    /\ add.open /\ ~add.loading /\ add.token = 0
    /\ add' = [add EXCEPT !.loading = TRUE]
    /\ Sends(Call("add", "enroll", 0))
    /\ UNCHANGED <<bar, signIn, telegram, asked>>

\* The token first, then the script; a failure of either is one toast.
AddAnswer(c) ==
    \/ /\ c.op = "enroll"
       /\ calls' = (calls \ {c}) \cup {[c EXCEPT !.op = "script"]}
       /\ SetAdd(c, [add EXCEPT !.token = 1])
       /\ UNCHANGED <<authenticated, viewing, gen, bar, signIn, telegram, hubSide, asked, clicks>> /\ Quiet
    \/ /\ c.op = "script"
       /\ Answered(c)
       /\ SetAdd(c, [add EXCEPT !.install = TRUE, !.loading = FALSE])
       /\ UNCHANGED <<authenticated, viewing, gen, bar, signIn, telegram, hubSide, asked>> /\ Quiet
    \/ /\ c.op \in {"enroll", "script"}
       /\ Answered(c)
       /\ SetAdd(c, [add EXCEPT !.loading = FALSE])
       /\ toast
       /\ UNCHANGED <<authenticated, viewing, gen, bar, signIn, telegram, hubSide, asked>>

-----------------------------------------------------------------------------
(* Notifications.                                                          *)

\* Ids as the schema lets them through: trimmed, and none blank.
Parsed(ids) == ids \ {0}

TypeIds(ids) ==
    /\ authenticated = "yes" /\ ids # telegram.ids
    /\ Click
    /\ telegram' = [telegram EXCEPT !.ids = ids]
    /\ UNCHANGED <<authenticated, viewing, gen, bar, add, signIn, calls, hubSide, asked>> /\ Quiet

SaveTelegram ==
    /\ ~telegram.loading
    /\ telegram' = [telegram EXCEPT !.loading = TRUE]
    /\ Sends([Call("telegram", "save", 0) EXCEPT !.ids = Parsed(telegram.ids)])
    /\ UNCHANGED <<bar, add, signIn, asked>>

TestTelegram ==
    /\ ~telegram.loading /\ telegram.ids # {}
    /\ Sends(Call("telegram", "test", 0))
    /\ UNCHANGED <<bar, add, signIn, telegram, asked>>

\* What was typed in the meantime is overwritten by the answer.
TelegramAnswer(c) ==
    /\ c.op \in {"load", "save", "test"}
    /\ Answered(c)
    /\ \/ c.op = "load" /\ telegram' = [ids |-> hubSide.ids, loading |-> FALSE] /\ UNCHANGED hubSide /\ Quiet
       \/ /\ c.op = "save" /\ telegram' = [ids |-> c.ids, loading |-> FALSE]
          /\ hubSide' = [hubSide EXCEPT !.ids = c.ids] /\ toast
       \/ c.op # "test" /\ telegram' = [telegram EXCEPT !.loading = FALSE] /\ UNCHANGED hubSide /\ toast
       \/ c.op = "test" /\ UNCHANGED <<telegram, hubSide>> /\ toast
    /\ UNCHANGED <<authenticated, viewing, gen, bar, add, signIn, asked>>

-----------------------------------------------------------------------------
Init ==
    /\ authenticated = "unknown" /\ viewing = 0
    /\ gen = [p \in Parts |-> 0]
    /\ bar = FreshBar /\ add = FreshAdd
    /\ signIn = [loading |-> FALSE, error |-> FALSE]
    /\ telegram = FreshTelegram
    /\ calls = {Call("telegram", "load", 0)}
    /\ hubSide = [agents |-> Agents, uninstalled |-> {}, launches |-> {}, tokens |-> 0, ids |-> UserIds]
    /\ asked = {} /\ toasts = <<>> /\ toastTimeouts = {} /\ count = 0 /\ clicks = 0

Answer(c) == \/ LoginAnswer(c) \/ SSHLaunchAnswer(c) \/ RevokeAnswer(c) \/ InstallAnswer(c)
             \/ UninstallAnswer(c) \/ DeleteAnswer(c) \/ AddAnswer(c) \/ TelegramAnswer(c)
Answers == \E c \in calls : Answer(c)
Toasting == (\E i \in DOMAIN toasts : Dismiss(i)) \/ (\E id \in toastTimeouts : Removed(id))

Next ==
    \/ AuthChecked \/ LoginSubmit
    \/ \E i \in Agents \cup {0} : Navigate(i)
    \/ createSSHLaunch \/ revokeSSHLaunch \/ loadInstallScript \/ DeleteDialog \/ deleteSystem
    \/ AddDialog \/ AddSubmit
    \/ \E ids \in SUBSET (UserIds \cup {0}) : TypeIds(ids)
    \/ SaveTelegram \/ TestTelegram
    \/ Answers \/ Toasting

Spec == Init /\ [][Next]_vars

-----------------------------------------------------------------------------
(* Properties.                                                             *)

\* "Stop the Picket service and remove the agent files from the host before
\* deleting this record": an agent that was to be uninstalled is deleted only
\* after its host has done so, whatever was clicked while that was under way,
\* unless a deletion without it had been asked for before.
UninstalledFirst == \A i \in asked : i \notin hubSide.agents => i \in hubSide.uninstalled

\* The timer of a dismissed toast takes only that toast away, not one that has
\* taken its place since.
OpenToastStays == [][toasts # <<>> /\ toasts[1].open => toasts' # <<>>]_vars

\* A button that is disabled while its request is in flight is enabled again,
\* also when one of several requests fails.
LoadingEnds ==
    /\ bar.sshLoading ~> ~bar.sshLoading
    /\ bar.deleteLoading ~> ~bar.deleteLoading
    /\ add.loading ~> ~add.loading
    /\ telegram.loading ~> ~telegram.loading
    /\ signIn.loading ~> ~signIn.loading
=============================================================================
