----------------------------- MODULE SystemView -----------------------------
(***************************************************************************)
(* The page of one system (components/routes/system/use-system-data.ts and *)
(* chart-data.ts): which system it shows, the chart data it asks for, the  *)
(* cache it keeps of them and the realtime points of the "1m" chart.       *)
(*                                                                         *)
(* A React effect runs to its end after the render that made it due; what  *)
(* the effects of one commit do is one step.  Answers and messages come in *)
(* between.  Container data take the same way as the system's, in the same *)
(* calls, and are left out.  now counts intervals of the chart.            *)
(***************************************************************************)
EXTENDS Integers, FiniteSets, Sequences

CONSTANTS Systems,      \* ids of systems
          Slugs,        \* systems that may be addressed by their name
          Times,        \* chart times but "1m"; a chart time has its record type
          Default,      \* chartTime of the display settings
          MaxLen,       \* appendData's maxLen for stored records (100)
          MaxLive,      \* appendData's maxLen for realtime points (60)
          MaxTime,      \* bound on now
          MaxRequests,  \* bound on requests for stats
          MaxMoves      \* bound on what the user does

None == "none"

ASSUME ViewAssumption == /\ {Default, "1h"} \subseteq Times
                         /\ {"1m", None} \cap Times = {} /\ None \notin Systems
                         /\ Slugs \subseteq Systems
                         /\ {MaxLen, MaxLive, MaxTime, MaxRequests, MaxMoves} \subseteq Nat \ {0}

Routes == [sys : Systems, by : {"id"}] \cup [sys : Slugs, by : {"name"}]
ChartTimes == Times \cup {"1m"}
Points == [sys : Systems, type : ChartTimes, at : 1 .. MaxTime]
Gap == [sys |-> None, type |-> None, at |-> 0]    \* created: null

VARIABLES
    now,        \* the time, by the clocks of the hub and the browser
    hub,        \* hub[s]: times at which a record of s was made
    known,      \* systems in the stores
    route,      \* the id of the route
    moves,      \* what the user did so far
    system,     \* the system shown
    lookups,    \* getOne requests in flight
    chartTime,  \* $chartTime
    stats,      \* systemStats
    loading,    \* chartLoading
    cache,      \* cache: records by system and chart time
    requestId,  \* statsRequestId
    reqs,       \* getStats requests in flight
    sub,        \* the realtime subscription of the current effect
    leaked,     \* subscriptions that nobody can end any more
    td,         \* cache.get("td")
    chart       \* chart time and end of the time axis of chartData

world == <<now, hub>>
place == <<known, route, moves>>
shown == <<system, lookups>>
data == <<stats, loading, cache, requestId, reqs>>
axis == <<td, chart>>
vars == <<world, place, shown, chartTime, data, sub, leaked, axis>>

NoSub == [state |-> "none", sys |-> None, first |-> TRUE]
Subs == [state : {"none", "opening", "open"}, sys : Systems \cup {None}, first : BOOLEAN]
Requests == [n : 1 .. MaxRequests, sys : Systems, time : Times, from : 0 .. MaxTime,
             cancelled : BOOLEAN]

TypeOK ==
    /\ now \in 1 .. MaxTime /\ hub \in [Systems -> SUBSET (1 .. MaxTime)]
    /\ known \subseteq Systems /\ route \in Routes /\ moves \in 0 .. MaxMoves
    /\ system \in Systems \cup {None} /\ lookups \subseteq Systems
    /\ chartTime \in ChartTimes
    /\ stats \in Seq(Points \cup {Gap}) /\ loading \in BOOLEAN
    /\ cache \in [Systems \X Times -> Seq(Points \cup {Gap})]
    /\ requestId \in 0 .. MaxRequests
    /\ reqs \subseteq Requests /\ \A r, q \in reqs : r.n = q.n => r = q
    /\ sub \in Subs /\ (sub.state # "none" => sub.sys \in Systems)
    /\ leaked \subseteq [sys : Systems, first : BOOLEAN]
    /\ td \in [ct : ChartTimes, time : 0 .. MaxTime]
    /\ chart \in [ct : ChartTimes, time : 0 .. MaxTime]

Init ==
    /\ now = 1 /\ hub \in [Systems -> {{1}}]
    /\ known \in {{}, Systems} /\ route \in Routes /\ moves = 0
    /\ system = None /\ lookups = {}
    /\ chartTime = Default
    /\ stats = <<>> /\ loading = TRUE /\ cache = [k \in Systems \X Times |-> <<>>]
    /\ requestId = 0 /\ reqs = {}
    /\ sub = NoSub /\ leaked = {}
    /\ td = [ct |-> Default, time |-> now] /\ chart = td

-----------------------------------------------------------------------------
(* chart-data.ts                                                           *)

Created(s) == IF s = <<>> THEN 0 ELSE s[Len(s)].at

\* "Pre-trim prev": slice(-(maxLen - n)), where slice(-0) is everything.
Trimmed(prev, n, maxLen) ==
    LET keep == IF n < maxLen THEN maxLen - n
                ELSE IF n = maxLen THEN Len(prev) ELSE Len(prev) - (n - maxLen)
    IN  IF Len(prev) < maxLen THEN prev
        ELSE SubSeq(prev, Len(prev) - (IF keep > 0 THEN keep ELSE 0) + 1, Len(prev))

\* A gap goes before a record that comes more than 1.5 intervals after the one
\* before it: the late ones of new.  Place is where new[i] gets to.
Late(start, new) ==
    LET Before(i) == IF i = 1 THEN Created(start) ELSE new[i - 1].at
    IN  {i \in DOMAIN new : Before(i) # 0 /\ new[i].at > Before(i) + 1}
Place(start, new, i) == Len(start) + i + Cardinality(Late(start, new) \cap 1 .. i)
Joined(start, new) ==
    [n \in 1 .. Place(start, new, Len(new)) |->
        IF n <= Len(start) THEN start[n]
        ELSE IF \E i \in DOMAIN new : Place(start, new, i) = n
        THEN new[CHOOSE i \in DOMAIN new : Place(start, new, i) = n] ELSE Gap]

appendData(prev, new, maxLen) ==
    IF new = <<>> THEN prev ELSE Joined(Trimmed(prev, Len(new), maxLen), new)

\* getFullList: "created > lastCached + 1s", sorted by created.
Since(r) == {t \in hub[r.sys] : t > r.from}
Answers(r) ==
    {[i \in DOMAIN ts |-> [sys |-> r.sys, type |-> r.time, at |-> ts[i]]] :
        ts \in {f \in [1 .. Cardinality(Since(r)) -> Since(r)] :
                   \A i, j \in DOMAIN f : i < j => f[i] < f[j]}}

\* getTimeData, and the memo of chartData that calls it when stats has changed.
getTimeDataByType(ct, last) ==    \* a bug: the newest point is not looked at
    IF td.ct = ct THEN td ELSE [ct |-> ct, time |-> now]
getTimeData(ct, last) ==
    IF td.ct = ct /\ (last = 0 \/ td.time >= last) THEN td ELSE [ct |-> ct, time |-> now]

ChartData(ct, s) ==
    /\ td' = getTimeData(ct, Created(s))
    /\ chart' = [ct |-> ct, time |-> td'.time]

-----------------------------------------------------------------------------
(* The effects.                                                            *)

\* "subscribe to realtime metrics if chart time is 1m".  The function that ends
\* a subscription is there once it is open; before that the cleanup does nothing.
Realtime(s, ct) ==
    /\ leaked' = IF sub.state = "opening" THEN leaked \cup {[sys |-> sub.sys, first |-> TRUE]}
                 ELSE leaked
    /\ sub' = IF s # None /\ ct = "1m" THEN [state |-> "opening", sys |-> s, first |-> TRUE]
              ELSE NoSub

\* A system that is not up, or an agent that is too old, has no "1m" chart.
TimeFor(s, ct) == IF s # None /\ ct = "1m" THEN {"1m", "1h"} \cap ChartTimes ELSE {ct}

\* "get stats when system changes": the client cancels the request it repeats.
Fetch(s, ct) ==
    /\ requestId < MaxRequests
    /\ requestId' = requestId + 1
    /\ reqs' = {[r EXCEPT !.cancelled = TRUE] : r \in reqs}
               \cup {[n |-> requestId', sys |-> s, time |-> ct,
                      from |-> Created(cache[<<s, ct>>]), cancelled |-> FALSE]}

\* setSystemStats, with the render that follows unless it is the array that is
\* there already: an empty one is always a new one, and after the cleanup for
\* the last id (reset) an empty one was rendered in between.
SetStats(s, ct, reset) ==
    /\ stats' = s
    /\ IF s = stats /\ s # <<>> /\ ~reset THEN UNCHANGED axis ELSE ChartData(ct, s)

LeaveStats(reset, ct) ==
    IF reset THEN SetStats(<<>>, ct, TRUE) ELSE UNCHANGED <<stats, axis>>

StatsEffect(s, ct, reset) ==
    \/ /\ s = None \/ ct = "1m"
       /\ LeaveStats(reset, ct)
       /\ UNCHANGED <<loading, requestId, reqs>>
    \/ /\ s # None /\ ct # "1m" /\ cache[<<s, ct>>] # <<>>
       /\ SetStats(cache[<<s, ct>>], ct, reset) /\ loading' = FALSE
       /\ IF Created(cache[<<s, ct>>]) = now    \* no new point is expected yet
          THEN /\ requestId < MaxRequests /\ requestId' = requestId + 1
               /\ UNCHANGED reqs
          ELSE Fetch(s, ct)
    \/ /\ s # None /\ ct # "1m" /\ cache[<<s, ct>>] = <<>>
       /\ LeaveStats(reset, ct) /\ loading' = TRUE
       /\ Fetch(s, ct)

\* The effects of a commit with a new object of system s or a new chart time ct;
\* reset: the id is new too.  (The effect on the agent's version compares two
\* objects with <, which is never true.)
Commit(s, ct, reset) ==
    LET rerun == s # system \/ ct # chartTime
    IN  \E t \in IF rerun THEN TimeFor(s, ct) ELSE {ct} :
            /\ system' = s /\ chartTime' = t
            /\ IF rerun THEN Realtime(s, t) ELSE UNCHANGED <<sub, leaked>>
            /\ StatsEffect(s, t, reset)
            /\ UNCHANGED cache

\* ... and of one without a new object.
Settle(ct, reset) ==
    \/ ct # chartTime /\ Commit(system, ct, reset)
    \/ /\ ct = chartTime
       /\ LeaveStats(reset, ct)
       /\ UNCHANGED <<system, chartTime, loading, cache, requestId, reqs, sub, leaked>>

\* "find matching system": in the stores by id or by name, otherwise at the hub,
\* which knows ids only.  setSystem with the object it has does nothing.
FindSystem(r, stores, ct, reset) ==
    \/ r.sys \in stores /\ Commit(r.sys, ct, reset) /\ UNCHANGED lookups
    \/ r.sys \in stores /\ r.sys = system /\ Settle(ct, reset) /\ UNCHANGED lookups
    \/ /\ r.sys \notin stores
       /\ lookups' = IF r.by = "id" THEN lookups \cup {r.sys} ELSE lookups
       /\ Settle(ct, reset)

-----------------------------------------------------------------------------
(* The user.                                                               *)

Move == moves < MaxMoves /\ moves' = moves + 1

\* The page is opened: the first run of the effects.
Open ==
    /\ moves = 0 /\ Move
    /\ FindSystem(route, known, chartTime, FALSE)
    /\ UNCHANGED <<world, known, route>>

\* Another id: the cleanup, then the look-up.  keep: persistChartTime.
ChangeRoute(r, keep) ==
    /\ r # route
    /\ route' = r
    /\ FindSystem(r, known, IF keep THEN chartTime ELSE Default, TRUE)

\* A link or the command palette.
Navigate(r) ==
    /\ moves > 0 /\ Move
    /\ ChangeRoute(r, FALSE)
    /\ UNCHANGED <<world, known>>

\* The arrow keys go to the next system of the list and keep the chart time.
ArrowKey(r) ==
    /\ moves > 0 /\ Move
    /\ route.by = "id" /\ route.sys \in known
    /\ r.by = "id" /\ r.sys \in known
    /\ ChangeRoute(r, TRUE)
    /\ UNCHANGED <<world, known>>

\* ChartTimeSelect.
SelectTime(ct) ==
    /\ moves > 0 /\ Move
    /\ ct # chartTime
    /\ Commit(system, ct, FALSE)
    /\ UNCHANGED <<world, known, route, lookups>>

-----------------------------------------------------------------------------
(* Answers, messages and the passing of time.                              *)

\* .then(setSystem), whatever the route is by now.
LookupAnswer(s) ==
    /\ lookups' = lookups \ {s}
    /\ \/ Commit(s, chartTime, FALSE)
       \/ UNCHANGED <<system, chartTime, data, sub, leaked, axis>>    \* it failed
    /\ UNCHANGED <<world, place>>

\* "If another request has been made since this one, ignore the results."
CurrentAlways(r) == TRUE    \* a bug: the guard is missing
Current(r) == r.n = requestId

\* loading after an answer that was heeded.
LoadedIfFulfilled(ok) == IF ok THEN FALSE ELSE loading    \* a bug
Loaded(ok) == FALSE

StatsAnswer(r) ==
    /\ reqs' = reqs \ {r}
    /\ \E ok \in IF r.cancelled THEN {FALSE} ELSE BOOLEAN, recs \in Answers(r) :
          IF Current(r)
          THEN LET old == cache[<<r.sys, r.time>>]
                   new == IF ok THEN appendData(old, recs, MaxLen) ELSE old
               IN  /\ loading' = Loaded(ok)
                   /\ cache' = [cache EXCEPT ![<<r.sys, r.time>>] = new]
                   /\ SetStats(new, chartTime, FALSE)
          ELSE UNCHANGED <<loading, cache, stats, axis>>
    /\ UNCHANGED <<world, place, shown, chartTime, requestId, sub, leaked>>

\* subscribe's promise: the cleanup can end the subscription from now on.
Subscribed ==
    /\ sub.state = "opening"
    /\ sub' = [sub EXCEPT !.state = "open"]
    /\ UNCHANGED <<world, place, shown, chartTime, data, leaked, axis>>

\* The callback: "on first message, make sure we clear out data from other time
\* periods".
Received(s, first) ==
    LET p == <<[sys |-> s, type |-> "1m", at |-> now]>>
        new == IF first THEN p ELSE appendData(stats, p, MaxLive)
    IN  /\ SetStats(new, chartTime, FALSE)
        /\ UNCHANGED <<world, place, shown, chartTime, loading, cache, requestId, reqs>>

Message ==
    \/ /\ sub.state = "open" /\ Received(sub.sys, sub.first)
       /\ sub' = [sub EXCEPT !.first = FALSE]
       /\ UNCHANGED leaked
    \/ \E l \in leaked :
          /\ Received(l.sys, l.first)
          /\ leaked' = (leaked \ {l}) \cup {[l EXCEPT !.first = FALSE]}
          /\ UNCHANGED sub

\* The stores change: a system of the list is updated, one comes or goes.  The
\* look-up runs again when the length of the list has changed.
StoreUpdate ==
    /\ moves > 0 /\ route.sys \in known
    /\ Commit(route.sys, chartTime, FALSE)
    /\ UNCHANGED <<world, place, lookups>>

StoreResize(k) ==
    /\ moves > 0 /\ Cardinality(k) # Cardinality(known)
    /\ Move
    /\ known' = k
    /\ FindSystem(route, k, chartTime, FALSE)
    /\ UNCHANGED <<world, route>>

\* An interval passes, in which the hub makes records of some systems.
Tick(made) ==
    /\ now < MaxTime
    /\ now' = now + 1
    /\ hub' = [s \in Systems |-> IF s \in made THEN hub[s] \cup {now'} ELSE hub[s]]
    /\ UNCHANGED <<place, shown, chartTime, data, sub, leaked, axis>>

-----------------------------------------------------------------------------
Answer == (\E s \in lookups : LookupAnswer(s)) \/ (\E r \in reqs : StatsAnswer(r))

Next ==
    \/ Open
    \/ \E r \in Routes : Navigate(r) \/ ArrowKey(r)
    \/ \E ct \in ChartTimes : SelectTime(ct)
    \/ Answer \/ Subscribed \/ Message \/ StoreUpdate
    \/ \E k \in SUBSET Systems : StoreResize(k)
    \/ \E made \in SUBSET Systems : Tick(made)

Spec == Init /\ [][Next]_vars

\* Requests are answered or fail.
LiveSpec == Spec /\ WF_vars(Answer)

-----------------------------------------------------------------------------
(* Properties.                                                             *)

\* Records of one system and one type, each of them once and in their order.
Clean(s, sys, type) ==
    \A i \in DOMAIN s : s[i] # Gap =>
        /\ s[i].sys = sys /\ s[i].type = type
        /\ \A j \in DOMAIN s : i < j /\ s[j] # Gap => s[i].at < s[j].at

\* What is cached for a system and a chart time are records of that system and
\* of that type, each of them once and in their order, although requests for
\* them overlap, are cancelled and fail.
CacheClean == \A k \in Systems \X Times : Clean(cache[k], k[1], k[2])

\* What a chart that is not loading shows is of the system and of the chart time
\* on the page, unless a subscription was left behind by a cleanup that came too
\* early.
StatsOwned ==
    chartTime # "1m" /\ ~loading /\ leaked = {} =>
        \A i \in DOMAIN stats : stats[i] = Gap
            \/ (stats[i].sys = system /\ stats[i].type = chartTime)

\* Answers are used for the request they belong to, in a state that stays
\* well-formed: the cache and the chart hold records of their own system and time.
AnswersOwned == TypeOK /\ CacheClean /\ StatsOwned

\* The time axis reaches the newest point that is drawn, although the axis is
\* cached over systems and chart times.
AxisFits == Created(stats) <= chart.time

\* A chart does not stay in its loading state.
LoadingEnds == (loading /\ system # None) ~> (~loading \/ chartTime = "1m")
=============================================================================
