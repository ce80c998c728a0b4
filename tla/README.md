# picket: TLA+ models, model checking and proofs

picket is a lightweight server monitor. Agents on the monitored machines dial
out to a hub over a WebSocket; the hub asks each agent for statistics, stores
them, raises alerts, and tunnels SSH sessions over the same connection. A web
frontend subscribes to the hub's collections.

This directory holds the specifications kept beside the code: one module per
component, the TLC configurations that check them on small instances, and
machine-checked proofs (TLAPS) of what holds for every instance.

## Inventory

### Hub

| component | state it keeps | operations | what is hard |
|---|---|---|---|
| Request manager (`internal/hub/ws/request_manager.go`, `internal/hub/transport/websocket.go`) | map of pending requests, id counter, one-place response channels, contexts | `SendRequest`, `handleResponse`, `routeLegacyResponse`, `cleanupRequest`, `Close`, the caller's `select` | lookup and delivery are not atomic; a deadline races the reply; the connection goes away at any step |
| System manager (`internal/hub/systems/system_manager.go`, `system.go`, `internal/hub/agent_connect.go`, `ws.go`) | store of `System` objects, each with a status, a WebSocket connection, a context and an updater goroutine; the `systems` records | `AddWebSocketSystem`, `AddRecord`, `RemoveSystem`, `StartUpdater`, `update`, `setDown`, record hooks | reconnects while the old updater is still running; disconnect grace period of 5 s; a hub restart; pausing while an update is in flight |
| Realtime worker (`system_realtime.go`) | subscriptions, client count, `workerRunning`, stop channel | subscribe, unsubscribe, disconnect, worker loop | a stop signal that is dropped when the worker is busy; check-then-act on the subscription set |
| Status alerts (`internal/alerts/alerts_status.go`, `alerts_cache.go`, `alerts_history.go`) | pending alerts with timers, cache of alert records, history records | system down, system up, timer, pause, upsert and delete of alerts, start-up | the timer fires while the system comes back; a restart between down and notification |
| Threshold alerts (`alerts_system.go`) | last values and averages per alert | `HandleSystemAlerts` | averaging windows, concurrent notifications |
| SSH tunnels (`internal/hub/ssh.go`) | one-time launches, tunnels, agent connections | create, take, connect, attach, forward, expire, remove, revoke | expiry racing traffic, agents that reconnect, two users of one system |
| Records (`internal/records`) | statistics per interval | `CreateLongerRecords`, `DeleteOldRecords`, averaging | minimum counts, retention edges |
| Expiry map (`internal/hub/expirymap`) | map of values with a deadline | `Set`, `GetOk`, `GetByValue`, `UpdateExpiration`, cleaner | lazy removal races a fresh `Set` |

### Agent

| component | state | operations | what is hard |
|---|---|---|---|
| Connection manager (`agent/connection_manager.go`, `client.go`) | connection state, event channel of one place, reconnect ticker | connect, disconnect, tick, events | a late event of an old connection closes the new one |
| Data plane (`agent.go`, `agent_cache.go`, `deltatracker`, `network.go`, `docker.go`, `disk.go`, `gpu.go`, `systemd.go`) | per-interval caches and baselines | `gatherStats` and the collectors | counter resets, baselines shared between intervals |
| SSH streams (`client.go`) | open streams by id | open, data, close | limit checked before a dial |

### Frontend (`internal/site/src`)

The browser runs one JavaScript callback at a time; what interleaves are
callbacks: answers, realtime messages, timers, observers and clicks. State read
in a render or before an `await` may be old when it is used.

| component | state it keeps | operations | what is hard |
|---|---|---|---|
| Systems store (`lib/systemsManager.ts`, `lib/stores.ts`) | five map stores of one record each, width of the name column, favicon | `init`, `refresh`, `subscribe`, `unsubscribe`, `add`, `update`, `remove`, the store's listener | list and subscription are two steps; copies under id, name and status must change together |
| Alerts store (`lib/alerts.ts`, `active-alerts.tsx`) | alerts by system and name, batch of messages with a timer | `refresh`, `subscribe`, `batchUpdate`, "Copy from" | messages of a batch replace each other; optimistic writes whose request fails |
| Chart data (`use-system-data.ts`, `chart-data.ts`) | request counter, cache per system and chart time, realtime subscription, time axis | look-up, fetch, append, realtime messages | answers that come after the user has moved on |
| Systems table (`systems-table/`) | filter, sorting, columns, view, memoized rows, open dialog | filters, pause, delete | rows that are not rendered anew; state that stays with a key |
| Containers table (`containers-table/`) | list, sheet, logs | fetch and merge, open, refresh | overlapping fetches and log requests |
| Alerts history (`alerts-history-data-table.tsx`) | list, selection by index, page | load, subscription, bulk deletion | rows move while batches are deleted |
| Alerts sheet (`alerts-sheet.tsx`) | form, shared debounce timers | switch, slider, input, overwrite, tabs | one timer for all; requests that overtake each other |
| System page (`routes/system.tsx`, `routes/system/charts/`, sheets) | tabs, mounted tabs, memoized series | tabs, keys, display mode | tabs and charts that come and go with the data |
| Chart (`charts/`, `chart-card.tsx`, `use-intersection-observer.ts`) | copy of the data, areas, axis width, filter | observers, toggle, measuring, filter bars | draws only while visible |
| Dialogs (`info-bar.tsx`, `add-system.tsx`, `login.tsx`, `notifications.tsx`, `use-toast.ts`) | open dialogs, requests in flight, toasts | SSH access, install script, delete, add, sign in, Telegram, toasts | several requests in a row; unmounted components |

## Modules

Each component has a module with its state, one action per step of the code,
the specification and the properties. Those of the hub and the agent have an `MC`
module for TLC (with the symmetry sets, where a safety run uses them) and a `Proofs` module; those of the
frontend, but for `SystemView`, are checked through `Stores` and `Pages`, which
compose them, and whose `Proofs` modules hold the proofs about them. The bodies of the modules are the reference
for details, the tables below are the map.

| component | module | checked by | proofs |
|---|---|---|---|
| What a caller of `Request` is promised | `Rpc` (abstract) | refined by `RequestManager` | `RequestManagerProofs` |
| Request manager and transport | `RequestManager` | `MCRequestManager` | `RequestManagerProofs` |
| Status alerts | `StatusAlerts` | `MCStatusAlerts` | `StatusAlertsProofs` |
| Realtime worker | `RealtimeWorker` | `MCRealtimeWorker` | `RealtimeWorkerProofs` |
| System manager | `SystemManager` | `MCSystemManager` | `SystemManagerProofs` |
| Agent connection manager | `AgentConnection` | `MCAgentConnection` | `AgentConnectionProofs` |
| Systems store | `SystemsStore` | `MCStores` (through `Stores`) | `StoresProofs` |
| Alerts store, Active Alerts card | `AlertsStore` | `MCStores` (through `Stores`) | `StoresProofs` |
| Chart data of a system | `SystemView` | `MCSystemView` | `SystemViewProofs` |
| Systems table | `SystemsTable` | `MCPages` (through `Pages`) | `PagesProofs` |
| Containers table | `ContainersTable` | `MCPages` | `PagesProofs` |
| Alerts history | `HistoryTable` | `MCPages` | `PagesProofs` |
| `filter` of the tables' lists | `Filtering` | `MCPages` | `PagesProofs` |
| Alerts sheet | `AlertsSheet` | `MCPages` | `PagesProofs` |
| Layout of the system page | `SystemLayout` | `MCPages` | `PagesProofs` |
| Chart drawing | `ChartCanvas` | `MCPages` | `PagesProofs` |
| Dialogs, toasts, sign-in | `Dialogs` | `MCPages` | `PagesProofs` |

Conventions: a goroutine is a program counter (`pc`, or a `job` record with a
`pc`) and an action is what the goroutine does between two points where
another one can interfere: a lock that is released, a channel operation, a
network or database call, a callback. In the frontend an action is a callback
with everything it runs to the end: listeners of the stores, and the renders and
effects it makes due. A constant that only exists to bound the
state space says so where it is declared. Each definition whose name is
another's with a twist (`CancelsNothing` before `Cancels`) is a plausible bug;
it is used to see that the property it is paired with in `PROJECT.json` would
notice.

### RequestManager

One WebSocket connection. A call runs `Create` (id, context), `Register` (map
entry), `Send` or `SendFails`, `StartCleanup`, then the `select` of the
transport: `Receive` or `GiveUp`. The read loop runs `Lookup` (which releases
the lock), `Deliver`, `deleteRequest`, or `Drop`. `Expire` is the deadline,
`cleanupRequest` the goroutine that waits for it, `Close` and `OnClose` the end
of the connection. `LegacyAgent` lets replies come without an id, which
`routeLegacyResponse` gives to the oldest pending request.

### StatusAlerts

One system and its Status alert. `StatusChange` is the updater's save of the
system record; what the hook does afterwards is `Schedule`/`Arm` (system down)
or `Snapshot`/`CancelOrResolve` (system up). `TimerFires` starts a goroutine
that runs `TakePending`, `Refresh` and the save of `triggered`: `Find`,
`Write`, `CacheHook`, `HistoryHook`, `Notify`. `Pause`, `Resume`,
`UpsertAlerts` and `DeleteAlerts` are the user's requests, `Restart` the
start-up after a crash, with `resolveStatusAlerts` and
`restorePendingStatusAlerts`. `Env` says which of the user's requests and
crashes happen in a run.

### RealtimeWorker

Subscribe and connect requests change the table entry by entry: `AddNext`,
`Increment`, `onRealtimeSubscriptionAdded` (which starts the worker), or
`RemoveNext`, `Decrement`, `Drop`, then `Check` and `Stop`. An overlapping
increment may lose an update (`Raced`); overlapping map accesses may end the
process (`ConcurrentMapFault`). A worker alternates `Fetch` and `Tick`.
`CountLimit` is the width of the `uint8` counter. A request may start while
another one is handled, as nothing in the code keeps two apart; `overlaps` counts
the requests since the hub's start that did, and `MaxOverlaps` bounds it. What
the code keeps only while no two requests overlapped says `overlaps = 0`, so that
the states in which two are at work are checked too, for what still holds there.

### SystemManager

One system and the successive connections of its agent. `Connect`, `Add` and
`Put` are the connect handler; `Start`, `Tick`, `Down` and `Cancelled` the
updater's loop; `Update`, `Fetch`, `Read`, `SaveRecord`, `Hook` and
`OrphanHook` one update; `SetDown` the other save. `Remove` and `Forget` are
`RemoveSystem`, `OnClose` and `FiveSeconds` the socket and its delayed signal.
`Pause`/`PauseHook`, `Resume`/`ResumeHook`, `Delete` and `Rotate` are the
user's. Every operation may start at any step of the others (`Starts`), as nothing
in the code keeps them apart; `overlaps` counts those that did since the hub
started, and `MaxOverlaps` bounds it. A request to the agent is `Answered` or
`NotAnswered`, which takes a connection that is gone, or `"timeout"` in `Env`.

### AgentConnection

The agent's side. `Main` is the loop of `Start`, a dialer a goroutine of `go
c.connect()`, and each connection has a read loop. `Enter`, `StartConnection`,
`Connect`, `Dial` or `DialFails`, `Undo`, `Retry` and `Leave` are one attempt;
a tick of `Main` makes the same attempt without `Enter`, `Retry` and `Leave`.
`Connected` and `Disconnected` are the two cases of `handleEvent`, `OnOpen`,
`ReadFails` and `OnClose` the read loop, `Lost` the network, `Exit` a signal or
the exit on a DNS error with the restart by the service manager. Time is one
bit, `recent`: less than five seconds since the last attempt. A dial may take
longer than that, and then two attempts overlap.

### Stores: SystemsStore and AlertsStore

`SystemsStore`: `db` is the hub's collection, `byId`, `byName`, `up`, `down` and
`paused` the browser's stores, `longest` and `favicon` what the listener derives.
App's mounting is a sequence of steps (list asked for, answered, subscription
asked for, open), in between which the hub changes records (`HubCreate`,
`HubUpdate`, `HubDelete`) and the connection drops and returns. A record that the
hub creates has an empty `Info`, whose `cpu` of 0 is sent, so its message passes
the browser's check and `add` shows it as pending at once; the check has work only
for a record without info that was there before. `Deliver` is one
message: `add`, `update` or `remove` with the listener. `missed` collects the
systems whose last change was not announced to this browser; the code does not
fetch the list again when the connection returns, and `Synced` says so.

`AlertsStore`: a message goes into `batch` under its id, `Flush` applies the
batch when the timer of 50 ms runs out. `direct` is the store as it would be if
every message were applied at once, so that `BatchLossless` compares the two.
`Copying` is "Copy from" of the alerts sheet: an optimistic write, a delete and
an upsert request, either of which may fail or be cancelled; `guess` marks what
it wrote. `cards` is what the Active Alerts card rendered last.

`Stores` follows one of the two in a behaviour, chosen in `Init`. They share no
variable and no message, so a behaviour of both is, for each, one of its own
with stuttering steps: every property about one of them that holds in `Stores`
holds when both run.

### SystemView

`Open`, `Navigate`, `ArrowKey` and `SelectTime` are the user's; the effects of the
commit that follows are part of the step: look-up of the system, the realtime
subscription (`sub`, with `leaked` for one that was opened after its cleanup),
the request for statistics. `Answer` is an answer to the look-up or to a
statistics request, in any order, or its failure; `Message` a realtime point;
`StoreUpdate` and `StoreResize` the store's listeners; `Tick` lets the hub make
records. `requestId` is the ref that tells late answers from the current one.

`appendData` says where each record of the result comes from (`Late`, `Place`,
`Joined`) instead of pushing one after the other; `MCSystemView` has the code's
loop, and `LoopAssumption` compares the two on every pair of lists of up to three
records, in any order and with repetitions. An answer of the hub is a member of
`Answers`: the function that lists the records since the last cached one in their
order. `CapAssumption` says how many records `appendData` returns: its doc promises
that `maxLen` caps the length (`chart-data.ts:42`), but only a list that is full and
gets fewer than `maxLen` new records is cut to `maxLen`.

### Pages

`Pages` shows one page in a behaviour, as the router does, by the same argument:
pages share only the stores. Its modules:

* `SystemsTable`: `list` is the store, `rendered` what each keyed row rendered
  last, `dialog` the open delete dialog, which stays with its key. `HubEnroll`,
  `HubChange`, `HubDelete` move the rows.
* `ContainersTable`: `Update` is an update of a system, after which the list is
  fetched; `FetchAnswer` merges. `GetLogs` cancels what is in flight.
* `HistoryTable`: `hData` the rows, `picked` the selected indices, `del` the bulk
  deletions under way, any number of them, each with what it has left to send, by
  row; a batch is the first of it. `pager` starts with any page and size an earlier
  visit left in the local storage (`StoredPages`), and the buttons go where they do
  from there (`PageTargets`). `formatDuration` is the pure function.
* `AlertsSheet`: `timers` are the two debounced calls that wait, `sent` the
  requests in flight, `chosen` the user's last choice per system and alert,
  `dropped` the choices that another call took the place of.
* `SystemLayout`: which charts a record makes both layouts draw, the tabs, the
  arrow keys, the memos of the GPU charts.
* `ChartCanvas`: `source` is given, `display` is drawn, `seen` is what the
  observer reported, `areas` the memo, `measures` the timers of the axis.
* `Dialogs`: `calls` in flight carry the generation of the component that made
  them; `hubSide` is what the hub has done; `toasts` and `toastTimeouts`.

The tables use `Filtering`, which is `Array.prototype.filter` said by places: the
k-th element of the result is the element at the place that has k - 1 chosen places
before it. `SelectSeq`, a recursive function, computes the same but nothing can be
proved of it here; `FilterAssumption` of `MCPages` compares the two on every list of
up to four of three elements.

## Runs

| run | instance | shows |
|---|---|---|
| `request_matching` | 3 calls, agent echoes ids | a caller only gets its own reply (`Matching`), no entry is left without an owner (`PendingOwned`), the manager implements `Rpc` (`ImplementsRpc`) |
| `request_live` | 2 calls, replies may lack ids | the read loop never blocks (`ReaderNeverBlocked`); no message is closed twice (`ClosedOnce`); every call returns and the map drains (`CallsEnd`) |
| `alerts_all` | 2 alert ids, 2 schedulings, every request, 1 restart | a pending alert has a timer, whatever requests, timers and a crash do to each other (`PendingHasTimer`) |
| `alerts_quiet` | 1 alert, 3 schedulings, 2 restarts, no requests | the cache follows the database (`CacheInSync`), one trigger notifies once (`NotifiedOnce`), a system that is up has no pending alert (`UpHasNoPending`), a pending alert is reported if the system stays down (`DownReported`) |
| `realtime` | 2 systems (one unknown), 2 handlers of which one may start while the other works, 2 workers | the counter keeps its width and the rest its type (`TypeOK`); without an overlap so far the table is exact (`TableExact`), active subscriptions have a worker (`NoLostWorker`) and are fetched again and again (`ContinuouslyFetched`); workers end when nothing is subscribed, overlap or not (`WorkersStop`) |
| `realtime_lost` | the same, with the counter's real width | expects a violation: two overlapping requests leave a subscription without a worker (`SubscribedHasWorker`) |
| `manager` | 2 connections, pause, delete, rotate, 1 restart, 1 operation that may start during another | what is in the store has an updater (`Monitored`), overlap or not; without an overlap so far no updater outlives its instance (`NoOrphan`), memory follows the record (`MemoryMatches`), a lost connection is noticed and a connected system comes up (`StatusCatchesUp`) |
| `manager_pause` | 2 connections, pause, timeouts, 1 operation that may start during another | expects a violation: an update in flight overwrites the user's pause (`PauseSticks`) |
| `agent_connection` | 2 connections, 2 reconnecting goroutines and the main loop | a disconnected agent has something under way (`NeverGivesUp`) and dials again and again (`KeepsDialing`); the end of a connection is reported (`EndIsReported`) |
| `stores` | 2 systems, 2 names (one longer than the column), 3 changes; 2 systems with 2 alert names, 3 changes, one "Copy from" | the five stores agree after every message (`StoresAgree`); what was announced is what is shown (`Synced`), and is shown in the end (`ChangesShown`); a batch loses nothing (`BatchLossless`); the memoized card names the right systems (`ActiveSystemsShown`) |
| `system_view` | 2 systems, 2 chart times and "1m", 3 requests, 3 moves of the user | answers and cached records are of the system and time they are used for (`AnswersOwned`), the shared axis reaches the newest point (`AxisFits`), loading ends (`LoadingEnds`) |
| `pages` | 3 systems, 2 containers on 2 systems, 3 history records, 2 hosts with 2 alerts, 4 kinds of records, 2 filter bars, 2 agents | memos and copies are fresh (`MemosFresh`); answers go where they belong (`AnswersPlaced`); the last choice reaches the hub (`EditsReach`); what is shown is there (`ShownIsThere`); removals hit what they were asked for (`RemovesAsked`); what waits ends (`Settles`); `TypeOK` |

A property of `stores` or `pages` is the conjunction of properties that the
modules of the parts state one by one, grouped by what they are about.

Why the bounds are enough to be interesting. Two calls are needed for a reply to
reach the wrong one and three for the oldest-first rule to have a middle. Two
schedulings let a timer of the last outage meet the next one, three let that
happen across a restart; two alert ids let an alert be deleted and created
again. Two handlers are what the lost-worker race needs, two workers what a worker
left over by a lost stop signal does; a single overlap is enough for both runs that
expect a violation. In `realtime` the counter drifts under lost updates, so its width is
scaled down to 4, above the two clients of a system, to reach both ends;
`realtime_lost` has the real width of 256. Two connections give one reconnect, with
the late signal of the first connection during the life of the second; the one
overlap may be of any two of the updates, requests, signals and connects.
On the agent's side two connections and two goroutines let a new connection
open before the end of the old one is handled, and an attempt start before the
one before it has ended; connections are used again once their read loop has
ended, so reconnects go on without bound.

In `stores` three changes of two systems are enough for a deletion, a creation
and a rename to fall between the list, the subscription and a lost connection,
and for three messages about one alert to fall into one batch. In `system_view`
three requests and three moves let an answer meet the second change after its
question; records and points are capped at 2, the lengths at which the code cuts.
In `pages` each part has its own bound on clicks and on the hub's changes (4 events, 3 opened
sheets, 4 steps, 3 edits, 5 records laid out, 5 acts, 4 clicks); what the code
does by itself, timers, answers and messages, is not bounded. A batch of the
history has one record (20 in the code), so that a deletion of three takes three
batches; `ToastLimit` and the lengths of debounces are the code's. `formatDuration`
is checked at the seconds around which it rounds.

Deadlock is not checked: calls, schedulings, connections and restarts are
bounded, and a system in which all are used up rightly stops.

### Fairness

Liveness is checked under weak fairness of what the Go runtime and the clock
guarantee: a goroutine that can run runs, tickers tick, timers and context
deadlines run out, a `Write` on a socket returns. Nothing is assumed of the
agent (but for `manager`, it may never answer), of the network, of the user (nobody has to resume
or subscribe) or of the number of restarts. For the system manager this is: the
connect handler, the updater and the hooks go on, a socket that is closed reports
it, and the five seconds after it pass; in `manager`, whose `Env` has no `"timeout"`,
a connected agent also answers, without which a connected system need not come up.
`DownNoticed` is about a running
hub: after a restart nothing is read back, so a record that says "up" stays so
until its agent connects. For that reason the property names the restart count.
The liveness of `RealtimeWorker` and `SystemManager` but for `WorkersStop` is
claimed until two requests or operations overlap; after that it may fail (Findings).

In the frontend: a message that was sent arrives while the connection lasts, a
request is answered, fails or is cancelled, a timer runs out, an observer reports
what is on the screen. Nothing is assumed of the user, of the hub's changes or of
the connection. That requests end is the browser's guarantee (a connection that
is gone fails the request); it is not assumed of the failing or succeeding kind.

`KeepsDialing` also needs that blocked senders of a channel are served (strong
fairness of the read loops: Go queues them in order) and that `select` does not
ignore the event channel for ever in favour of the ticker.

## What is proved

The theorems hold for every value of the constants that satisfies the named
assumptions: any number of calls, alerts, schedulings, handlers, workers,
connections, restarts. Each `Proofs` module starts with a lemma that names the
steps of `Next`, and has one step per action.

* **RequestManager.** `TypeCorrect`, `PendingOwnedTheorem`,
  `ReaderNeverBlockedTheorem`, `MatchingTheorem` (agents that echo ids),
  `ClosedOnceTheorem`, `RefinementTheorem`. The invariants: `OwnInv` says who is
  going to remove each entry; `BufferInv` that a request whose buffer is full is
  no longer pending, except between `Deliver` and `deleteRequest`, so the
  reader cannot find it again; `MatchInv` that the reader's reply is the
  looked-up request's own; `PlaceInv` that a reply is in one place only (on its
  way, with the reader, in one buffer, or taken), which is why two parties never
  close it; `AnswerInv` that a caller with an answer has returned.
* **StatusAlerts.** `TypeCorrect` and `PendingHasTimerTheorem`, inductive
  together: `pendingAlerts` may hold an entry whose timer is not yet assigned,
  but then the updater is about to assign it; and a timer is stopped only by
  who has removed its entry.
  `CacheInSyncTheorem`, `NotifiedOnceTheorem` and `UpHasNoPendingTheorem` for users
  who do not pause, edit or delete (`Undisturbed`, crashes included); with any one of
  the three TLC finds the first two violated, with a pause the third, so the
  hypothesis cannot be dropped. They rest on `SyncInv`: who
  saves an alert is alone with it (`SoleSaver`: two timers are never both at work,
  a timer found the alert off in the cache and the updater found it on), and the
  cache lags behind the database only by the save that is between its write and its
  hook (`CacheLags`). `DueInv` counts: the
  switches to "on" not yet notified are as many as the goroutines on their way to
  notify, and a crash takes both. `UpInv`: what is pending is cached, so the snapshot
  of a system that comes up has it, and the updater schedules only while the status
  it saved, "down", is still there; the start-up schedules only for a system that is
  down.
* **RealtimeWorker.** `TypeCorrect` for every interleaving: the counter keeps its
  width under lost updates, and a handler that is about to change an entry knows
  which. That the table is exact and no worker is lost while nothing overlapped is
  model-checked.
* **SystemManager.** `TypeCorrect`, and `MonitoredTheorem` for every interleaving, any
  number of connections, overlapping operations and restarts: what is in the store has
  an updater that runs and was not told to stop, or is about to be taken out. The
  invariant adds that an instance whose `AddSystem` has not reached the store is
  neither there nor cancelled: only `RemoveSystem` cancels, only what it finds in the
  store, and it goes on to `Forget`. What holds only until two operations overlap
  (`NoOrphan`, `MemoryMatches`) is model-checked; `PauseSticks` is false.
* **AgentConnection.** `TypeCorrect`, `EndIsReportedTheorem`,
  `NeverGivesUpTheorem`. The last rests on `AttemptInv` and `FlagInv`: an
  attempt counts only up to the point where it leads to a ticker or to a
  connection, not while it merely cleans up; and `isConnecting` can be set while
  connected only by an attempt that has not yet looked at the state, which it
  will find connected and answer with the ticker. That is why leaving the
  reconnection to who holds the flag is safe. `BootInv` says that the main loop
  enters `connect` only at start-up.
* **SystemsStore.** `SystemTypeCorrect`, `SystemStoresAgree`, `SystemSynced`, for any
  systems, names, changes and losses of the connection. That a known system is in
  the name store under its present name only is not inductive: `remove` takes the
  name of the deleted record out, and when the browser had an older version (a
  rename was missed) the old name stays. `LeftOver` says that such a name is a
  system's that is gone and that nothing on the wire is about it, so no `add` or
  `update` can bring its id back beside the old name; `HubInv` is why: ids are unique
  and used once, a `create` is the first message about its id and comes to a browser
  that does not have it, and a `delete` is the last. For `Synced`, `InfoInv` says that as long as
  the hub has no CPU info of a system nothing in the browser or on its way has, so
  that the messages `update` ignores were right to be ignored; `Told` that the last
  message about a system, or the id store if there is none, is as new as the hub.
* **AlertsStore.** `AlertTypeCorrect`, `AlertBatchLossless` (collecting messages for
  50 ms and applying one per key gives what applying each at once would have
  given), `AlertSynced` and `AlertActiveSystems`. `BatchInv` adds that nothing
  is collected before the subscription; `SyncInv` that for each key the last
  message about it, or without one what applying each at once gave, is as new as
  the hub's record, but for keys that were missed or guessed; `CardsInv` that the
  rendered alerts have the key of the active ones, whether or not they are the
  same alerts, and finite sets with one key have alerts of the same systems.
* **Stores.** The same results for the composition: a behaviour of `Stores` is a
  behaviour of each store (`ImplementsSys`, `ImplementsAlert`), and
  `StoresAgreeTheorem`, `SyncedTheorem`, `BatchLosslessTheorem` and
  `ActiveSystemsTheorem` state the invariants that the run `stores` checks. All
  proofs about the stores are in `StoresProofs`, from `StoresAssumption`.
* **SystemView.** `AnswersOwnedTheorem` (with the types of the module) and
  `AxisFitsTheorem`, for any systems, chart times and
  bounds. First lemmas about `appendData`: what is kept of the old list is an end of
  it (`TrimmedIsSuffix`), a new record's place is after the old ones and in order
  (`PlaceIncreases`), and nothing is in the result but these and gaps
  (`JoinedItems`); hence it ends with the last new record (`AppendLast`) and stays in
  order (`AppendClean`). The inductive invariant `ViewInv`: a cached list is in order, ends with
  a record and not with a gap (`CacheKept`; after a gap `getStats` would ask for
  everything again, and records would be there twice); the current request goes on
  from what is cached, and is for the system and the time on the page unless the
  chart has gone to "1m" (`CurrentOwned`: "1m" takes no new request id, but the way
  back does); nothing is asked for before a system is found (`Idle`); only the "1m"
  chart subscribes (`SubLive`); the hub has no records from the future
  (`HubPast`), so an axis that ends now reaches every answer.

* **Pages.** `MemosFreshTheorem`, `AnswersPlacedTheorem`, `EditsReachTheorem`,
  `ShownIsThereTheorem`, `TypeCorrect` and the action property `RemovesAskedTheorem`,
  for any data and any number of clicks: all of the safety that the run `pages`
  checks. Each rests on an invariant of the page it is about; a step of another page
  leaves that as it is. From `PagesAssumption` (there is a host, the range of
  a slider is not empty and only alerts with a slider have one, at least one toast is
  shown),
  `DrawingAssumption` (finitely many columns, GPUs are numbered, the window has room
  for a record, labels have a width) and `SizesAssumption` (systems are numbered,
  there is a page size and none is 0, the history has room for the two records it
  starts with, an agent has a version, durations and bounds are natural numbers).
  * *Memos.* `RowInv`: a kept row has the record and the columns of the state. It is
    kept when the *number* of columns is the same, and that is enough only because a
    click shows or hides one column at a time (`ToggleNoticed`) and everything else
    leaves them alone. `SeriesInv`: the engines drawn are a function of the memo's key
    (`EnginesByKey`); a power series is not, but for a GPU whose name no other has,
    the id its name first came with is its own (`FirstIdOfName`). `ChartInv`: the axis
    is wide enough for what is drawn, or the last of the timers was started by the last
    render, with its label and its width, and will widen it.
  * *Answers.* `ContInv`: a request for logs that was not cancelled is for the container
    of the sheet (`LogsAsked`); a table of one system asks for that system only and holds
    nothing else (`ScopeKept`), so that a merge, which drops what the answer has anew,
    leaves a container once.
  * *Edits.* `AlertInv`: the user's last choice for a system and an alert is in the last
    timer about it, if none waits in the only request on its way, and if there is none
    at the hub (`ChoiceOnItsWay`); there is one timer per method (`OneTimerEach`).
  * *Removals.* `HistInv`: what each bulk deletion has left is among what was chosen
    for it, however many run at once.
    `ToastInv`: a toast with a timer is not open, and no timer has an id yet to come.
    `UninstallInv`: a request to delete a system for which an uninstallation was asked
    is there only after the uninstallation. `HomeInv`: in the grid an open dialog's
    key is the id of the system it was opened for. The proof of the third found what
    the run cannot reach within its clicks: when a plain deletion is under way or done
    and the same system is then to be deleted with uninstallation, the first request
    does not wait for the second, so the property leaves that case out
    (`DeletedPlainly`).
  * *What is shown.* `HistTyped`: while there are rows the page of the history has
    some, which is inductive only with the types of list and pager. Whatever page was
    restored, the rows come with a change, and every change goes back to the first
    page; the buttons lead to pages there are, and a new page size goes to the page with the row at the top, which
    exists (`SamePage`, an inequality of quotients); `Rounds` takes `formatDuration`
    apart for any number of seconds. `SysTyped`: the tab in use is among those that
    were mounted, and the keys use the tabs of the present records. Tabs are at least
    two and different (`TabsOfShape`), so an index and its neighbour determine each
    other (`ThereAndBack`): a key leads to a tab there is, and the other key back
    (`TabReached`, `KeysCycle`). `LayoutsAgree` compares what both layouts draw.
  * *Types.* `PagesTyped` joins these with an invariant for each page that says more
    than `TypeOK` does, where `TypeOK` alone is not inductive. Records in the list
    have different ids (`SystemLists`), which a filter keeps because two places of
    its result come from two places of the list (`ElementsAtProperties`; that every
    rank below the number of places is taken, `EveryRank`, is by a least
    counterexample). The settings at the hub, in the store, in the forms, in timers
    and in requests stay in the range of their slider (`SetsOf`, `FormsOf`,
    `FairCalls`): a form takes its values from the store, the store from the hub, and
    the hub from the calls. A call of the info bar that is about an agent has an
    agent's id and a revocation a token (`AgentCalls`, `OtherCalls`). The widths of
    the axis are 0 or those of labels (`ChartTyped`).

Proved is every invariant and action property of a run that expects none violated,
but for four that hold only while no two requests or operations have overlapped:
`TableExact`, `NoLostWorker`, `NoOrphan` and `MemoryMatches` are model-checked, on
states with and without overlaps. A theorem about them would have to assume what the
code does not guarantee. Also only model-checked: the liveness properties (`CallsEnd`, `DownReported`,
`ContinuouslyFetched`, `WorkersStop`, `StatusCatchesUp`, `KeepsDialing`,
`ChangesShown`, `LoadingEnds`, `Settles`), which are out of the prover's reach; and
two inductions over a list, which are too: that `appendData` is what the code's loop
computes (`LoopAssumption`; how long its result is, `CapAssumption`), and that `Filter` is `SelectSeq` (`FilterAssumption`).

## Findings

The first two are kept as runs that expect a violation. Each of the others was seen
as a counterexample of TLC in the module named, for the property described, or, in
the second list, while the code was read for the model, which contains the behaviour.

Seen with TLC:

* `SystemManager`, run `manager_pause`: *a pause is lost* (`system.go:145`). An update
  reads the record while it is pending or down (the first one after a connect or a
  resume, say) and saves it as up. When the user pauses the system between the two,
  the save overwrites the pause, its hook sets the memory to "up" as well
  (`system_manager.go:117`), and the updater goes on: the system is monitored, and
  shown as up, although the user paused it. (A record that was up already is saved
  without its status, which has not changed.)
* `RealtimeWorker`, run `realtime_lost`: *subscribed and not served*
  (`system_realtime.go:89`). `checkSubscriptions` looks at the table before it
  locks. A subscription in between finds the worker running, and then the worker
  is stopped. `NoLostWorker` says that this takes overlapping requests.
* `StatusAlerts`: *an alert fires for a system that is up*
  (`alerts_status.go:124`). `processPendingAlert` does not look at the system's
  status; a system that comes back between the removal of the pending entry and
  the save is reported down, and stays so until its next outage or a restart.
* `StatusAlerts`: *an alert for a paused system* (`alerts_status.go:115`). When the
  user pauses a system between the save of "down" and its hook's
  `handleSystemDown`, `CancelPendingStatusAlerts` runs first and the alert is
  scheduled after it: it is sent for a paused system, or for one that was resumed and
  is up. For the same reason the entry of an alert that was deleted stays until its
  timer runs out.
* `SystemView`: *records of another period in the live chart*
  (`use-system-data.ts:132`, `:177`). The comment says "make sure we clear out
  data from other time periods"; choosing "1m" takes no new request id, so that an
  answer for the period before, which comes after the first realtime message,
  replaces the live points.
* `RequestManager`: a reply delivered while the deadline passes stays in its
  channel, although `request_manager.go:135` says "the receiver will close it":
  its pooled buffer is left to the garbage collector;
* `StatusAlerts`: overlapping saves of one alert leave the cache behind the
  database (`alerts_cache.go:50`), and a history entry may be created after the
  alert was resolved (`alerts_history.go:34`);
* `RealtimeWorker`: a lost stop signal lets two workers run until the next tick
  (`system_realtime.go:100`); a disconnect inside a subscribe request leaves an
  entry without clients, with a counter of 255; with 257 clients the counter
  wraps (`system_realtime.go:16`);
* `SystemManager`: with overlapping connects `Has` and `Set` of the store are not
  atomic, so that an updater may live on without being in the store
  (`system_manager.go:175`); `AddRecord` called by a hook for a system that is not
  in the store removes an instance that was added meanwhile
  (`system_manager.go:145`); hooks of overlapping saves may leave the older status
  in memory (`system_manager.go:117`).

Seen in the frontend while modelling, and part of the models as the code has it
(the properties say what holds besides):

* Stores: a change between the list and the subscription, or while the
  connection is down, stays unseen until the system changes again
  (`systemsManager.ts:169`; `missed`). The key of the Active Alerts card leaves
  out the alert's name (`active-alerts.tsx:25`): the card may name another alert
  of the same system.
* System page: a subscription whose promise resolves after the cleanup is never
  closed (`use-system-data.ts:146`); a late look-up of another route sets the
  system (`:71`); `appendData`'s maximum is no cap (`chart-data.ts:42`): a short list is
  not cut, `slice(-0)` keeps everything, and more new records than the maximum cut
  at the wrong end (`CapAssumption`).
* Systems table: a record without a host (it is not among the fields fetched,
  `systemsManager.ts:17`) ends the render while a filter is typed
  (`systems-table-columns.tsx:88`); in the table view the delete dialog stays with
  the row's index, so that it may come to be about another system. `RemovesAsked`
  is about the grid, which uses the system's id.
* Containers: `lastUpdated` is taken from the first and the last item only, and
  may hide fresh ones.
* History: the page number of an earlier visit is restored
  (`alerts-history-data-table.tsx:71`): as long as the list is empty, and for good if
  there are no records or the list fails to load, the page says "Page 4 of 0". A
  second bulk deletion can be started while the first waits for its batches. The
  selection is by index and shifts when a record is created; a
  record that is in the list and in an event is there twice.
* Alerts sheet: one debounce timer is shared by all alerts and systems, so that an
  edit drops the one before it within 400 ms (`alerts-sheet.tsx:39`);
  unchecking with "overwrite" forgets alerts whose DELETE may be dropped.
* Charts: areas made while the toggle waited for the chart to be seen keep
  reading the maximum (`area-chart.tsx:89`); GPU power series are keyed by name
  (`gpu-charts.tsx:40`), so that two GPUs of one name share one.
* Dialogs: the SSH command or install script of one system is shown on the next
  after an arrow key, as the bar stays mounted; a second "Close access" clears a
  newer command; a failed load of the Telegram settings leaves blanks that Save
  writes; typed text is overwritten by a late answer; the deletion of a system
  goes to the home page wherever the user is by then.

Hazards of the code that no module covers yet: a cancelled updater may still take
its tick (`system.go:77`); `conn` is tested and used while `OnClose` clears it
(`ws.go:130`); replies are decoded into one `sys.data` at the same time
(`system.go:360`); SSH tunnels that expire while in use, keep the connection of an
agent that is gone, or share one (`ssh.go:219`, `:102`, `:158`); the agent's
session limit is checked before the dial (`client.go:195`); records at the edge
of their window (`records.go:94`); threshold alerts triggered twice
(`alerts_system.go:254`); counters that restart (`agent/network.go:175`).

## Assumptions about what is not in the repository

* gws: one goroutine reads a connection and calls the handlers in turn; after
  `WriteClose` further writes fail.
* PocketBase: a save writes the changed columns, an update of a row that is gone
  succeeds, after-success hooks run after the commit and in the goroutine of the
  save, `client.Subscriptions()` returns a copy, a panic in a request handler is
  recovered.
* Go: `select` takes any ready case; concurrent map accesses may be detected,
  which ends the process; a lost update of a counter is possible where two
  goroutines increment it without a lock.
* `CreatedAt` stamps of two requests differ. A system has at most one Status
  alert at a time (the collection's unique index).
* The PocketBase client cancels a request when one with the same method and path
  is sent; realtime messages of one connection arrive in order, and messages
  during a lost connection are not repeated.
* React runs the effects of a commit before the next event is handled, and keeps a
  component's state with its key; TanStack Table uses the index of a record as
  row id and goes back to the first page when data or filters change.
* An alert's delay is at least a minute, so a timer does not fire while the step
  that armed it is still running.

## Granularity, and what is left out

* `RemoveSystem` reads the store and cancels in one step; the removal from the
  store is a second one. A rotation whose nested hook also removes the system
  counts the two removals as one. One update started by a resume runs at a time.
* In `AgentConnection` the client exists (its URL and token are valid); the two
  statements after a successful handshake (store the connection, start its read
  loop) are one step. That `Close` also closes the SSH streams belongs to the
  stream component.
* The contents of statistics, messages, encodings and logs are left out; so are
  the statistics records an update writes in the same transaction.
* Frontend: container statistics take the way of the system's in the same calls
  and are left out, as is the request for a system's details; the order in which
  rows are sorted, the CSV export, the text of cells, colours and number formats;
  styled wrappers of Radix and Recharts, icons and type declarations. A filter or a
  hidden column is a member of a small set.
* Telegram delivery, HTTP routing, migrations and the agents' collectors are input
  and output; `PROJECT.json` lists each with its
  reason. `internal/hub/expirymap` has no user at this commit.

## Plan

In this order; each module with its `MC` and, where named, its `Proofs` module.

1. `SshTunnels`: launches (used once, five minutes), tunnels, attached agents,
   idle and maximum lifetimes, revocation; composed with the agent's streams.
   Properties: a launch opens at most one tunnel; a removed tunnel's channel is
   closed exactly once; an idle tunnel is removed; after a reconnect the tunnel
   reaches the new connection or is closed. Theorem: closed once.
2. `Records`: the cascade of intervals as counters over a discrete clock, with
   retention. Properties: no interval is averaged twice, every interval with
   enough shorter records is averaged, retention never removes what a longer
   record still needs. Theorem: the retention order.
3. `SystemAlerts`: averaging windows and trigger saves, on the hooks of
   `StatusAlerts`.
4. `AgentData`: caches and baselines per interval, counter resets.
5. Compositions: `SystemManager` with `StatusAlerts` (the transitions that the
   hook turns into alerts), `AgentConnection` with `SystemManager` (both ends of a
   reconnect), `SystemsStore` with `SystemsTable` (the store under the table).
