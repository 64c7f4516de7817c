# A verification development for requestinspector-relay

requestinspector-relay accepts HTTP requests and UDP datagrams, answers or
forwards them, and shows what passed through it: live in a web page, from a
bounded history in RAM, and optionally from a history in SQLite. This directory
holds TLA+ models of it, the configurations that check them with TLC, and
theorems about them that TLAPS proves. Paths such as `sqlite/repository.go` are
below `src/internal/` unless they start with `web/` or `docs/`.

`PROJECT.json` maps every definition that models code to the lines it models,
and lists the components, the runs, one mutant for each checked property, the
hazards, the findings and the theorems.

## 1. The system

### 1.1 Components, their state and their operations

| Component | State | Operations | Model |
|---|---|---|---|
| SQLite persistence (`sqlite/repository.go`) | accepting flag, count and bytes of reservations, maintenance flag, channel `writes`, the writer's batch, the table | Reserve, Commit, Cancel; the writer's batches; Delete, Clear, Cleanup, Compact, Vacuum; Close, Open | `Persistence` |
| Exchange pipeline (`capture/pipeline.go`) | `inFlight`, the handler's copy of an exchange | ServeHTTP: admit, reserve, start, read, forward or answer, complete or fail, queue, commit | `ExchangePipeline` |
| RAM history (`store/memory.go`) | map of exchanges, capacity | Save, Remove, Clear, RemoveCompletedBefore, Resize; each insertion evicts | `ExchangePipeline` |
| Callbacks and UDP receiver (`app/app.go`) | none of their own | OnWrite (Get, then Save), OnCleanup, receiveUDP | `ExchangePipeline` |
| Management requests on exchanges (`httpapi/exchanges.go`, `httpapi/sqlite.go`) | per request | delete, clear, cleanup, compact, vacuum; listing with cursors and reading | `ExchangePipeline`, `Persistence`, `LiveView` |
| Event bus (`events/bus.go`) | next id, replay, subscribers with pending counters | Publish, Subscribe, SubscribeWithSnapshot, `forward`, disconnect | `EventStream` |
| SSE stream and its page (`httpapi/sse.go`, `web/src/lib/api/events.ts`) | what is on the wire, last event id | openSubscription, stream, reconnect | `EventStream` |
| Page lists (`web/.../AppShell.svelte`, `history.ts`, `realtime-feed.ts`) | Realtime and History lists, dismissed cards, cursor | apply events, fetch details, page, delete, clear, dismiss | `LiveView` |
| Configuration manager and updates (`config/manager.go`, `httpapi/handler.go`) | overrides, revision, file, an update mutex per handler | decode, prepare, persist, commit, apply, override removal | `Reload` |
| Traffic, management and UDP planes (`app/traffic.go`, `management.go`, `udp.go`) | listener, servers, transition lock, stream channel | Prepare, Activate, Abort, drain, CloseStreams, Close | `Reload` |
| UDP proxy sessions (`app/udp_sessions.go`) | expirable cache of sockets, a reader per socket | Forward, read replies, expire, evict, Close | `UDPSessions` |
| Management authentication (`httpapi/auth.go`) | sessions and login attempts, both bounded | login, valid, logout, expiry | `Sessions` |
| Run and shutdown (`app/app.go`) | contexts, wait groups | serve, shutdownRuntime | order of closing in `Reload`, closing of the repository in `Persistence` |
| Configuration loading and validation (`config/config.go`) | none | applyOverrides, Validate | operators of `Reload` |
| HTTP proxy, body reader, CORS, command line, embedded assets, build files | none across requests | sequential | not modelled, or as choices of the handler (section 7) |

### 1.2 How they interact

A handler goroutine takes a slot in the pipeline (`inFlight`), then a
reservation in the repository, and gives them back in deferred functions. It
saves each state of its exchange in RAM. When the exchange is terminal the
deferred function marks the copy `queued` and commits the reservation, which
puts the exchange into the channel `writes`. The one writer goroutine of the
repository takes batches from that channel, writes each in a transaction,
releases the reservations and calls `OnWrite`, which reads the copy from RAM and
saves it back with the outcome. The UDP receiver does the same for datagrams, in
one goroutine and without a slot. Management requests wait for the reservations
to drain, send a function to the writer over an unbuffered channel, and then
change RAM. Everything publishes to the event bus, whose subscribers are the SSE
handlers; a page that is cut off reconnects with the last id it read, and
fetches details and pages of History beside the stream. A change of
configuration takes the transition lock of each plane it concerns, persists,
resizes RAM, sets the retention and then replaces listeners, sessions or the
management handler with its authenticator and its update mutex. The UDP receiver
of a listener forwards through the session manager the plane had when it read
the datagram.

### 1.3 What is hard

* Counters changed by one goroutine and undone by another (`reservedCount`,
  `inFlight`, a subscriber's `pendingCount`): a leak refuses traffic for ever, a
  double release overfills a queue.
* Reads used after other goroutines had their turn: `OnWrite`, a deletion that
  waits, a page that awaits a detail.
* Operations that a caller may abandon at any wait while the writer goes on.
* Closing: the order in which `accepting`, the reservations, `stop` and the
  writer end decides whether an admitted exchange is lost.
* Crashes between a transaction and its report; event ids that start again.
* Bounds that several actors fill: RAM, the queue, the replay, a subscriber, the
  cache of UDP sockets, the maps of the authenticator.
* Two handler instances with a mutex each during a management reload; up to
  three transition locks held across failures; listeners that have three kinds of
  owner.
* Answers of concurrent requests that overtake events and each other in the page,
  and cursors into a merge of two histories that move.

Each is listed in `PROJECT.json` under `hazards`, at its line, with the
properties that would catch it, or the reason why none does yet.

### 1.4 What makes each component correct

* Persistence: counters exact; what is committed is settled once, in order,
  with its whole batch; one maintenance operation at a time, vacuum alone;
  callers and Close return; rows survive.
* Pipeline and RAM: nothing leaks on any return path; the bound holds whoever
  inserts; a copy only advances; what was deleted stays deleted; a queued copy is
  reported.
* Event bus and stream: pending counters exact and bounded; a page reads a
  gapless sequence or a snapshot that covers the gap; it catches up.
* Planes and configuration: a save undoes no other; the planes end with what is
  committed, and where they can be left behind that is one known case; no listener is leaked or closed in use; no channel is closed twice;
  nothing hangs.
* UDP sessions: no socket is forgotten; a closed manager stays quiet; a reload
  returns; idle sessions end.
* Authentication: both maps bounded, the rate limit kept, a good session never
  given up, nobody kept out by entries that no longer count.
* Page: a walk through History skips nothing it owed; a card neither goes back
  nor returns after it was dismissed; what was deleted is shown nowhere.

## 2. The modules

### 2.1 `Persistence`, the repository

An exchange is an element of `Ids`; `st` says where it stands between `none`
(no reservation) and a settled outcome. `held`, `queued` and `batched`
exchanges are the ones the code counts in `reservedCount`. `wpc` is the program
counter of the writer: `select` (runWriter), `collect` (collectBatch), `tx`,
`release`, `notify` (writeBatch and its loop over the items), `control`,
`stopped`. `call` holds a small program counter for every caller of a control
operation: `drain` (waitForReservations in Vacuum), `send` and `await` (the two
selects of `control`), `again` and `cleaned` (Cleanup's loop, OnCleanup), `end`
(the deferred endMaintenance). `closer` follows finishClose.

Every lock section or channel operation of the code is one action. The
rendezvous on `controls` is one step of two goroutines (`TakeControl`), the
transaction has two outcomes, all rows or none, and `GiveUp` ends a caller's
context at each wait; if the writer already has the request, it still runs it,
for nobody. `Restart` ends the process at any point, or after Close: only rows
survive, and what had not been written is `lost`.

Contents are abstracted to the bytes that are reserved and to the completion
time that cleanup compares with its cutoff. Commit's branch for a full channel is
part of the model and shown to be unreachable (`CommitFindsRoom`).

### 2.2 `DurableHistory`, what the repository promises

Five phases of an exchange seen from outside: absent, pending, stored, dropped,
erased. An exchange is stored at most once and with others in one step, only
after it was admitted; it leaves the database only by being erased and does not
come back. `Persistence` implements it under the mapping `Phase`
(`ImplementsHistory`), and, with fairness, its liveness
(`ImplementsLiveHistory`): what is pending gets decided.

### 2.3 `ExchangePipeline`, pipeline, RAM, callbacks and management requests

The module composes an instance of `Persistence` (`DB`) with the goroutines
around it. `pc` is where a handler is, `xch` its own copy of the exchange, `ram`
the RAM history. The actions of a handler are the stretches of `ServeHTTP`
between two effects that others can see; a saved copy and the eviction the save
causes are one step, as they are under the lock of `Memory`. `Fail` covers the
every way to fail. The deferred functions run in the order of the code:
`MarkQueued`, `CommitExchange`, `CancelReservation`, `ReleaseSlot`.
`OnWriteGet` and `OnWriteSave` are two steps since the callback takes the lock
of `Memory` twice; `hook` is the copy in between. `mgr` follows a deletion or a
clear through WaitIdle, the control operation and RAM; each can fail or be
abandoned. `deleted` records which deletions were answered with 200.

A copy is its state, its revision and its persistence status. `CompletedAt`
stands for the pair (completion time, id) by which eviction orders exchanges. It
is a constant, so the handlers may finish in an order that contradicts it: the
model has more behaviours than the code, not fewer.

### 2.4 `EventStream`, bus, SSE handler and page

An event is its id, the process that published it and its size. `sub` has, for
each page, the queue of its subscriber, the event in the hand of `forward`, the
size that was handed over and not yet subtracted (`owed`), and both pending
counters. `pc` says whether the stream handler is running, found a gap (between
the two subscriptions of openSubscription), or has ended; `wire` is what it
wrote. `last` is the id the browser sends as Last-Event-ID. The history
variable `covers` says which event the page's state reflects. `replayBytes` is
not a variable: it always is the sum over the replay.

### 2.5 `Reload`, updates and the planes

`pc[r]` follows a request that serves PUT /config or DELETE /config/overrides
through `applyConfigurationUpdate`: `routed` and `ready` before the mutex of its
handler `instance`, `prepare` (Manager.Prepare), the name of each plane whose
Prepare is next, `commit`, `resize`, `retention`, `activate`, `retire` (the old
UDP sessions and listener), `abort`. `plan[r]` has a plane exactly while its plan
is open, which is while the request holds the plane's transition lock; its value
is the new listener, if there is one. `bound` are the open listeners, `draining`
those left to a drain goroutine. A management reload makes `generation` the new
handler; the old listener leads to the old one (`routes`) until it is drained.
`streams`, `streamClosed` and `panicked` follow the channel that ends event
streams. The steps of the shutdown come in the order of shutdownRuntime and take
each transition lock.

Address, credentials, CORS, UDP settings, capacity and retention are the settings
that are told apart; `Part` is what a plane compares. An address may be taken by
another process at any time, the file may fail to be written at any step before
the rename.

The revision a client sends is any member of `Revisions`; nothing ties it to the
manager's, and the code only compares it, in Prepare and in Commit. `Lock` ends with
Manager.Current and `Prepare` is a lock section of its own, as in
applyConfigurationUpdate. `asked[r].ahead` notes that the revision a request expects
did not exist when it was decoded. Such a request can read one configuration and then
pass Prepare against a later one, the commit of the other handler instance having
come between. It computes which planes change from what it read. `unplanned` is a
history variable, read by properties only: the planes that a save which ran ahead
changed without a plan, and for which no later save has had one.

`PlaneSettings` is what a reload promises, without requests or locks: one save
replaces the configuration only when the planes it concerns have followed the
last one, and a plane installs what is committed. Of an unplanned plane nothing is
promised; a plane becomes unplanned only by a save that changes it.

### 2.6 `UDPSessions`

`receiver[l]` is the receive loop of a listener: it has read a datagram and the
manager (`forward`), looked the client up (`refresh` or `dial`), and sends. The
cache has a lock of its own, so the janitor (`Expire`) runs between these steps
although Forward holds the manager's mutex. `session` has a socket and its reader
goroutine, `transition` the reload or shutdown that closes an old manager. The
cache is a library: its definitions are external, read from how the code uses it.
A time is expired for the janitor when it is reached, for `Get` when it is
passed, as in the library.

### 2.7 `Sessions`

Two maps, `sessions` and `attempts`; each operation is one section of the
authenticator's mutex. `issued` and `compared` are history variables: what the
authenticator gave out and which credentials it looked at, from which the
properties say what the maps should know. A reload starts a new authenticator.

### 2.8 `LiveView`, the lists of the page

The server is as small as the lists can tell: copies in RAM, on their way to
SQLite and in it. `wire` is the stream in its order. `asked` are the detail
requests of receiveLiveExchange, each answered and handled at any later time;
`load` is the one request for a page of History, in three parts: sent, RAM
listed, rows listed and merged. `live`, `history`, `dismissed` and `list` are the
variables of AppShell.svelte. `owed` is what the current walk has to show: what
had ended and was kept when its first page was listed, less what was deleted,
cleared, or evicted before its row existed.

### 2.9 The others

`MCPersistence`, `MCExchangePipeline`, `MCEventStream` and `MCReload` give the
small instances for TLC; the other configurations need numbers and model values
only. `Selection` says what a loop that filters a list keeps (`Kept`), for
`Sessions` and `UDPSessions`; it is SelectSeq without recursion, so that
`SelectionProofs` can prove facts about it. `PersistenceProofs`,
`PipelineProofs`, which uses it through an instance, `EventStreamProofs`,
`ReloadProofs`, `SessionsProofs`, `UDPSessionsProofs` and `LiveViewProofs` hold
the theorems. Operators named `Bug...` are faulty
variants of the definition they precede; no specification uses them. Each shows
that a property notices that fault.

## 3. What the runs check

Symmetry is not used: exchanges differ in size and time, and several runs check
liveness.

| Run | Instance | What it checks |
|---|---|---|
| `persistence_safety` | 3 exchanges, queue of 2 by count and by bytes, batches of 2, cleanup batches of 1, 2 callers | `TypeOK`; `CountAccounting` and `BytesAccounting`: both counters are exact; `CommitFindsRoom`; `CloseSettlesAll`; `VacuumExclusive`; `MaintenanceExclusive`; `ReportMatchesRows`; `SettledInCommitOrder`; `CleanupFinishes`; `ImplementsHistory` |
| `persistence_liveness` | 2 exchanges, 1 caller, with fairness | `CallersReturn`, `CloseEnds`, `ImplementsLiveHistory` |
| `pipeline_delete` | 2 HTTP exchanges, capacity 1 or 2 with resizes, 1 caller | `RamBounded`, `DeletedStaysDeleted`, `EvictsOldest` |
| `pipeline_commit` | a proxied HTTP exchange and a datagram, queue of 1, resizes, 1 caller, with fairness | `NothingLeaks`, `CopiesAdvance`, `QueuedIsReported` |
| `stream_delivery` | 4 events of sizes 1 to 3, 2 breaks, a restart, with fairness | `PendingExact`: both counters of a subscriber are exact and bounded; in the first process `ContiguousDelivery`, `CatchesUp` |
| `reload_updates` | 2 requests, 3 changes that concern all planes, revisions 1 to 3 from any client, at least 2 saves, with fairness | `PlanesFollow`, `ListenersAccounted`, `StreamsAccounted`, `NoLostUpdate`, `ImplementsPromise`, `CapacityFollows`, `NothingHangs` |
| `udp_reload` | 2 clients, a cache of 1, 2 listeners, 2 managers, 2 dials, with fairness | `NoOrphans`, `QuietAfterClose`, `ReloadReturns`, `IdleSessionsEnd` |
| `sessions` | 2 peers, 2 session and 1 attempt places, 3 tokens, 4 ticks, a reload | `StoresBounded`, `RateLimited`, `GoodUntilOver`, `RefusedForRoom` |
| `liveview_lists` | 2 stored and 2 new exchanges, pages of 1, RAM and feed of 1, 2 details in flight | `WalkSkipsNothing`, `CardsAdvance` |

Three more runs are expected to find a violation, see section 5.

### Bounds, and why they are enough

* Queue, batch and cleanup limits are 1 to 3, one below the number of exchanges
  that compete for them, so that full, exactly full and not full all occur. In
  `persistence_safety` the two bytes hold the large exchange alone or both small
  ones: count and bytes each refuse traffic the other would admit.
* Two callers suffice for exclusion: a third can only be where one of the two
  is. The theorems of section 6 have no such bound.
* Each exchange makes one reservation, as in the code. A caller may repeat
  operations without bound; rows can be deleted while others arrive.
* In `EventStream`, `MaxEvents`, `MaxRestarts` and `MaxBreaks` bound the only
  counters that grow. Four events are two more than the replay and a subscriber
  hold, so an id can be replayable, trimmed by count, trimmed by size (size 3
  fits nowhere) and the oldest one left. Pages do not see each other, so one page
  is one of many.
* In `Reload` two requests are enough for two handler instances to be in an
  update at once; no request is routed once there were two saves
  (`MaxRevision` is 3). A client sends 1, 2 or 3 (`Revisions`), so each request can be
  stale, right or ahead of the manager; the state where a plane is left unplanned is
  reached. The changes move each plane, change an HTTP plane and keep its address,
  disable UDP and enable it again, remove an override, and let traffic ask for the
  address management gives up. The theorems have no such bound.
* `pipeline_commit` has one HTTP handler, so admission is never contended there;
  `HandlersLeaveNothing` has any number of handlers. The bytes of reservations are
  natural numbers and int64 in the code (repository.go:284); the two differ only when
  one reservation saturates and another stands beside it.
* In `UDPSessions` two sockets are connected: an old and a new one of a client, or
  of two clients that compete for one place. With a TTL of one tick, two ticks
  show a session in time, expired and renewed.
* In `Sessions` an attempt counts for two ticks of four and a session for three,
  so both expire and are made again within a run. One attempt place for two peers and two
  session places for three tokens are full with good and with old entries.
* In `LiveView` four exchanges are two of an earlier process and two that arrive
  while the page walks; with pages and RAM of one every boundary is met. `MaxRare`
  is a budget that deletions, clearings, failures, breaks and the user's actions
  on Realtime share: one of them at any point, beside any traffic.
* `EventStream` and `LiveView` may stop when their bounds are used up, so their
  runs do not look for deadlock; in all other runs deadlock is checked.

## 4. Fairness

* `WF` for the writer, the handlers that have been admitted, the UDP receiver in
  the middle of a datagram, callers that can go on, finishClose, `forward`, the
  stream handler: goroutines that can run are scheduled, and none of these waits
  on something outside the process without a time limit.
* `SF` for `TakeFirst`, `Stop` and `TakeControl` (in `ExchangePipeline` for
  `Batching`): the select of runWriter picks among its ready cases with equal
  probability, so none of them is passed over for ever. With weak fairness only,
  control requests could starve the queue.
* A handler with a reservation ends: its deferred functions always run, and
  servers have read, write and upstream timeouts.
* The page reconnects: EventSource does that by itself while the page is open.
* `SF` for each update request and for the shutdown in `Reload`: they wait for
  mutexes, and a Go mutex hands over to a waiter that was overtaken for a
  millisecond (its starvation mode), so one that is free again and again is
  obtained. A body that has begun to arrive is read, within the server's read
  timeout; that a client sends a request is not assumed.
* `WF` in `UDPSessions` for a Forward that has begun, the janitor, a reader whose
  socket was closed, and the two steps of Close.
* Nothing is assumed of new traffic, requests, cancellations, published events,
  breaks, Close or restarts.

## 5. Where the code and its documents differ

Each of these is shown by a run of its own, which TLC must find violated; the
quoted sentence is the property.

| Run | Sentence | What happens |
|---|---|---|
| `stream_restart` | docs/api-v1.md:116, "A replay gap receives `resync` with a fresh atomic RAM snapshot." | Ids start at 1 in each process and only ids are compared: after a restart a page can resume at an event of the new process with the number it read from the old one, and misses the ones before. |
| `udp_reader` | docs/configuration.md:133, "each canonical client address gets one connected upstream socket" | The reader of a session ends on any failed read, such as a refused connection, but the session stays cached: the next datagrams find and renew it, and nobody reads the replies. |
| `liveview_deleted` | docs/api-v1.md:120, "`exchange.deleted` removes one exchange from Realtime and History in every connected interface." | loadHistory returns at once while a page is awaited, also when a deletion calls it to reconcile. A page answered before the deletion and handled after it brings the exchange back. |

For the first reason `ContiguousDelivery` and `CatchesUp` speak of the first
process only, while the invariant about the server holds across a restart.

Other differences, found while the code was translated and visible in the
models, have no run of their own:

* docs/sqlite-history.md:9, "Terminal exchanges enter RAM with
  `persistence.state=queued`": the terminal copy is saved first, without a
  status, and marked in a deferred function (capture/pipeline.go:249).
* docs/request-pipeline.md:39, "Every mutation increments the exchange revision":
  marking a copy queued, persisted or failed leaves it (pipeline.go:140).
* docs/sqlite-history.md:21, "Clearing RAM through `DELETE /api/v1/exchanges`
  never deletes SQLite rows": that handler clears the table (exchanges.go:385).
* docs/request-pipeline.md:51, "Terminal exchanges remain in RAM while one writer
  goroutine batches atomic SQLite commits": eviction does not look at the
  persistence status (memory.go:109); until its batch is committed, such an
  exchange is in neither history.
* docs/api-v1.md:63, "History capacity changes apply immediately": with two handler
  instances the last resize need not be that of the last save. `CapacityFollows`
  is stated for one instance.
* docs/configuration.md:27, "Saving any `udp.*` field prepares the complete UDP
  generation before configuration persistence": not if a client sends a revision that
  does not exist yet while a management reload is in progress. At revision n a request
  on the old instance reads Current (handler.go:331), with n+1 expected; one on the
  new instance commits n+1 with other UDP settings; the first now passes Prepare (line
  332), puts the earlier UDP settings back, sees no difference from what it read, takes
  no UDP plan and commits n+2. The listener stays with the settings of n+1, or gets
  them when the other request activates, until a later save has a plan for the plane.
  It is the same for the other planes. `PlanesFollow` and `PlaneSettings` except
  exactly these planes (`unplanned`); without the exception TLC finds the behaviour in
  `reload_updates`. Sending the current revision or an older one never leads there.
* A UDP session that the janitor expired between the Get and the Add of a
  Forward is cached again closed (`CachedIsOpen`, which no run checks): its
  datagrams are refused until it expires again.
* In the page: a detail answer can return an older revision as a new card once a
  clearing or the limit of the feed forgot the newer one; the answer of a reset
  drops what was merged while it was awaited; the answer of clearHistory removes
  what arrived since; a History row of a dismissed exchange is no longer updated;
  a 409 of a page whose boundary ended or was deleted keeps its cursor, so that
  Retry fails until the next reset; a snapshot never removes anything.

## 6. What is proved

For every value of the constants, from the assumptions the modules name
(`IdsFinite`, `CallerAssumption`, `OptionsAssumption`, `DataAssumption`;
`RepositoryAssumption`, `PipelineAssumption`; `ClientsFinite`,
`LimitsAssumption`, also in `LiveView`; `LowerAssumption`, `ChangesAssumption`,
`RevisionsAssumption`, `LowerValid`;
`BoundsAssumption`; `MaxManagersAssumption`, `MaxSessionsAssumption`,
`TTLAssumption`):

| Module | Theorem | States |
|---|---|---|
| `PersistenceProofs` | `TypeCorrect` | `Spec => []TypeOK`, with neither counter above its limit |
| | `CountsReservations` | `Spec => []CountAccounting` |
| | `BytesReserved` | `Spec => []BytesAccounting` |
| | `CommitAlwaysFindsRoom` | `Spec => []CommitFindsRoom` |
| | `CloseStrandsNothing` | `Spec => []CloseSettlesAll` |
| | `OneMaintenance` | `Spec => []MaintenanceExclusive` |
| | `VacuumAlone` | `Spec => []VacuumExclusive` |
| | `CleanupLeavesNothing` | `Spec => CleanupFinishes` |
| | `ReportsMatchRows` | `Spec => []ReportMatchesRows` |
| | `SettlesInOrder` | `Spec => SettledInCommitOrder` |
| | `RepositoryIsDurable` | `Spec => ImplementsHistory`, the refinement of `DurableHistory` |
| `PipelineProofs` | `RepositoryInside` | `Spec => DB!Spec`: the pipeline contains a `Persistence` |
| | `PipelineIsDurable` | `Spec => P!ImplementsHistory`: with handlers, receiver and requests at work it still implements `DurableHistory` |
| | `RamKeepsToItsBound` | `Spec => []RamBounded` |
| | `EvictionTakesTheOldest` | `Spec => EvictsOldest` |
| | `CopiesNeverGoBack` | `Spec => CopiesAdvance` |
| | `HandlersLeaveNothing` | `Spec => []NothingLeaks` |
| | `DeletionIsFinal` | `Spec => []DeletedStaysDeleted` |
| `EventStreamProofs` | `CountersStayExact` | `Spec => []PendingExact` |
| | `EveryEventOnce` | `Spec => ContiguousDelivery` |
| `ReloadProofs` | `PlanesFollowAlways` | `Spec => []PlanesFollow`, for any revisions clients send |
| | `SavesAreNotLost` | `Spec => NoLostUpdate` |
| | `UpdatesImplementPromise` | `Spec => ImplementsPromise`, the refinement of `PlaneSettings` |
| | `CapacityFollowsOneInstance` | `Spec => []CapacityFollows` |
| | `ListenersStayAccounted` | `Spec => []ListenersAccounted` |
| | `StreamsStayAccounted` | `Spec => []StreamsAccounted` |
| `SessionsProofs` | `StoresStayBounded` | `Spec => []StoresBounded` |
| | `GoodSessionsStay` | `Spec => []GoodUntilOver` |
| | `LoginsAreRateLimited` | `Spec => []RateLimited` |
| | `OnlyGoodEntriesRefuse` | `Spec => RefusedForRoom` |
| `UDPSessionsProofs` | `NoSocketForgotten` | `Spec => []NoOrphans` |
| | `ClosedStaysQuiet` | `Spec => []QuietAfterClose` |
| `LiveViewProofs` | `ListsTypeCorrect` | `Spec => []TypeOK` |
| | `WalkShowsAll` | `Spec => []WalkSkipsNothing` |
| | `CardsOnlyAdvance` | `Spec => CardsAdvance` |

`PersistenceProofs` proves one inductive invariant, `IInv`, of five parts.
`CountAccounting` is not inductive alone: a step of the writer lowers the count
for the exchange at the head of its batch, which has to be one that still
counts. `QueueInv` and `BatchInv` say that the exchanges in `writes` and in
`batch` are exactly the ones whose `st` says so, without duplicates, and which
items of a batch are already released. With that, each action changes `Holding`
by the one exchange it counts, `LEMMA`s about `Holding` and cardinality do the
arithmetic, and `CommitFindsRoom` follows: the channel holds queued exchanges
only, so it is at most as long as the others that count. `CloseInv` says what
has ended by the time `closer` moves on; since `accepting` is false from the
first step on, `Holding` only shrinks. `BytesReserved` speaks of a sum over a set,
which is a fold that picks the elements in some order. `IsSum` characterises the
sum without an order, `FoldIsSum` shows that the fold computes it, and both use
`SetInduction`: induction over the subsets of a finite set, proved from the
well-foundedness of their order.

The second part of `PersistenceProofs` adds `MInv`: the caller in its section is
the only one and the flag is its own, only operations that began maintenance end
it (`EndsSection`), the writer's answer goes to whoever waits for that operation
(`AwaitsControl`), and a vacuum that has drained the reservations sees no new
one (`VacuumDrained`). Steps outside the section are one lemma, `Outside`; steps
of a caller another, `Inside`. `ReportMatchesRows` is inductive with
`RowsExplained`: a row is there because its exchange was reported or is about to
be. No control operation touches the rows of a batch that is not reported yet,
because the writer serves both. For the refinement `HistoryStep` maps every step
to one of `DurableHistory` or to a stutter: `WriteBatch` shows its whole batch,
`NotifyItem` settles one exchange, a successful control request erases.

`PipelineProofs` first shows that the pipeline contains the repository: every
step of a handler, the receiver, OnWrite or a request is a step of `Persistence`
or leaves it alone (`RepositoryInside`), so `IInv`, `MInv` and `RInv`
hold in it and it implements `DurableHistory` too.
`PipelineInv` adds, for each exchange, what is reserved where its handler stands
(`Reserved`), how far its copy can be (`Progress`) and that RAM has the same copy
but for what OnWrite reported (`Mirrored`); and that between its Get and its Save
OnWrite holds a copy the handler has finished with (`Hooked`), which is why a save
of a whole copy takes nothing back. A deletion establishes its result in
stretches (`Established`): its exchange has a handler that saves no more, then
no reservation, then no row and nothing undecided. `Stays` says that whatever else
happens meanwhile undoes none of this, and `Gone` is what is left of it for good.

`EventStreamProofs` counts first: `forward` has an event in its hand or owes one,
never both, so what Publish and `forward` count in turn is what is there
(`Exact`). `ContiguousDelivery` speaks of what a page reads; the invariant has to
speak of everything on the way (`Chain`): what the page knows, what is on its
wire, what `forward` holds and what is queued follow each other without a gap,
for a registered subscriber up to the last event. A snapshot
without an id leaves the page's last id behind what the page knows, which does no
harm: the replay holds none of the events between. Restarts begin new processes, of which the theorem says nothing.

`ReloadProofs`: two updates of different handler instances do run at the same
time, so the mutex proves nothing. What does is the revision, which is compared
twice, and the transition locks. A request whose expected revision existed when it
was decoded, and still is the current one, has read since what is in effect now
(`FreshRead`); so the planes it found to change are those its commit changes, and it
holds their locks or is about to take them (`ChangesCovered`). Of a request that ran
ahead only the second half holds: planes that differ from what it read are covered,
and what its commit changes beyond them becomes unplanned. What it saves differs from
the overrides as asked in both cases (`SaveMerges`), because Prepare compares and
merges in one lock section. A later save that would change a plane again waits for
its lock or changes it unplanned, so the plans of committed requests are not out of
date for the other planes (`CommittedAgree`). `AllFollow`, which is `PlanesFollow`
but for the handler instances, is inductive with these, and the refinement
follows: a commit finds the planes it changes following, because the only
requests that could be late hold a lock this one holds. Where there is one handler
instance its mutex does exclude a second update (`OneAtATime`): RAM gets the
capacity of the configuration just committed, and what a request has read stays in
effect until it commits, whatever its client sent (`SoleReader`), so that nothing is
unplanned before a second instance exists.

For the listeners `ReloadProofs` adds that none has two owners (`Apart`) and that a plan
has a listener exactly where the address of its plane changes (`PlansFit`), which
stays true because the plane's settings only change under the lock of that plan.
`Accounted` is `ListenersAccounted` listener by listener. That the HTTP planes
always have an address comes from validation (`AddressesGiven`, from
`LowerValid` and Prepare).

`SessionsProofs` relates `sessions` to `issued` (`SessionsAgree`): what is in the
map is good or has expired, and what is good is in the map. The lists of attempts
are related to `compared` in both directions (`AttemptsMatch`): each of the
credentials of the last minute has a place of its own in its peer's list
(`Covers`), so there are not more of them than the list is long, and every entry
of a list is one of them (`Recorded`), so a list or a map that refuses somebody is
full of entries that count. Filtering keeps both: `SelectionProofs` gives each
element that `Kept` keeps a place, its rank, and different elements different ones.

`UDPSessionsProofs`: that open sockets are cached (`Accounted`) depends on what a
Forward knows between its Get and its Add, when only the janitor can come in.
The entries of a client share one session (`Single`); while a Forward is about to
renew a session no entry of its client has another (`RenewsItsOwn`), because
nobody else holds the manager's mutex (`OneForward`) and the janitor only removes.
A Forward that has passed the closed check holds the mutex that Close needs, so a
closed manager has none (`Quiet`), and gets no new socket or reader.

`LiveViewProofs` accounts for a walk, which is spread over requests that RAM and
SQLite answer at different times while exchanges end, move and go. Between two
pages what is still owed and not shown is below the cursor (`Between`, `Ahead`);
while a page is awaited it is below that page's cursor (`Asked`); between the two
listings every owed exchange was in RAM when RAM was listed or is in SQLite now
(`Listing`), because an exchange leaves RAM for want of room only when `owed`
gives it up or it has its row; and an answered page shows it or leaves it below
its next cursor (`Answered`). `PageCovers` is the heart: SQLite is asked for as
many rows more than a page as RAM listed, so however many of them RAM had too
(`Shadowed`), the others fill the page, and what was not returned, or was cut off
after merging, is older than the whole page. It rests on `Newest` and `TopCuts`,
which count ranks by `WFMin` and cardinality. Duplicates are equal
because an exchange ends once (`EndsOnce`): the copy listed in RAM is the copy
that was committed. A deletion that is on the stream, or was answered, speaks of
an exchange the server never has again (`Dead`), so removing it
from History takes away nothing owed. `CardsAdvance` follows from `Cards`:
Realtime has one card of an exchange, so replacing it compares with the only one.
TLC found `LInv` to be an invariant of `liveview_lists` before the proof.

### Only model-checked

* Liveness (`CallersReturn`, `CloseEnds`, `ImplementsLiveHistory`,
  `QueuedIsReported`, `CatchesUp`, `NothingHangs`, `ReloadReturns`,
  `IdleSessionsEnd`): the prover does not handle fairness and ENABLED. Every
  safety property of a passing run is a theorem.

The library's induction theorems take an operator as parameter and cannot be
used. Induction is still possible over finite sets and numbers, from the theorems
about well-founded orders (`WFMin`), and that is how every fact about a sum or
about a trimmed sequence is proved here.

## 7. What is not modelled, and why

* Persistence: SQL text, migrations, the read-only queries and the status; the
  metrics and the last error, which nothing in the repository reads. A row that
  cannot be encoded fails its batch like any other error of the transaction.
* ExchangePipeline: what is published (in `LiveView`, except that evictions by
  OnWrite and by the UDP receiver are not published, and that a datagram's
  `request.completed` follows its commit: no document says otherwise); Close and
  restarts, which `Persistence` has, but not together with handlers; the second
  removal from RAM by `sqliteCleanup` (httpapi/sqlite.go:77), which repeats the
  one of OnCleanup with the cutoff; previews, byte estimates and timings; the
  proxy, whose outcomes are the choices of `Handle` and `Fail`.
* EventStream: contents of events and snapshots (in `LiveView`), several
  publishers (the bus mutex serialises them), heartbeats other than as causes of a
  break.
* Reload: Manager.Remove and RemoveAuthentication, which the handlers do not use;
  the format of the file; secrets; single-value checks, which table tests cover;
  requests that are still being served when their server is drained beyond the
  updates themselves.
* UDPSessions: budgets for replies, captured replies, the resolution of the
  upstream. Sessions: the comparison of credentials, cookies and CORS.
* LiveView: selection, counts and status, settings, presentation; body reads.
* HTTP proxy, CORS, body reader: sequential within one request and without
  shared state. Command line, embedded assets: sequential start-up code. Building
  the runtime (Start in app/app.go) is sequential too; its failures close what was
  opened before.
* Scripts, container and release files: no run-time behaviour.

## 8. Plan

All components that run concurrently or keep state have their module. What is left, in this order:

1. Pure algorithms against reference definitions over bounded inputs: byte
   ranges and body limits (`httpapi/input.go`, `capture/body.go`), the saturating
   sum of a reservation (`capture/pipeline.go`).
2. `Shutdown`: handlers, planes and repository composed, closed together within
   the configured time.

## 9. Running

In this directory, with the community modules and the TLAPS library on the
path:

    tlc -workers 2 -config Persistence_safety.cfg MCPersistence.tla
    tlapm PersistenceProofs.tla
    tlapm PipelineProofs.tla
    tlapm EventStreamProofs.tla
    tlapm ReloadProofs.tla
    tlapm SelectionProofs.tla
    tlapm SessionsProofs.tla
    tlapm UDPSessionsProofs.tla
    tlapm LiveViewProofs.tla

`PROJECT.json` names the module and configuration of every run. Every passing
run ends within a few minutes with two workers.
