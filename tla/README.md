# Verification of the Mirrormere server

Mirrormere is a wall display for a household: a Go server (`cmd/server`,
`internal/`) keeps the state of the wall (which screen is shown, which video
floats over it, the volume, the voice assistant, the data of every widget) and
pushes it to browsers and e-ink frames over server-sent events. Edge programs
(microphones, cast watcher, remote) talk to it over HTTP.

The server has no database and no transactions. What makes it hard is that every
part of the state belongs to a coordinator with a mutex of its own, that timers,
HTTP handlers and worker goroutines all call into the coordinators, that nearly
everything is *published after* the mutex has been released, and that most data
comes from outside services that fail, change while they are read and lose
answers. This directory models those coordinators, the event bus between them
and the providers that talk to the outside in TLA+, checks them with TLC and
proves the safety of eight of them with TLAPS.

## 1. Inventory

| Component | State | Operations | Hard because | Correct when |
|---|---|---|---|---|
| Video coordinator (`internal/video`) | mode, primary and pip stream, timers by stream id | Trigger, Dismiss, UpdatePlayerState, Close, handleTimerExpired | timer goroutines race requests for the mutex; snapshots are published outside of it | the stack can be shown; exactly the temporary streams count down; a countdown ends |
| Rotation coordinator (`internal/rotation`) | snapshot, current screen, paused, two timers with generations | SelectScreen, AdvanceScreen, PauseRotation, ResumeRotation, UpdateConfig, Stop, two timeouts | reloads shrink the layout; callbacks that already fired cannot be stopped | the screen exists; rotation neither dies nor happens while paused; a request buys a full interval |
| Event hub (`internal/events/hub.go`, `handler.go`, `hydration.go`) | ring, subscribers, hydration state | PublishEvent, Subscribe, Unsubscribe, Close, the SSE handler | publishing is five separately locked steps; slow clients are evicted; clients resume by id | a client that is up to date shows the state of the server |
| Event ring (`internal/events/ring.go`) | circular array, head, count | Add, ReplaySince | index arithmetic, TTL | it is a log of the last events |
| Voice HUD coordinator (`internal/voice/coordinator.go`) | state, status, speaking watchdog | SetState, SetStatus, Reset, Stop, watchdog | the watchdog checks and resets in two critical sections | "speaking" always ends |
| Voice hub (`internal/voice/hub.go`, `hub_turn.go`) | in-flight flag, the turn's audio, chat log | Interact | every stage can fail after audio was already played | a turn ends, and the HUD, the node and the chat log agree on how |
| Provider coordinator (`internal/provider/coordinator.go`, `cache.go`, `backoff.go`) | snapshot, workers, cache, event channel | workers' fetches, pushes (providers, HTTP, chat log), list completion, service calls, RefreshWidget, UpdateConfig, Shutdown | fetches outlive their worker; a reload waits for goroutines while it holds the lock; a refresh meets a fetch under way | nothing of an old configuration comes back; cache and displays agree; reloads end; what was acted on is read again |
| Configuration manager (`internal/config/lkgc.go`, `override.go`), signal goroutine and asset reloader (`cmd/server`), dispatcher (`internal/events/dispatcher.go`) | last known good snapshot, base text, errors, override file, package hashes | Reload, Apply/ResetLayoutOverride, SIGHUP, scan of packages and web assets, dispatch | file and snapshot change in steps; the dispatch happens outside the lock | a rejected text never runs; file, snapshot, coordinators and displays agree |
| Layout solver and editor (`internal/layout`, `internal/config/override.go`, `internal/server/layout_editor.go`) | layout, override file | SolveGrid, ApplyOverride, save, reset, reload | a packing search with a node budget; old drawings meet new configurations | screens are tiled; drawn widgets stay where they were drawn; saving what is shown changes nothing |
| Photos provider (`internal/provider/photos.go`, `photos_cache.go`) | albums, disk cache, deck and cursor | Fetch, Subscribe, Sync, push, deal | two threads, paginated scraping that breaks off, restarts | cache follows album, album follows upstream, every day is shown |
| Tasks and Home Assistant (`internal/provider/tasks.go`, `home_assistant.go`, `internal/tasks`, `internal/server/lists.go`, `ha_action.go`) | access token, upstream list | Fetch, CompleteItem, ReopenItem, CallService | paging while others edit, revoked tokens, lost answers | replies tell the truth; displays converge to upstream |
| Cast watcher (`client/cast-watcher`) | belief about the Chromecast and about Core, dispatch queue | receiver and media messages, posts, reconnect, wake, commands | belief is kept on both ends of two lossy connections | Core shows what the Chromecast plays |
| Audio coordinator (`internal/audio`) | volume, muted | SetVolume, SetMute | publishes after unlocking | displays end up with the last value |
| Header weather poller | configuration, ticker | Start, Stop, FetchOnce | late fetches | no stale header |
| Chat log (`internal/chatlog`) | messages per conversation | Add, Replace, View | pruning by age and number | the newest messages stay |
| Calendar, weather and other providers | client sessions | Fetch | outside services | - |
| Renderer, displays, HTTP routing, web UI | - | HTML, images, JSON | presentation | - |
| Other edge clients (`client/ear`, `eink-node`, `ember`, `remote`, `deploy/`) | device state | programs of their own | devices | - |

How they interact: a request changes a coordinator, which writes the hydration
state (a *sink*) and publishes an event through the hub; the SSE handler of each
display subscribes, sends it the hydration state or what it missed, and then the
live events. A configuration reload or a layout edit is dispatched to the hub,
which calls the rotation and provider coordinators and broadcasts. A voice turn
drives the HUD coordinator and the chat log; a change of the chat log pushes
widget data through the provider coordinator. Workers of the provider coordinator
call the photo, task and Home Assistant providers; displays act on the latter
through the HTTP server, which asks the coordinator for a refresh. The cast
watcher triggers and dismisses the stream "chromecast" of the video coordinator.

`PROJECT.json` lists the hazards of this code line by line.

## 2. Modules

`MC*` modules instantiate a specification for TLC; `*Proofs` modules hold its
theorems. An operator named `X_Fault`, introduced by a comment "Fault:", is a
wrong version of `X` that no specification uses: it says which mistake the
properties would notice.

| Module | Models | State and actions |
|---|---|---|
| `VideoCoordinator` | `video/coordinator.go`, `server/video.go` | one variable per field; `timers` maps ids to timer numbers, `armed` are timers counting down, `fired` are callbacks that wait for the mutex, `inflight` are snapshots on their way to `publishState`. One action per operation. The history variables `latest` and `lost` say whether what was published last is what the last change left. |
| `RotationCoordinator` | `rotation/coordinator.go`, `rotation/handler.go` | the fields, with both generations; `rotateFired`, `pauseFired` are callbacks that wait for the mutex. Everything happens under the mutex, so publishing is part of the action. |
| `EventHub` | `events/hub.go`, `handler.go`, `hydration.go`, the use of `ring.go` | a publisher goes through `Publish`, `RingAdd`, `SyncState`, `CopySubscribers`, `TrySend`, `Evict`, `Published`; a connection through `Connect`, `Replay` or `Hydrate`/`HydrateKey`, `DeliverInitial`, `DeliverLive`. `Restart` loses everything but the clients; `Forget` is a subscription that ends, of which an eviction under way knows nothing more. Any publisher may publish any key, several of them one key at once; the history variables `overlapped` and `raced` say which publications overlapped. |
| `EventLog`, `EventRing` | `events/ring.go` | the abstract log of at most `Capacity` events, and the circular array with `head` and `count`; `ReplaySince` is translated index by index, its loop as the recursive function `result`. |
| `VoiceCoordinator`, `VoiceTurn` | `voice/coordinator.go`; `voice/hub.go` and `hub_turn.go` on top of it | the HUD with its watchdogs (`running`, `fired`, `resetting`); the stages of one turn, every way each can fail, and the deferred functions in their order. `transcript` is what was understood, possibly nothing; `Stall` and `Resume` are the other end of a call without a deadline (the read from a Wyoming server, an event to the node) that stops answering and goes on. |
| `ProviderCoordinator` | `provider/coordinator.go`, `cache.go`, `DiffConfigs`, the chat-log hook of `cmd/server/main.go` | workers as records with their program counter and forwarder; `act` are the pushing goroutines; `lock` and `readers` are the RWMutex, with Go's rule that a waiting writer keeps new readers out; `ops` is what a reload has still to do, `stopping` the worker it waits for. |
| `ConfigManager` | `config/lkgc.go`, `override.go`, `cmd/server/main.go` and `reloader.go`, `events/dispatcher.go`, `server/layout_editor.go` | files on disk, the manager's fields, what rotation, provider and pages were last given, the reloader's hashes and the view cache; a package is its content, so that one may be changed and changed back, and a view is compiled from where the running snapshot found the package; the SIGHUP goroutine and each editor request have a program counter. A step is a section under `reloadMu`, a file operation or one call of a dispatch. |
| `LayoutSolver`, `LayoutEditor` | `layout/solver.go`, `config/override.go`; `server/layout_editor.go`, `config/lkgc.go` | the solver and the application of a drawing as operators (partition, placement of pinned widgets, exact cover in configured order and by size under node ceilings, automatic slots, compaction of screens); the life of a layout: boot, save, reset, reload. |
| `PhotoDeck`, `PhotosProvider` | `provider/photos.go`, `photos_cache.go` | deduplication, days, shuffles and windows as operators; albums in memory and on disk, upstream, and the two threads, with `sync` the synchronisation that holds `syncMu`: scrape, pages and lookups of locations, of which any may fail, storing the album, writing the cache. `StoreFull` takes what the pages up to the failing one had, `LookedUp` what the batches of lookups up to the failing one gave; `outdated` are the albums whose last write of the cache failed. |
| `TaskList`, `WidgetActions` | `tasks/model.go`, `tasks/adapters`; `provider/tasks.go`, `home_assistant.go`, `backoff.go`, the matching parts of `coordinator.go`, `server/lists.go`, `ha_action.go` | merging, ordering and truncating lists as operators, with `Pick` for the loops that gather elements of a list and `OrderTasks` and `BuildSnapshot` as the sets of their possible results (of which `OrderTasks` has one; completion times are left out, so any of the completed items may be the latest); upstream, the providers made so far with their tokens, the request each user or the worker is in (`rq`), the worker with what it has read so far, and the refresh channel. A Google Tasks provider may be made without any token (`HasToken`), in which case it fails for good. `RefreshWidget` looks the worker up and sends in one step, which the code does in two: a worker that is replaced in between has a successor that fetches anyway. |
| `CastWatcher` | `client/cast-watcher/client.go`, `server.go` | the Chromecast (external), the socket and what is unread of it, the watcher's belief and what it has reported, the dispatch queue with its overflow, the post under way, and Core's stream. |

What is abstracted: stream metadata, titles, transcripts and all wording; the
data of a widget is the domain configuration it was made for, who made it and its
status; the value of an event is its id; photos and tasks are numbers; a
configuration text is whether it is accepted, which widget types it uses and what
the dispatch compares; outside services answer, fail, or carry out a request whose
answer is lost. `JSON` encoding of these values cannot fail in the code and is
left out. `ProviderCoordinator` leaves out the status map of all widgets, which
`syncStateSink` and `UpdateConfig` copy to the hydration state in a second write
(`coordinator.go:675`, `318`), so that two writers may leave the older map there, and
the goroutine that runs a provider's `Subscribe`, for which `stopWorkerLocked` also
waits (`coordinator.go:527`): it returns at once except for the photos provider's,
which selects on the worker's context wherever it waits (`photos.go:632`, `678`). In
`VideoCoordinator` and `CastWatcher` positions are left out, in
`ConfigManager` an override is known by the texts it fits, while `LayoutEditor`
has real drawings but does one operation at a time.

## 3. Runs

All runs hold.

| Run | Question |
|---|---|
| `video` | Do stack, mute flags and countdowns stay together, do the displays follow unless a publication was lost, and does every temporary stream leave stack and displays? |
| `rotation` | Is the screen always one of the layout and published, do the right timers run, do late callbacks stay without effect, do pauses end and rotations happen? |
| `events` | Does a client that connects, resumes, is evicted or survives a restart show the server's state, see nothing twice and catch up? While publications do not overlap; after a hydration, also when they do, for every key but those whose own publications raced. |
| `ring_refinement` | Is the circular array the log, and does `ReplaySince` return exactly what came after an id? |
| `voice` | Does a turn end on every path unless a call without a deadline keeps it waiting, with HUD, node and chat log agreeing, and does "speaking" always end? |
| `provider_reload` | Do cache, hydration state and displays agree on a polled widget when nobody is in the middle of an update, through every kind of reload? |
| `provider_push` | Can late fetches, queued pushes or push requests bring purged data back, and does every reload end? |
| `config` | Through signals, edits on disk, layout edits, resets and restarts in any order: does only accepted configuration run, is the override on the screen also on disk, do coordinators, pages, status and views follow, and is every signal dealt with? |
| `layout` | Are screens tiled, does the solver refuse only what cannot be tiled, do drawings survive reloads, does saving what is shown change nothing? |
| `photos` | Does the disk cache follow the albums through failing scrapes, pages and lookups, do the albums follow upstream, through restarts too, and is every day shown again and again? |
| `actions` | Are replies about an action true, is it never carried out twice, is no refresh lost, is a revoked token recovered from, do retries back off within their caps, and do displays converge to upstream? |
| `cast` | Does Core show what the watcher reported, and in the end what the Chromecast plays, through lost sockets, failed posts and restarts? |

### Bounds and why they are enough

* `video`: three streams fill both slots and have one more to push one out; two
  timers are enough for a stale callback beside its successor. One request at a
  time is under way between its critical section and its publication, beside any
  number of timer callbacks. The theorems of section 5 have no bound.
* `rotation`: three screens (first, middle, last), intervals and pauses off and
  on, six generations: three timers armed one after the other, the callback of
  each possibly still waiting.
* `events`: a ring of two and a channel of one overflow with three events, of one key
  or of two (the second event chooses), which tells a lost event from an overwritten
  one. Two goroutines publish, as a coordinator publishes after it has unlocked: both
  may publish the same key at once. One client, since clients share nothing but the
  ring and the hydration state, which they only read.
* `ring_refinement`: seven events through three slots wrap the index twice; the
  clock lets any suffix of the entries expire.
* `voice` (208,000 states): one streamed sentence and two watchdogs: one from the turn
  and one from its next caption or from a request that sets "speaking" too; one
  request beside the turn, which sets "idle" or "speaking".
* `provider_reload`: a polled widget with two domain configurations and a
  chat-log widget; two workers, that is one reload that restarts the polled one.
  `provider_push`: one widget, two workers, a channel of one, one push request.
  `CacheView` identifies states that differ only in what was sent to displays,
  which no guard, no property and no fairness condition of that run depends on.
* `config` (726,000 states): two accepted texts that differ in shell, in their use of
  a widget type and in whether edits are allowed, and a malformed one; an override
  that fits one of them; a package that hides one that comes with the server and one
  that is not there yet; one editor request beside the signal goroutine, two changes
  on disk: enough for an edit in the middle of a reload, a package that breaks and is
  repaired, and one that is changed, rendered and changed back between two scans.
* `layout`: all ways to fill a 6x2 screen with two to five widgets of seven
  shapes, with no or one pinned widget, under node ceilings of 6 and 60 (512 and
  the real budget in the code) that some of them reach and some do not; four
  configurations in both orientations, with spacers, are drawn on three times with
  a screen limit of two (16 in the code), so that the limit is met.
* `photos` (219,000 states): an album of up to three photos on two days, pages of one
  and a page limit of one beside the first page, so that a page is beyond the limit;
  lookups of locations in batches of one, so that two batches may end differently;
  windows of two from larger and smaller decks; one change upstream, one fault, one
  restart and one push, in any order.
* `actions` (687,000 states): two displays, three items of which one is a subtask and
  one is created meanwhile, one item to a page, five configurations over the three
  services, two of them without a token; one fault (failed request, lost answer or
  revoked token) and one reload or change by others. Once a fetch has failed the next
  ones may fail too (`Outage`), up to three in a row: with an interval of 20, a first
  delay of 5 and a cap of 18, the delays are 5, 10 and the cap, which the jitter may
  lift to the interval, and the count stops there, as the delay no longer changes. Two
  users and the worker are three holders of one token.
* `cast`: an app beside the default player, two media sessions, a queue of one
  that overflows, two wake requests, two changes by the user and one fault.

Deadlock is checked except where the behaviour really ends: `video` and
`rotation` after Close and Stop, `ring_refinement` at its bounds, `layout` after
the boot of a refused configuration or the last edit, `actions` with a widget
that got no provider and therefore has no worker.

### Fairness

Timers run out; a goroutine that waits for a mutex gets it (Go's mutexes hand
over to a waiter that starves, which is strong fairness of the steps that take
`reloadMu` and `syncMu`); a goroutine that is not blocked goes on. These are weak
fairness of the timer, callback, publication and worker actions, per goroutine
where another one could otherwise be served in its place for ever. An
`EventSource` reconnects by itself, the cast watcher's supervisor dials again and
its watchdog closes a silent socket. `Fetch`, requests to task services and Home
Assistant and posts to Core return because the code gives them timeouts. The stages of
a voice turn do with exceptions. The read from a Wyoming speech-to-text server
(`hub.go:808`) and the writes of events to the node, whose deadlines
`server/voice.go:160` clears, have none: nothing is assumed of `Stall` and `Resume`, no
step of a turn is fair while it is stalled, and `TurnEnds` says that turns end if the
other end does not keep them waiting for good. And every status or sentence restarts
the brain's inactivity timeout, so that a brain does not send statuses for ever is an
assumption about the outside (strong fairness of `TurnStep`, without which `TurnEnds`
fails). Requests, reloads, pushes, edits, faults, shutdown and restarts
are never assumed to happen; faults and changes by others are bounded, so that
`Converges`, `CatchesUp` and `Follows` say what happens after the last one.
`Follows` also takes from the outside that a Chromecast keeps sending its status
while an app runs.

## 4. Disagreements found

Places where the code does something other than its comments, tests or sense
suggest, met while modelling. The models do what the code does; where a property
would otherwise be false, it says in its definition what it leaves out.

* `video/coordinator.go:401`: `handleTimerExpired` looks the stream up by its id
  only, so the callback of a countdown that was stopped or replaced after it fired
  removes whatever now runs under the id, a persistent stream too, although
  `video/model.go:11` says that such a stream "remains active until stopped".
* `video/coordinator.go:402`: `c.pip, snap, shouldPublish = nil,
  c.snapshotLocked(), true` evaluates the snapshot before `pip` is cleared; every
  display shows the timed-out picture-in-picture until the next video event,
  although `video/model.go:13` says that temporary streams auto-dismiss.
  `coordinator.go:92`: snapshots are published after unlocking, so one may overtake
  a newer one and stay. `DisplaysFollow` and `AutoDismiss` say that displays are left
  behind in these two ways only (`lost`); the stack itself is not affected.
* `voice/hub.go:148`: an empty question is not logged, and a recording in which nothing
  was understood is not an error (`hub.go:835`), so the conversation may hold an answer
  without its question. `hub.go:808`, `server/voice.go:160`: a server or node that stops
  without closing its connection leaves the hub busy.
* `voice/coordinator.go:162`: the mutex is released between the watchdog's check
  and its `Reset`, so a state set in between is reset to idle.
* `events/hub.go:164`: of two overlapping publications, ring order and channel
  order may differ; a client that then resumes is not sent an event that is before
  its last one in the ring (`overlapped`). Of two that are of one key, as the
  coordinators publish after unlocking, hydration state and channels may get the
  values in opposite orders (`raced`). `ViewCurrent`, `NoRepeat` and `Converges` say
  what holds in spite of this.
* `provider/coordinator.go:277`: `PushUpdate` does not ask whether the chat-log
  widget still exists and can recreate what a reload purged; a push may also run
  between the record, sync and broadcast of a fetch and leave displays with the
  older data. `PurgedStaysPurged` is therefore about widgets with a provider, and
  `provider_reload` has no pushes to the widget `SinkAgrees` is about.
* `server/layout_editor.go:105`: dispatches are not ordered by the manager's lock;
  of two that overlap the coordinators may keep the older snapshot (`alone`).
  `config/override.go:402`: a reset whose configuration is then refused leaves the
  override on the screen without its file (`resetFailed`).
* `config/lkgc.go:225`: a reload forgets package errors that the asset reloader
  does not report again, so a second signal with a package still broken shows
  "ok". `cmd/server/reloader.go:203`: a view is dropped only if the package's hash
  differs from that of the last scan, so a view compiled in between from another
  content stays: of a package that was changed and changed back, or one that a text
  which was then rejected had removed from where the running configuration found it
  (`unhashed`, in `AssetsFresh`).
* `deploy/examples/config.yaml:31` offers a portrait grid of 2x6; `config.go:286`
  accepts 6x2 and 3x6 only. The solver says "cannot geometrically tile" also when
  only its node budget was used up. Configured spacers, and screens that hold
  nothing else, are gone once the editor saves; a layout of more than 16 screens
  cannot be saved; a drawing that does not suit a new configuration is not used,
  without a word to the editor, but stays in its file.
* `provider/coordinator.go:230`: completing a list item whose widget lost its
  worker meanwhile is answered with 500 although it was done; a service call in
  the same situation only logs. Todoist's active and completed tasks are read one
  after the other: a task reopened in between is missing, one completed in between
  shows as open, until the next fetch.
* `provider/photos_cache.go:390`: a full synchronisation that breaks off drops
  the photos of the later pages until the next full one; reaching the page limit
  counts as complete. `photos.go:264` shows several photos of one day if a snapshot
  is taken before the deck is dealt for the first time. Pushed photos are lost in a
  restart.
* `client/cast-watcher/client.go:219`: a dismissal that fails is not tried again,
  and neither is one a restarted watcher does not know of (`orphaned`); nobody
  notices that Core dropped the stream (`dropped`). `client.go:772`: the overflow of
  the dispatch channel is posted out of order (`reordered`). `client.go:491`: after a
  reconnection to the same app no CONNECT is sent, so its media status is not
  received. The STOP of a wake pulse ends whatever app was started during it.

## 5. Proofs

All theorems are about every value of the constants: any number of streams,
publishers, clients, workers, pushers, requests, texts and timers, any capacity.
They rest on the named assumptions of the specifications alone, which say what
kind of thing a constant is: bounds and intervals are natural numbers, capacities
are positive, a value that stands for "none" is none of the others (`NONE` in
`ConfigManager` also no request), no user is called like the worker
(`UsersAssumption`), there are finitely many keys (`KeysAssumption`), tasks are a
forest (`ParentAssumption`), dashboards show items of the home
(`DashboardsAssumption`), and intervals, which the code has in nanoseconds, are more
than one of their unit (`IntervalAssumption`). Bounds on timers, workers, events and
changes only occur in guards; the one on failures, at which the count stops, is
arbitrary. Two theorems have a hypothesis of their own, below: `SinkAlwaysAgrees` and
`ListsSound`; the instances of `provider_reload` and `actions` satisfy them.

In each module `Inv` (or `IInv`) is the inductive invariant, `Invariance` proves
`Spec => []Inv` from one lemma per action, or per group of actions that touch the
same state, and the properties follow.

* `VideoCoordinatorProofs`. `IInv` is `TypeOK`, `StackConsistent`,
  `CountdownIffTemporary` and `CountdownRuns` together. None of the three is
  inductive alone: a countdown belongs to one stream only because no stream is in
  both slots, and the published snapshots are consistent only because the stack
  they were taken from was. `RetimeFacts` says what stopping and starting timers
  does to the map, and `CountdownPointwise` turns the equality of sets into a
  statement per stream. `VideoTypeOK`, `VideoStackConsistent` and
  `VideoCountdowns` follow. `VideoDisplaysFollow` adds to the invariant that the
  snapshot of the last change is published or on its way unless `lost`.
* `RotationCoordinatorProofs`. The properties are not inductive because a waiting
  callback could carry the generation that a timer is about to get. `RotInv` and
  `PauseInv` add that no waiting callback has a generation that was not handed out
  yet, that a timer held has the current one, and that a running timer's callback
  does not wait; `ScreenInv` relates screen, layout and publication.
  `RotationTypeOK`, `RotationScreenInRange`, `RotationIsArmed`,
  `RotationTimedPause` and `RotationPublished` follow, and `RotationFullInterval`
  proves the action property `FullIntervalAfterRequest` from
  `lastRequest < timerGen`.
* `EventRingProofs`. `SlotIndex` takes the remainders out of the index arithmetic
  of `Add` and `ReplaySince`; with it `Refinement` shows that the circular array
  implements `EventLog`, whatever the capacity and however often the index wraps.
  `Chronology` adds to the types that the counted entries are different ids in the
  order of their times, without which a cutoff could leave a hole. `Exactness`
  is `ReplayExact`: for every id, the answer of the code's loop is the events after
  it that have not expired, or a miss. The loop is a recursive function; what it has
  gathered after each turn is shown by taking the first turn at which it would not
  be so (`WFMin`), which needs no induction scheme.
* `VoiceTurnProofs`. `HudInv` is the coordinator's part: `WatchdogGuardsSpeaking` is
  inductive with the types, whoever calls `updateState` and whichever callbacks are
  on their way. `TurnInv` adds `StageFacts`, what each stage of a turn has already
  told the HUD, the node and the conversation, the question of a turn that understood
  nothing excepted; `OutcomeShown`, which is about the end of a turn only, could not be
  kept without it.
* `ProviderCoordinatorProofs`. The argument is about who can still write for a
  widget. A worker is `Live` until it is stopped and has finished recording; a
  widget has at most one live worker (`WorkersInv`), it works for the present
  configuration (`WorkersCurrent`) and so does the cache (`CacheCurrent`), unless
  the reload in progress has yet to purge the widget, which it does only after
  the worker's end. `PurgedNeverReturns` follows for all pushers, queued pushes and
  late fetches. `SinkAlwaysAgrees` assumes `NoPushes`: with a push the claim is false
  (section 4). Then nobody comes between record, sync and broadcast of a worker
  (`MidwayInOrder`, `RestAgrees`).
* `ConfigManagerProofs`. Layers, each inductive given the ones before it: what a
  process carries at each step (`Shape`); disk and snapshot differ only while a
  request that stored its file holds the lock (`GoodInv`, for `LastKnownGood`); a
  dispatch that nobody overlapped carries the running snapshot (`AloneInv`) and what
  the signal goroutine has yet to show (`ShownInv`, both for `ConsumersInStep`); a
  compiled view is of the content that the reloader saw at its last scan, unless it
  is one the reloader never noticed, and after a scan of a quiet disk that content is
  the one on disk (`AssetsInv`, for `AssetsFresh`).
* `WidgetActionsProofs`, in three parts.

  The replies: `ReplyTruthful` holds because a request that may be made again has not
  been carried out (`Stage`), and because a second attempt is refused only if the
  token was revoked meanwhile (`Token`), for any number of users, faults and reloads.

  The lists: `Picked` says that a loop that gathers elements keeps their order and
  takes each once, `PathFacts` that an item stands right after its parent's ancestors
  in the tree, both for recursive functions, by taking the first round (or the
  shallowest item) for which it would not be so. From them `OrderFacts`, `MergeFacts`
  and `SnapshotFacts`: whatever was read, what `OrderTasks`, `Merge` and
  `BuildSnapshot` return has every item once and no subtask before its parent, and
  nothing that was not read. `GrownFacts` does the same for the doubling of the
  backoff.

  The worker: `WInv` says that the worker asks the configured provider and is at a step
  of its kind of upstream, what a fetch has gathered at this step (`Got`), and that what
  is shown was ordered by an adapter; `RetryBounded` and `ListSound` follow. `RInv` is
  what makes `RefreshNotLost` inductive: of an item whose action was answered with 200,
  and that nobody has changed since, either a refresh is queued, or the fetch under way
  has read nothing else than the new state, or the worker waits and the item is not
  shown otherwise, or the widget is failing (`Right`). It is not enough to look at what
  is shown, as `RefreshNotLost` does: a fetch that began before the action may already
  hold the old state, and shows it later. Each step of the worker is one of six kinds
  (`Passes`), each step of a display changes only its own request, its item and the
  refresh queue (`Beside`), and `RightKept` goes through the six.

  `TaskListsSound` is unconditional. `ListsSound` includes Home Assistant and assumes
  `OwnCards`, that no dashboard has two cards of an entity, since the code keeps the
  cards of a view as they are. `Typing` is `TypeOK`.
* `EventHubProofs`. Three layers. `Basics`: types, ids below the next one, only open
  subscribers are sent to, a hydration reads each key once. `Serial`, as long as no
  two publications have overlapped: ring, channel and replay are runs of consecutive
  ids; what is left of the replay and the channel together are the events after the
  last one received (`FollowInv`), their overlap is what `seenReplayIDs` skips, and a
  client shows the state as of its last event (`ViewInv`) or of what it has read
  (`FreshInv`). `KeysInv`, whatever overlaps and whoever publishes: what a hydrated
  connection has of a key that is not `raced` is the state's value unless an event of
  it is still to be sent to it. Two publications of one key under way at once make it
  raced (`SyncedInv`), and it stays so until one begins while no other is under way.
  That a hydration has read all keys when it has read as many as there are is where
  `KeysAssumption` is used. `ViewsCurrent` and the action property `NoRepeats` follow.

`TypeOK`, `CountdownRuns`, `ScreenInRange` and `TimedPauseEnds` of these modules are
proved where a theorem says so and therefore not repeated in the runs; elsewhere
`TypeOK` documents the state and holds on the instances of section 3 too.

Only model-checked:

* all liveness, which is out of the prover's reach, as is everything else under
  fairness;
* `LayoutSolver` and `LayoutEditor`, which use recursive operators, about which the
  prover can show nothing;
* `PhotosProvider`, whose decks and windows are sequences built by folds;
* `CoreAgrees` of `CastWatcher`, whose invariant has to say, for every message that is
  still queued, what Core will show once it has been posted.

## 6. Not modelled

* Presentation (renderer but for its cache of compiled views, displays, web UI),
  HTTP routing, decoding and schema validation, logging and metrics: no state of
  their own that outlives a request.
* The audio coordinator: two fields set under a mutex and published after it. Its
  one hazard, publications in the opposite order, is the one of the video
  coordinator.
* The header weather poller and the calendar, weather and other polled providers:
  a request and the conversion of its answer; the coordinator sees a fetch that
  succeeds or fails.
* The pruning of the chat log and the brain's `inactivityContext`, of which
  `VoiceTurn` has the outcome only.
* Scraping and parsing of Google's pages, colours and captions of photos; the
  tables of Home Assistant domains and attributes; the parser of the configuration
  beyond accepting or rejecting a text.
* The other edge programs, which use the server through the endpoints modelled
  here and are programs of their own in Python, Kotlin and shell.

## 7. Plan

Proofs:

1. `CoreAgrees` of `CastWatcher`: the state of Core after the queue, as a recursive
   function over it, in the manner of `Picked`.
2. `DiskFollows` and `OnePhotoPerSlot` of `PhotosProvider`: its folds as such loops.

Models, if any: the chat log's pruning, and the audio coordinator and the header
poller as publishers composed with `EventHub`.
