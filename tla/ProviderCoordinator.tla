------------------------ MODULE ProviderCoordinator -------------------------
(***************************************************************************)
(* Widget data: internal/provider/coordinator.go with its                  *)
(* stale-while-revalidate cache (cache.go).                                *)
(*                                                                         *)
(* Every configured widget has a worker goroutine that fetches, records    *)
(* into the cache, copies the result to the hydration state (the sink) and *)
(* broadcasts it, without holding the coordinator's lock.  Providers may   *)
(* also push through a per-worker forwarder, a shared channel and one      *)
(* listener; HTTP requests push directly; the chat log pushes without any  *)
(* lock.  A configuration reload holds the write lock while it stops,      *)
(* purges and restarts workers, and waits for each of them to end.         *)
(*                                                                         *)
(* Data is told apart by the domain configuration it was made for and by   *)
(* who made it.                                                            *)
(*                                                                         *)
(* Left out: the status map of all widgets, which the code copies to the   *)
(* hydration state in a second write of its own lock after each of these   *)
(* (SetProvidersStatus), so that two writers may leave the older map; and  *)
(* the goroutine of a worker that runs the provider's Subscribe, for which *)
(* stopping the worker also waits.  It returns at once but for the photos  *)
(* provider, which selects on the worker's context wherever it waits.      *)
(***************************************************************************)
EXTENDS Integers, Sequences, FiniteSets

CONSTANTS
    Widgets,
    ChatWidgets,  \* widgets without a worker, fed by the chat log
    Pushers,      \* POST /api/widgets/{id}/push requests in progress at once
    Subscribing,  \* whether providers push by themselves
    SinkCapacity, \* capacity of eventSink
    Configs,      \* configurations: widget -> domain configuration, 0 is "not configured"
    MaxGen,       \* bound: workers started in one behaviour
    NoEntry       \* no data

ASSUME ChatAssumption == ChatWidgets \subseteq Widgets
ASSUME SinkAssumption == SinkCapacity \in Nat \ {0} /\ Subscribing \in BOOLEAN
ASSUME ConfigsAssumption == Configs \subseteq [Widgets -> Nat] /\ Configs # {}
ASSUME BoundsAssumption == MaxGen \in Nat

VARIABLES
    managed,    \* the configuration manager's snapshot
    pending,    \* it has not reached the coordinator yet
    domain,     \* the coordinator's snapshot: domain configuration per widget
    ops,        \* what a reload in progress has still to do, per widget
    lock,       \* the write lock, for UpdateConfig: "free", "wanted" or "held"
    stopping,   \* the worker it is waiting for, 0 if none
    readers,    \* goroutines that hold the read lock
    stopped,    \* Shutdown has been called
    workers,    \* the workers map: widget -> worker, 0 if absent
    wk,         \* all workers ever started
    eventSink,  \* pushes on their way to the listener: workers
    act,        \* the other goroutines that push
    cache, sink, wire  \* per widget: cache entry, hydration state, last broadcast

configVars == <<managed, pending, domain, ops, lock, stopping>>
dataVars == <<cache, sink, wire>>
vars == <<configVars, readers, stopped, workers, wk, eventSink, act, dataVars>>

Domains == UNION {{conf[w] : w \in Widgets} : conf \in Configs}
Gens == 1..MaxGen
Actors == Pushers \cup {"listener", "chat"}
NoWorker == [pc |-> "none"]
IdleActor == [pc |-> "idle"]

-----------------------------------------------------------------------------
(* The cache.                                                              *)

\* RecordSuccess and RecordPush.
Success(d, src) == [dom |-> d, src |-> src, st |-> "healthy"]

\* RecordFailure: last known good data stays, as degraded; without any the
\* entry is an empty one in error.
Failure(old, d) ==
    IF old # NoEntry /\ old.src # "empty" THEN [old EXCEPT !.st = "degraded"]
    ELSE [dom |-> d, src |-> "empty", st |-> "error"]

\* Fault: the first result of a widget is no transition.
Transitioned_NotFirst(old, new) == old # NoEntry /\ old.st # new.st

Transitioned(old, new) == old = NoEntry \/ old.st # new.st

-----------------------------------------------------------------------------
(* Workers.                                                                *)

\* The worker of widget w for the domain configuration d, about to fetch.
NewWorker(w, d) ==
    [pc |-> "fetching", widget |-> w, dom |-> d, stopped |-> FALSE, fwd |-> "idle",
     payload |-> NoEntry, send |-> FALSE]

\* Worker identities are handed out in order.
Unused(g) == wk[g] = NoWorker /\ \A h \in 1..(g - 1) : wk[h] # NoWorker

\* startSingleWorkerLocked, where cache, sink and wire are <<c, s, b>> when it
\* begins.  A widget that needs no worker gets blank data; one whose provider
\* cannot be created or initialised shows a cold boot error.
StartWidget(w, d, c, s, b) ==
    LET show(entry) == /\ cache' = [c EXCEPT ![w] = entry]
                       /\ sink' = [s EXCEPT ![w] = entry]
                       /\ wire' = [b EXCEPT ![w] = entry]
                       /\ UNCHANGED <<workers, wk>>
    IN  \/ w \in ChatWidgets /\ show(Success(d, "blank"))
        \/ w \notin ChatWidgets /\ show(Failure(c[w], d))
        \/ /\ w \notin ChatWidgets
           /\ \E g \in Gens :
                /\ Unused(g)
                /\ workers' = [workers EXCEPT ![w] = g]
                /\ wk' = [wk EXCEPT ![g] = NewWorker(w, d)]
           /\ cache' = c
           /\ sink' = s
           /\ wire' = b

At(g, step) == wk[g].pc = step

\* Fault: a stopped worker's result is kept.
FetchReturns_Late(g, step) ==
    /\ At(g, "fetching")
    /\ wk' = [wk EXCEPT ![g].pc = step]
    /\ UNCHANGED <<configVars, readers, stopped, workers, eventSink, act, dataVars>>

\* Fetch returns; a result for a worker that was stopped is dropped, and the
\* worker's loop ends.
FetchReturns(g, step) ==
    /\ At(g, "fetching")
    /\ wk' = [wk EXCEPT ![g].pc = IF wk[g].stopped THEN "exited" ELSE step]
    /\ UNCHANGED <<configVars, readers, stopped, workers, eventSink, act, dataVars>>

\* The cache is updated under its own lock only.
RecordFetch(g) ==
    LET w == wk[g].widget
        new == IF At(g, "succeeded") THEN Success(wk[g].dom, "fetch") ELSE Failure(cache[w], wk[g].dom)
    IN  /\ At(g, "succeeded") \/ At(g, "failed")
        /\ cache' = [cache EXCEPT ![w] = new]
        /\ wk' = [wk EXCEPT ![g].pc = "sync", ![g].payload = new,
                            ![g].send = At(g, "succeeded") \/ Transitioned(cache[w], new)]
        /\ UNCHANGED <<configVars, readers, stopped, workers, eventSink, act, sink, wire>>

\* fetchAndRecord is over.
Rested(worker) == [worker EXCEPT !.pc = "waiting", !.payload = NoEntry, !.send = FALSE]

\* syncStateSink
SyncFetch(g) ==
    /\ At(g, "sync")
    /\ sink' = [sink EXCEPT ![wk[g].widget] = wk[g].payload]
    /\ wk' = [wk EXCEPT ![g] = IF wk[g].send THEN [@ EXCEPT !.pc = "send"] ELSE Rested(@)]
    /\ UNCHANGED <<configVars, readers, stopped, workers, eventSink, act, cache, wire>>

\* broadcastUpdate
BroadcastFetch(g) ==
    /\ At(g, "send")
    /\ wire' = [wire EXCEPT ![wk[g].widget] = wk[g].payload]
    /\ wk' = [wk EXCEPT ![g] = Rested(@)]
    /\ UNCHANGED <<configVars, readers, stopped, workers, eventSink, act, cache, sink>>

\* The poll timer or RefreshWidget wakes the worker; a stopped one ends.
Wake(g) ==
    /\ At(g, "waiting")
    /\ wk' = [wk EXCEPT ![g].pc = IF wk[g].stopped THEN "exited" ELSE "fetching"]
    /\ UNCHANGED <<configVars, readers, stopped, workers, eventSink, act, dataVars>>

\* The forwarder takes a push of its provider.
TakePush(g) ==
    /\ Subscribing
    /\ wk[g] # NoWorker
    /\ wk[g].fwd = "idle"
    /\ ~wk[g].stopped
    /\ wk' = [wk EXCEPT ![g].fwd = "holding"]
    /\ UNCHANGED <<configVars, readers, stopped, workers, eventSink, act, dataVars>>

\* ... and waits for room in eventSink or for the end of the worker.
ForwardPush(g) ==
    /\ wk[g] # NoWorker
    /\ wk[g].fwd = "holding"
    /\ Len(eventSink) < SinkCapacity
    /\ eventSink' = Append(eventSink, g)
    /\ wk' = [wk EXCEPT ![g].fwd = "idle"]
    /\ UNCHANGED <<configVars, readers, stopped, workers, act, dataVars>>

\* Fault: a forwarder that waits for room does not look at its context.
StopForwarder_WhenIdle(g) ==
    /\ wk[g] # NoWorker
    /\ wk[g].stopped
    /\ wk[g].fwd = "idle"
    /\ wk' = [wk EXCEPT ![g].fwd = "exited"]
    /\ UNCHANGED <<configVars, readers, stopped, workers, eventSink, act, dataVars>>

StopForwarder(g) ==
    /\ wk[g] # NoWorker
    /\ wk[g].stopped
    /\ wk[g].fwd # "exited"
    /\ wk' = [wk EXCEPT ![g].fwd = "exited"]
    /\ UNCHANGED <<configVars, readers, stopped, workers, eventSink, act, dataVars>>

-----------------------------------------------------------------------------
(* Pushes.                                                                 *)

Begin(a, entry, w, step) ==
    act' = [act EXCEPT ![a] = [pc |-> step, widget |-> w, payload |-> entry]]

\* recordPushLocked for a configured widget, up to the cache.
PushWidgetData(p, w) ==
    /\ act[p] = IdleActor
    /\ lock = "free"
    /\ ~stopped
    /\ domain[w] # 0
    /\ cache' = [cache EXCEPT ![w] = Success(domain[w], "post")]
    /\ readers' = readers \cup {p}
    /\ Begin(p, cache'[w], w, "sync")
    /\ UNCHANGED <<configVars, stopped, workers, wk, eventSink, sink, wire>>

\* listenEventSink takes a push out of the channel; recordWorkerPush drops it
\* if its worker is stopped, before it asks for the lock.
TakeEvent ==
    /\ act["listener"] = IdleActor
    /\ eventSink # <<>>
    /\ eventSink' = Tail(eventSink)
    /\ act' = IF wk[Head(eventSink)].stopped THEN act
              ELSE [act EXCEPT !["listener"] = [pc |-> "lock", gen |-> Head(eventSink)]]
    /\ UNCHANGED <<configVars, readers, stopped, workers, wk, dataVars>>

\* isWorkerActiveLocked: asked again under the lock.
IsWorkerActive(g) == ~wk[g].stopped /\ workers[wk[g].widget] = g

\* The rest of recordWorkerPush, up to the cache.
RecordWorkerPush ==
    /\ act["listener"].pc = "lock"
    /\ lock = "free"
    /\ LET g == act["listener"].gen
           w == wk[g].widget
       IN  IF IsWorkerActive(g)
           THEN /\ cache' = [cache EXCEPT ![w] = Success(wk[g].dom, "event")]
                /\ readers' = readers \cup {"listener"}
                /\ Begin("listener", cache'[w], w, "sync")
           ELSE /\ act' = [act EXCEPT !["listener"] = IdleActor]
                /\ UNCHANGED <<readers, cache>>
    /\ UNCHANGED <<configVars, stopped, workers, wk, eventSink, sink, wire>>

\* pushChatLogUpdates reads the snapshot for the chat-log widgets...
ChatChanged(w) ==
    /\ act["chat"] = IdleActor
    /\ w \in ChatWidgets
    /\ managed[w] # 0
    /\ Begin("chat", Success(managed[w], "chat"), w, "push")
    /\ UNCHANGED <<configVars, readers, stopped, workers, wk, eventSink, dataVars>>

\* ... and calls PushUpdate, which takes no lock of the coordinator.
PushUpdate ==
    /\ act["chat"].pc = "push"
    /\ cache' = [cache EXCEPT ![act["chat"].widget] = act["chat"].payload]
    /\ act' = [act EXCEPT !["chat"].pc = "sync"]
    /\ UNCHANGED <<configVars, readers, stopped, workers, wk, eventSink, sink, wire>>

\* syncStateSink, after which a reader lets go of the lock.
SyncPush(a) ==
    /\ act[a].pc = "sync"
    /\ sink' = [sink EXCEPT ![act[a].widget] = act[a].payload]
    /\ act' = [act EXCEPT ![a].pc = "send"]
    /\ readers' = readers \ {a}
    /\ UNCHANGED <<configVars, stopped, workers, wk, eventSink, cache, wire>>

BroadcastPush(a) ==
    /\ act[a].pc = "send"
    /\ wire' = [wire EXCEPT ![act[a].widget] = act[a].payload]
    /\ act' = [act EXCEPT ![a] = IdleActor]
    /\ UNCHANGED <<configVars, readers, stopped, workers, wk, eventSink, cache, sink>>

-----------------------------------------------------------------------------
(* Reloads.                                                                *)

\* The manager stores a new snapshot and dispatches it, one reload at a time.
\* The bound leaves a worker for every widget the reload may start.
Reload(new) ==
    /\ ~pending
    /\ stopped \/ Cardinality({g \in Gens : wk[g] = NoWorker}) >= Cardinality(Widgets \ ChatWidgets)
    /\ managed' = new
    /\ pending' = TRUE
    /\ UNCHANGED <<domain, ops, lock, stopping, readers, stopped, workers, wk, eventSink, act, dataVars>>

\* DiffConfigs, with the widgets in soft changed in ways that keep their domain.
Diff(old, new, soft, timezone) ==
    [w \in Widgets |->
       IF old[w] = 0 THEN IF new[w] = 0 THEN "none" ELSE "added"
       ELSE IF new[w] = 0 THEN "removed"
       ELSE IF old[w] # new[w] THEN "modified"
       ELSE IF w \in soft THEN "restart"
       ELSE IF timezone THEN "timezone" ELSE "none"]

\* UpdateConfig asks for the write lock, which keeps new readers out...
AwaitLock ==
    /\ pending
    /\ lock = "free"
    /\ lock' = "wanted"
    /\ UNCHANGED <<managed, pending, domain, ops, stopping, readers, stopped, workers, wk, eventSink, act, dataVars>>

\* ... and gets it when the readers have left; a stopped coordinator refuses.
BeginUpdate(soft, timezone) ==
    /\ lock = "wanted"
    /\ readers = {}
    /\ ~stopped
    /\ lock' = "held"
    /\ domain' = managed
    /\ ops' = Diff(domain, managed, soft, timezone)
    /\ UNCHANGED <<managed, pending, stopping, readers, stopped, workers, wk, eventSink, act, dataVars>>

RefuseUpdate ==
    /\ lock = "wanted"
    /\ readers = {}
    /\ stopped
    /\ lock' = "free"
    /\ pending' = FALSE
    /\ UNCHANGED <<managed, domain, ops, stopping, readers, stopped, workers, wk, eventSink, act, dataVars>>

\* Removed widgets first, then modified ones, unchanged ones, added ones.
Rank(op) == CASE op = "removed" -> 1 [] op = "modified" -> 2 [] op = "restart" -> 2
              [] op = "timezone" -> 3 [] op = "added" -> 4 [] OTHER -> 5
NextOp(w) ==
    /\ lock = "held"
    /\ ops[w] # "none"
    /\ \A v \in Widgets : Rank(ops[w]) <= Rank(ops[v])

\* stopWorkerLocked, up to the wait.
StopWorker(w) ==
    /\ NextOp(w)
    /\ stopping = 0
    /\ workers[w] # 0
    /\ stopping' = workers[w]
    /\ workers' = [workers EXCEPT ![w] = 0]
    /\ wk' = [wk EXCEPT ![workers[w]].stopped = TRUE]
    /\ UNCHANGED <<managed, pending, domain, ops, lock, readers, stopped, eventSink, act, dataVars>>

\* The worker ended, or three seconds went by while its Fetch does not
\* return; its forwarder has to end in any case.
StopWaited(g) == (At(g, "exited") \/ At(g, "fetching")) /\ wk[g].fwd = "exited"

\* Only a removed widget, a changed domain and a changed timezone empty the
\* cache; a changed domain is also shown to clients as empty and degraded.
Purges(op) == op \in {"removed", "modified", "timezone"}
ResetEntry(d) == [dom |-> d, src |-> "empty", st |-> "degraded"]

\* What is left to do for one widget, under the write lock.  No other goroutine
\* writes the data of a widget with a worker meanwhile; PushUpdate may write a
\* chat-log widget's before or after.
Reconcile(w) ==
    LET op == ops[w]
        c == IF Purges(op) THEN [cache EXCEPT ![w] = NoEntry] ELSE cache
        s == IF op = "modified" THEN [sink EXCEPT ![w] = ResetEntry(domain[w])] ELSE sink
        b == IF op = "modified" THEN [wire EXCEPT ![w] = ResetEntry(domain[w])] ELSE wire
    IN  /\ NextOp(w)
        /\ workers[w] = 0
        /\ stopping # 0 => StopWaited(stopping)
        /\ stopping' = 0
        /\ ops' = [ops EXCEPT ![w] = "none"]
        /\ \/ /\ op = "removed"
              /\ cache' = c
              /\ UNCHANGED <<workers, wk, sink, wire>>
           \/ /\ op # "removed"
              /\ StartWidget(w, domain[w], c, s, b)
        /\ UNCHANGED <<managed, pending, domain, lock, readers, stopped, eventSink, act>>

EndUpdate ==
    /\ lock = "held"
    /\ \A w \in Widgets : ops[w] = "none"
    /\ lock' = "free"
    /\ pending' = FALSE
    /\ UNCHANGED <<managed, domain, ops, stopping, readers, stopped, workers, wk, eventSink, act, dataVars>>

\* Shutdown, up to where it waits for the workers it stopped.
Shutdown ==
    /\ ~stopped
    /\ lock # "held"
    /\ readers = {}
    /\ stopped' = TRUE
    /\ workers' = [w \in Widgets |-> 0]
    /\ wk' = [g \in Gens |-> IF \E w \in Widgets : workers[w] = g
                             THEN [wk[g] EXCEPT !.stopped = TRUE] ELSE wk[g]]
    /\ UNCHANGED <<configVars, readers, eventSink, act, dataVars>>

-----------------------------------------------------------------------------

\* NewCoordinator starts the workers of its first snapshot the way a reload
\* starts added ones.
Init ==
    /\ managed \in Configs
    /\ domain = managed
    /\ ops = Diff([w \in Widgets |-> 0], managed, {}, FALSE)
    /\ lock = "held"
    /\ pending = TRUE
    /\ stopping = 0
    /\ readers = {}
    /\ stopped = FALSE
    /\ workers = [w \in Widgets |-> 0]
    /\ wk = [g \in Gens |-> NoWorker]
    /\ eventSink = <<>>
    /\ act = [a \in Actors |-> IdleActor]
    /\ cache = [w \in Widgets |-> NoEntry]
    /\ sink = cache
    /\ wire = cache

WorkerStep(g) ==
    \/ FetchReturns(g, "succeeded")
    \/ FetchReturns(g, "failed")
    \/ RecordFetch(g)
    \/ SyncFetch(g)
    \/ BroadcastFetch(g)
    \/ Wake(g)

UpdateStep ==
    \/ \E w \in Widgets : StopWorker(w) \/ Reconcile(w)
    \/ AwaitLock
    \/ \E soft \in SUBSET Widgets, timezone \in BOOLEAN : BeginUpdate(soft, timezone)
    \/ EndUpdate
    \/ RefuseUpdate

Next ==
    \/ \E g \in Gens : WorkerStep(g) \/ TakePush(g) \/ ForwardPush(g) \/ StopForwarder(g)
    \/ \E p \in Pushers, w \in Widgets : PushWidgetData(p, w)
    \/ TakeEvent
    \/ RecordWorkerPush
    \/ \E w \in Widgets : ChatChanged(w)
    \/ PushUpdate
    \/ \E a \in Actors : SyncPush(a) \/ BroadcastPush(a)
    \/ \E new \in Configs : Reload(new)
    \/ UpdateStep
    \/ Shutdown

Spec == Init /\ [][Next]_vars

\* Goroutines that can run do run, and Fetch ends because of its 30 s
\* timeout.  Requests, pushes, reloads and shutdown are up to the environment.
Fairness ==
    /\ \A g \in Gens : WF_vars(WorkerStep(g)) /\ WF_vars(StopForwarder(g))
    /\ \A a \in Actors : WF_vars(SyncPush(a))
    /\ WF_vars(UpdateStep)

FairSpec == Spec /\ Fairness

-----------------------------------------------------------------------------
(* Properties.                                                             *)

Entries == [dom : Domains, src : {"fetch", "post", "event", "chat", "blank", "empty"},
            st : {"healthy", "degraded", "error"}]

\* The shape of the state, and the lock: no reader while a reload holds it, and
\* only workers of configured widgets are in the map (coordinator.go:71-91).
TypeOK ==
    /\ managed \in Configs /\ domain \in Configs
    /\ \A f \in {cache, sink, wire} : f \in [Widgets -> Entries \cup {NoEntry}]
    /\ stopping \in 0..MaxGen
    /\ readers \subseteq Actors
    /\ lock = "held" => readers = {}
    /\ Len(eventSink) <= SinkCapacity
    /\ \A w \in Widgets : workers[w] # 0 =>
          /\ wk[workers[w]].widget = w
          /\ ~wk[workers[w]].stopped
          /\ domain[w] # 0 \/ ops[w] = "removed"

\* Once a reload is done, the cache holds nothing fetched or pushed for an
\* earlier configuration of a widget, removed or not: no late fetch, no queued
\* push and no push request brings a purged entry back (UpdateConfig,
\* fetchAndRecord, recordWorkerPush, recordPushLocked).
PurgedStaysPurged ==
    lock # "held" => \A w \in Widgets \ ChatWidgets :
        cache[w] # NoEntry => domain[w] # 0 /\ cache[w].dom = domain[w]

Quiet ==
    /\ lock # "held"
    /\ act = [a \in Actors |-> IdleActor]
    /\ eventSink = <<>>
    /\ \A g \in Gens : wk[g].pc \in {"none", "fetching", "waiting", "exited"}

\* When nobody is in the middle of an update, what the clients were last told
\* and what a new client is given of a polled widget are what the cache holds: record, sync and
\* broadcast end in the same order as they began (syncAndBroadcast).
SinkAgrees ==
    Quiet => \A w \in Widgets \ ChatWidgets : cache[w] # NoEntry => sink[w] = cache[w] /\ wire[w] = cache[w]

\* Every reload that is dispatched ends, although it waits under the write lock
\* for workers and forwarders that may themselves wait for the listener, and
\* the listener for the lock (stopWorkerLocked).
UpdateCompletes == pending ~> ~pending
=============================================================================
