--------------------- MODULE ProviderCoordinatorProofs ----------------------
(***************************************************************************)
(* Proofs about the widget data coordinator, for every set of widgets, of  *)
(* pushers and of configurations and every number of workers.              *)
(*                                                                         *)
(* The argument is about who can still write for a widget.  A worker is    *)
(* live while it has not been stopped or is in the middle of recording a   *)
(* result; a widget has at most one live worker, and a live worker works   *)
(* for the present domain configuration of its widget unless the reload    *)
(* that changed it has yet to purge that widget, which it does only after  *)
(* the worker's end.                                                       *)
(***************************************************************************)
EXTENDS ProviderCoordinator, SequenceTheorems, TLAPS

-----------------------------------------------------------------------------
(* The inductive invariant.                                                *)

Polled == Widgets \ ChatWidgets
EntriesOrNone == Entries \cup {NoEntry}
Operations == {"none", "added", "removed", "modified", "restart", "timezone"}

WorkerRecs ==
    [pc: {"fetching", "succeeded", "failed", "sync", "send", "waiting", "exited"},
     widget: Polled, dom: Domains, stopped: BOOLEAN, fwd: {"idle", "holding", "exited"},
     payload: EntriesOrNone, send: BOOLEAN]

ActorRecs ==
    [pc: {"idle"}] \cup [pc: {"lock"}, gen: Gens]
      \cup [pc: {"push", "sync", "send"}, widget: Widgets, payload: Entries]

Types ==
    /\ managed \in Configs
    /\ domain \in Configs
    /\ ops \in [Widgets -> Operations]
    /\ lock \in {"free", "wanted", "held"}
    /\ stopping \in 0..MaxGen
    /\ readers \subseteq Actors
    /\ stopped \in BOOLEAN
    /\ workers \in [Widgets -> 0..MaxGen]
    /\ wk \in [Gens -> WorkerRecs \cup {NoWorker}]
    /\ eventSink \in Seq(Gens) /\ Len(eventSink) <= SinkCapacity
    /\ act \in [Actors -> ActorRecs]
    /\ cache \in [Widgets -> EntriesOrNone]
    /\ sink \in [Widgets -> EntriesOrNone]
    /\ wire \in [Widgets -> EntriesOrNone]

\* The write lock, and what a reload has still to do.
LockInv ==
    /\ lock = "held" => readers = {} /\ ~stopped
    /\ lock # "held" => \A w \in Widgets : ops[w] = "none"
    /\ \A w \in Widgets : ops[w] = "removed" => domain[w] = 0
    /\ \A w \in Widgets : ops[w] \notin {"none", "removed"} => domain[w] # 0

Busy == {"succeeded", "failed", "sync", "send"}
Started(g) == wk[g] # NoWorker
Live(g) == Started(g) /\ (~wk[g].stopped \/ wk[g].pc \in Busy)

\* The workers map holds the workers that are not stopped; a stopped one that
\* is still busy is waited for, unless the coordinator is shut down; and no
\* two live workers have the same widget.
WorkersInv ==
    /\ \A w \in Widgets : workers[w] # 0 =>
         Started(workers[w]) /\ wk[workers[w]].widget = w /\ ~wk[workers[w]].stopped
    /\ \A g \in Gens : Started(g) /\ ~wk[g].stopped => workers[wk[g].widget] = g
    /\ \A g \in Gens : Live(g) /\ wk[g].stopped => stopping = g \/ stopped
    /\ \A g, h \in Gens : Live(g) /\ Live(h) /\ wk[g].widget = wk[h].widget => g = h

\* Queued pushes come from workers.
QueueInv ==
    /\ \A i \in 1..Len(eventSink) : Started(eventSink[i])
    /\ \A a \in Actors : act[a].pc = "lock" => Started(act[a].gen)
    /\ act["chat"].pc = "push" => act["chat"].widget \in ChatWidgets

\* No purge of the widget's data is due.
Settled(w) == ops[w] \notin {"removed", "modified"}

\* Live workers belong to the present configuration...
WorkersCurrent ==
    \A g \in Gens : Live(g) /\ Settled(wk[g].widget) =>
        domain[wk[g].widget] # 0 /\ wk[g].dom = domain[wk[g].widget]

\* ... and so does the cache.
CacheCurrent ==
    \A w \in Polled : Settled(w) /\ cache[w] # NoEntry =>
        domain[w] # 0 /\ cache[w].dom = domain[w]

\* Without pushes from outside or from providers, who are not ordered with a
\* fetch, record, sync and broadcast of a widget's worker are not disturbed.
NoPushes == Pushers = {} /\ Subscribing = FALSE

Midway(g) == Started(g) /\ wk[g].pc \in {"sync", "send"}

NothingQueued ==
    /\ eventSink = <<>>
    /\ \A g \in Gens : Started(g) => wk[g].fwd # "holding"
    /\ \A a \in Actors : act[a] # IdleActor => act[a].pc # "lock" /\ act[a].widget \in ChatWidgets

MidwayInOrder ==
    \A g \in Gens : Midway(g) /\ Settled(wk[g].widget) =>
        /\ cache[wk[g].widget] = wk[g].payload
        /\ wk[g].pc = "sync" /\ ~wk[g].send => wire[wk[g].widget] = wk[g].payload
        /\ wk[g].pc = "send" => sink[wk[g].widget] = wk[g].payload

RestAgrees ==
    \A w \in Polled :
        Settled(w) /\ cache[w] # NoEntry /\ (\A g \in Gens : Midway(g) => wk[g].widget # w) =>
            sink[w] = cache[w] /\ wire[w] = cache[w]

InOrderInv == NothingQueued /\ MidwayInOrder /\ RestAgrees

Inv ==
    /\ Types
    /\ LockInv
    /\ WorkersInv
    /\ QueueInv
    /\ WorkersCurrent
    /\ CacheCurrent
    /\ NoPushes => InOrderInv

-----------------------------------------------------------------------------
(* Types of what is computed.                                              *)

\* A widget's domain configuration is one of Domains.
LEMMA DomainType ==
    ASSUME NEW conf \in Configs, NEW w \in Widgets
    PROVE  conf[w] \in Domains /\ conf[w] \in Nat
  BY ConfigsAssumption DEF Domains

\* RecordSuccess and RecordPush produce an entry for the configuration they are
\* given.
LEMMA SuccessType ==
    ASSUME NEW d \in Domains, NEW src \in {"fetch", "post", "event", "chat", "blank"}
    PROVE  Success(d, src) \in Entries /\ Success(d, src).dom = d
  BY DEF Success, Entries

\* RecordFailure keeps the configuration of data that is there.
LEMMA FailureType ==
    ASSUME NEW old \in EntriesOrNone, NEW d \in Domains
    PROVE  /\ Failure(old, d) \in Entries
           /\ Failure(old, d).dom = IF old # NoEntry /\ old.src # "empty" THEN old.dom ELSE d
<1>1. CASE old # NoEntry /\ old.src # "empty"
  <2>1. Failure(old, d) = [old EXCEPT !.st = "degraded"] /\ old \in Entries
    BY <1>1 DEF Failure, EntriesOrNone
  <2> QED
    BY <1>1, <2>1 DEF Entries
<1>2. CASE ~(old # NoEntry /\ old.src # "empty")
  <2>1. Failure(old, d) = [dom |-> d, src |-> "empty", st |-> "error"]
    BY <1>2 DEF Failure
  <2> QED
    BY <1>2, <2>1 DEF Entries
<1> QED
  BY <1>1, <1>2

\* A failure that is no transition changes nothing about the entry, if its
\* configuration is the present one.
LEMMA QuietFailure ==
    ASSUME NEW old \in EntriesOrNone, NEW d \in Domains, old # NoEntry, old.dom = d,
           ~Transitioned(old, Failure(old, d))
    PROVE  Failure(old, d) = old
<1>1. old \in Entries
  BY DEF EntriesOrNone
<1>2. CASE old.src # "empty"
  <2>1. Failure(old, d) = [old EXCEPT !.st = "degraded"]
    BY <1>2 DEF Failure
  <2>2. old.st = "degraded"
    BY <1>1, <2>1 DEF Transitioned, Entries
  <2> QED
    BY <1>1, <2>1, <2>2 DEF Entries
<1>3. CASE old.src = "empty"
  <2>1. Failure(old, d) = [dom |-> d, src |-> "empty", st |-> "error"]
    BY <1>3 DEF Failure
  <2>2. old.st = "error"
    BY <2>1 DEF Transitioned
  <2> QED
    BY <1>1, <1>3, <2>1, <2>2 DEF Entries
<1> QED
  BY <1>2, <1>3

\* A started worker has the fields of one.
LEMMA StartedType ==
    ASSUME Types, NEW g \in Gens, Started(g)
    PROVE  wk[g] \in WorkerRecs
  BY DEF Types, Started

\* The zero worker is none.
LEMMA NoWorkerType ==
    ASSUME NEW r \in WorkerRecs
    PROVE  r # NoWorker
  BY DEF WorkerRecs, NoWorker

\* A new worker has the fields of one.
LEMMA NewWorkerType ==
    ASSUME NEW w \in Polled, NEW d \in Domains
    PROVE  NewWorker(w, d) \in WorkerRecs
  BY DEF NewWorker, WorkerRecs, EntriesOrNone

-----------------------------------------------------------------------------
(* Steps of one worker.                                                    *)

\* A worker that goes on with the same widget, configuration and stop flag, and
\* does not become busy again after it was stopped.
LEMMA WorkerGoesOn ==
    ASSUME Types, WorkersInv, WorkersCurrent,
           NEW g \in Gens, Started(g), NEW r \in WorkerRecs,
           r.widget = wk[g].widget, r.dom = wk[g].dom, r.stopped = wk[g].stopped,
           r.pc \in Busy => ~r.stopped \/ wk[g].pc \in Busy,
           wk' = [wk EXCEPT ![g] = r],
           UNCHANGED <<domain, ops, stopping, stopped, workers>>
    PROVE  /\ wk' \in [Gens -> WorkerRecs \cup {NoWorker}]
           /\ wk'[g] = r
           /\ \A h \in Gens : h # g => wk'[h] = wk[h]
           /\ \A h \in Gens : Started(h)' <=> Started(h)
           /\ WorkersInv'
           /\ WorkersCurrent'
<1>1. wk' \in [Gens -> WorkerRecs \cup {NoWorker}] /\ wk'[g] = r
  BY DEF Types
<1>2. \A h \in Gens : h # g => wk'[h] = wk[h]
  BY DEF Types
<1>3. \A h \in Gens : Started(h)' <=> Started(h)
  BY <1>1, <1>2, NoWorkerType DEF Started
<1>4. \A h \in Gens : /\ wk'[h].widget = wk[h].widget
                      /\ wk'[h].dom = wk[h].dom
                      /\ wk'[h].stopped = wk[h].stopped
  BY <1>1, <1>2
<1>5. \A h \in Gens : Live(h)' => Live(h)
  BY <1>1, <1>2, <1>3, <1>4 DEF Live
<1>6. \A w \in Widgets : workers[w] # 0 => workers[w] \in Gens
  BY BoundsAssumption DEF Types, Gens
<1>7. WorkersInv'
  BY <1>3, <1>4, <1>5, <1>6 DEF WorkersInv
<1>8. WorkersCurrent'
  BY <1>3, <1>4, <1>5 DEF WorkersCurrent, Settled
<1> QED
  BY <1>1, <1>2, <1>3, <1>7, <1>8

\* If it is not between record and broadcast, or stays where it is, what was
\* in order stays so.
LEMMA WorkerAside ==
    ASSUME MidwayInOrder, RestAgrees, NEW g \in Gens, Started(g), NEW r \in WorkerRecs,
           r.widget = wk[g].widget,
           \/ r.pc = wk[g].pc /\ r.payload = wk[g].payload /\ r.send = wk[g].send
           \/ r.pc \notin {"sync", "send"} /\ wk[g].pc \notin {"sync", "send"},
           wk'[g] = r, \A h \in Gens : h # g => wk'[h] = wk[h],
           \A h \in Gens : Started(h)' <=> Started(h),
           UNCHANGED <<ops, dataVars>>
    PROVE  MidwayInOrder' /\ RestAgrees'
<1>1. \A h \in Gens : Midway(h)' <=> Midway(h)
  BY DEF Midway
<1>2. \A h \in Gens : wk'[h].widget = wk[h].widget
  OBVIOUS
<1>3. \A h \in Gens : Midway(h) => /\ wk'[h].pc = wk[h].pc
                                   /\ wk'[h].payload = wk[h].payload
                                   /\ wk'[h].send = wk[h].send
  BY DEF Midway
<1>4. MidwayInOrder'
  BY <1>1, <1>2, <1>3 DEF MidwayInOrder, Settled, dataVars
<1>5. RestAgrees'
  BY <1>1, <1>2 DEF RestAgrees, Settled, dataVars
<1> QED
  BY <1>4, <1>5

\* What is queued and who handles it refer to workers.
LEMMA QueueType ==
    ASSUME Types
    PROVE  /\ \A i \in 1..Len(eventSink) : eventSink[i] \in Gens
           /\ \A a \in Actors : act[a].pc = "lock" => act[a].gen \in Gens
           /\ \A a \in Actors : act[a].pc \in {"push", "sync", "send"} =>
                act[a].widget \in Widgets /\ act[a].payload \in Entries
<1>1. \A i \in 1..Len(eventSink) : eventSink[i] \in Gens
  BY ElementOfSeq DEF Types
<1>2. ASSUME NEW a \in Actors
      PROVE  /\ act[a].pc = "lock" => act[a].gen \in Gens
             /\ act[a].pc \in {"push", "sync", "send"} => act[a].widget \in Widgets /\ act[a].payload \in Entries
  <2>1. act[a] \in ActorRecs
    BY DEF Types
  <2> QED
    BY <2>1 DEF ActorRecs
<1> QED
  BY <1>1, <1>2

\* Workers are never forgotten, so what is queued still refers to one.
LEMMA QueueKept ==
    ASSUME Types, QueueInv, \A h \in Gens : Started(h) => Started(h)',
           UNCHANGED <<eventSink, act>>
    PROVE  QueueInv'
<1>1. ASSUME NEW i \in 1..Len(eventSink') PROVE Started(eventSink[i])'
  <2>1. eventSink[i] \in Gens /\ Started(eventSink[i])
    BY QueueType DEF QueueInv
  <2> QED
    BY <2>1 DEF Started
<1>2. ASSUME NEW a \in Actors, act'[a].pc = "lock" PROVE Started(act[a].gen)'
  <2>1. act[a].gen \in Gens /\ Started(act[a].gen)
    BY <1>2, QueueType DEF QueueInv
  <2> QED
    BY <2>1 DEF Started
<1> QED
  BY <1>1, <1>2 DEF QueueInv, Started

\* Fetch returns, or a worker wakes up.
LEMMA FetchOrWakeInv ==
    ASSUME Inv, NEW g \in Gens,
           (\E step \in {"succeeded", "failed"} : FetchReturns(g, step)) \/ Wake(g)
    PROVE  Inv'
<1> DEFINE r == wk'[g]
<1>1. /\ wk[g].pc \in {"fetching", "waiting"}
      /\ \E pc \in {"exited", "succeeded", "failed", "fetching"} :
            /\ pc \in Busy => ~wk[g].stopped
            /\ wk' = [wk EXCEPT ![g].pc = pc]
      /\ UNCHANGED <<configVars, readers, stopped, workers, eventSink, act, dataVars>>
  BY DEF FetchReturns, Wake, At, Busy
<1>2. Started(g)
  BY <1>1 DEF Started, NoWorker
<1>3. wk[g] \in WorkerRecs
  BY <1>2, StartedType DEF Inv
<1>4. PICK pc \in {"exited", "succeeded", "failed", "fetching"} :
            /\ pc \in Busy => ~wk[g].stopped
            /\ wk' = [wk EXCEPT ![g].pc = pc]
  BY <1>1
<1>5. /\ r \in WorkerRecs /\ r.pc = pc
      /\ r.widget = wk[g].widget /\ r.dom = wk[g].dom /\ r.stopped = wk[g].stopped
      /\ r.fwd = wk[g].fwd
      /\ wk' = [wk EXCEPT ![g] = r]
  BY <1>3, <1>4 DEF Inv, Types, WorkerRecs
<1>6. UNCHANGED <<domain, ops, stopping, stopped, workers>>
  BY <1>1 DEF configVars
<1> HIDE DEF r
<1>7. /\ wk' \in [Gens -> WorkerRecs \cup {NoWorker}]
      /\ wk'[g] = r
      /\ \A h \in Gens : h # g => wk'[h] = wk[h]
      /\ \A h \in Gens : Started(h)' <=> Started(h)
      /\ WorkersInv' /\ WorkersCurrent'
  BY <1>2, <1>4, <1>5, <1>6, WorkerGoesOn DEF Inv
<1>8. Types'
  BY <1>1, <1>7 DEF Inv, Types, configVars, dataVars
<1>9. LockInv' /\ CacheCurrent'
  BY <1>1 DEF Inv, LockInv, CacheCurrent, Settled, configVars, dataVars
<1>10. QueueInv'
  BY <1>1, <1>7, QueueKept DEF Inv
<1>11. NoPushes => InOrderInv'
  <2>1. NoPushes => MidwayInOrder' /\ RestAgrees'
    BY <1>1, <1>2, <1>4, <1>5, <1>7, WorkerAside DEF Inv, InOrderInv, configVars
  <2>2. NoPushes => NothingQueued'
    BY <1>1, <1>5, <1>7 DEF Inv, InOrderInv, NothingQueued
  <2> QED
    BY <2>1, <2>2 DEF InOrderInv
<1> QED
  BY <1>7, <1>8, <1>9, <1>10, <1>11 DEF Inv

\* The result of a fetch enters the cache.  The worker is live, so it is the
\* only one for its widget and, unless a purge is due, for the present
\* configuration.
LEMMA RecordFetchInv ==
    ASSUME Inv, NEW g \in Gens, RecordFetch(g)
    PROVE  Inv'
<1> DEFINE w == wk[g].widget
           old == cache[w]
           new == IF At(g, "succeeded") THEN Success(wk[g].dom, "fetch") ELSE Failure(old, wk[g].dom)
           r == wk'[g]
<1>0. /\ Types /\ LockInv /\ WorkersInv /\ QueueInv /\ WorkersCurrent /\ CacheCurrent
      /\ NoPushes => NothingQueued /\ MidwayInOrder /\ RestAgrees
  BY DEF Inv, InOrderInv
<1>1. /\ wk[g].pc \in {"succeeded", "failed"}
      /\ cache' = [cache EXCEPT ![w] = new]
      /\ wk' = [wk EXCEPT ![g].pc = "sync", ![g].payload = new,
                          ![g].send = At(g, "succeeded") \/ Transitioned(old, new)]
      /\ UNCHANGED <<configVars, readers, stopped, workers, eventSink, act, sink, wire>>
  BY DEF RecordFetch, At
<1>2. Started(g)
  BY <1>1 DEF Started, NoWorker
<1>3. wk[g] \in WorkerRecs
  BY <1>0, <1>2, StartedType
<1>4. w \in Polled /\ w \in Widgets /\ wk[g].dom \in Domains /\ old \in EntriesOrNone
  BY <1>0, <1>3 DEF WorkerRecs, Polled, Types
<1>5. /\ new \in Entries
      /\ new.dom = IF At(g, "succeeded") \/ old = NoEntry \/ old.src = "empty" THEN wk[g].dom ELSE old.dom
  BY <1>4, SuccessType, FailureType
<1>6. Live(g)
  BY <1>1, <1>2 DEF Live, Busy
<1>7. /\ r \in WorkerRecs /\ r.pc = "sync" /\ r.payload = new
      /\ r.send = (At(g, "succeeded") \/ Transitioned(old, new))
      /\ r.widget = w /\ r.dom = wk[g].dom /\ r.stopped = wk[g].stopped /\ r.fwd = wk[g].fwd
      /\ wk' = [wk EXCEPT ![g] = r]
  <2> HIDE DEF new
  <2> QED
    BY <1>0, <1>1, <1>3, <1>5 DEF Types, WorkerRecs, EntriesOrNone
<1>8. UNCHANGED <<domain, ops, stopping, stopped, workers>>
  BY <1>1 DEF configVars
<1> HIDE DEF r, new
<1>9. /\ wk' \in [Gens -> WorkerRecs \cup {NoWorker}]
      /\ wk'[g] = r
      /\ \A h \in Gens : h # g => wk'[h] = wk[h]
      /\ \A h \in Gens : Started(h)' <=> Started(h)
      /\ WorkersInv' /\ WorkersCurrent'
  BY <1>0, <1>1, <1>2, <1>7, <1>8, WorkerGoesOn DEF Busy
<1>10. Types'
  BY <1>0, <1>1, <1>4, <1>5, <1>9 DEF Types, configVars, EntriesOrNone
<1>11. LockInv'
  BY <1>0, <1>1 DEF LockInv, configVars
<1>12. QueueInv'
  BY <1>0, <1>1, <1>9, QueueKept
<1>13. \A v \in Widgets : cache'[v] = IF v = w THEN new ELSE cache[v]
  BY <1>0, <1>1 DEF Types
<1>14. CacheCurrent'
  <2>1. ASSUME Settled(w) PROVE domain[w] # 0 /\ new.dom = domain[w]
    <3>1. domain[w] # 0 /\ wk[g].dom = domain[w]
      BY <1>0, <1>6, <2>1 DEF WorkersCurrent
    <3>2. old # NoEntry => old.dom = domain[w]
      BY <1>0, <1>4, <2>1 DEF CacheCurrent
    <3> QED
      BY <1>5, <3>1, <3>2
  <2> QED
    BY <1>0, <1>8, <1>13, <2>1 DEF CacheCurrent, Settled, Polled
<1>15. \A h \in Gens : Midway(h) => h # g /\ wk[h].widget # w
  <2>1. \A h \in Gens : Midway(h) => Live(h) /\ h # g
    BY <1>1 DEF Midway, Live, Busy
  <2> QED
    BY <1>0, <1>6, <2>1 DEF WorkersInv
<1>16. \A h \in Gens : Midway(h)' <=> Midway(h) \/ h = g
  BY <1>2, <1>7, <1>9, <1>15 DEF Midway
<1>17. ASSUME NoPushes PROVE NothingQueued'
  BY <1>0, <1>1, <1>7, <1>9, <1>17 DEF NothingQueued
<1>18. ASSUME NoPushes PROVE MidwayInOrder'
  <2>1. ASSUME Settled(w), ~r.send PROVE wire[w] = new
    <3>1. ~At(g, "succeeded") /\ ~Transitioned(old, new)
      BY <1>7, <2>1
    <3>2. new = Failure(old, wk[g].dom) /\ old # NoEntry
      BY <3>1 DEF new, Transitioned
    <3>3. old.dom = wk[g].dom
      BY <1>0, <1>4, <1>6, <2>1, <3>2 DEF WorkersCurrent, CacheCurrent
    <3>4. new = old
      BY <1>4, <3>1, <3>2, <3>3, QuietFailure
    <3>5. wire[w] = old
      BY <1>0, <1>4, <1>15, <1>18, <2>1, <3>2 DEF RestAgrees
    <3> QED
      BY <3>4, <3>5
  <2>2. ASSUME NEW h \in Gens, Midway(h)', Settled(wk[h].widget)'
        PROVE  /\ cache'[wk'[h].widget] = wk'[h].payload
               /\ wk'[h].pc = "sync" /\ ~wk'[h].send => wire'[wk'[h].widget] = wk'[h].payload
               /\ wk'[h].pc = "send" => sink'[wk'[h].widget] = wk'[h].payload
    <3>1. CASE h = g
      <4>1. Settled(w)
        BY <1>7, <1>8, <1>9, <2>2, <3>1 DEF Settled
      <4> QED
        BY <1>1, <1>4, <1>7, <1>9, <1>13, <2>1, <3>1, <4>1
    <3>2. CASE h # g
      <4>1. wk'[h] = wk[h] /\ Midway(h) /\ wk[h].widget # w /\ Settled(wk[h].widget)
        BY <1>8, <1>9, <1>15, <1>16, <2>2, <3>2 DEF Settled
      <4>2. wk[h].widget \in Widgets
        BY <1>0, <4>1, StartedType DEF Midway, WorkerRecs, Polled
      <4> QED
        BY <1>0, <1>1, <1>13, <1>18, <4>1, <4>2 DEF MidwayInOrder
    <3> QED
      BY <3>1, <3>2
  <2> QED
    BY <2>2 DEF MidwayInOrder
<1>19. ASSUME NoPushes PROVE RestAgrees'
  <2>1. ASSUME NEW v \in Polled, Settled(v)', cache'[v] # NoEntry,
               \A h \in Gens : Midway(h)' => wk'[h].widget # v
        PROVE  sink'[v] = cache'[v] /\ wire'[v] = cache'[v]
    <3>1. v # w
      BY <1>7, <1>9, <1>16, <2>1
    <3>2. \A h \in Gens : Midway(h) => wk[h].widget # v
      BY <1>9, <1>15, <1>16, <2>1
    <3>3. Settled(v) /\ cache'[v] = cache[v]
      BY <1>8, <1>13, <2>1, <3>1 DEF Settled, Polled
    <3> QED
      BY <1>0, <1>1, <1>19, <2>1, <3>2, <3>3 DEF RestAgrees
  <2> QED
    BY <2>1 DEF RestAgrees
<1> QED
  BY <1>9, <1>10, <1>11, <1>12, <1>14, <1>17, <1>18, <1>19 DEF Inv, InOrderInv

\* A worker that is done with a result keeps what it is.
LEMMA RestedType ==
    ASSUME NEW r \in WorkerRecs
    PROVE  /\ Rested(r) \in WorkerRecs /\ Rested(r).pc = "waiting"
           /\ Rested(r).widget = r.widget /\ Rested(r).dom = r.dom
           /\ Rested(r).stopped = r.stopped /\ Rested(r).fwd = r.fwd
  BY DEF Rested, WorkerRecs, EntriesOrNone

\* The recorded result reaches the hydration state, and the clients if it is
\* to be sent.
LEMMA SyncOrBroadcastInv ==
    ASSUME Inv, NEW g \in Gens, SyncFetch(g) \/ BroadcastFetch(g)
    PROVE  Inv'
<1> DEFINE w == wk[g].widget
           r == wk'[g]
           done == r.pc = "waiting"
<1>0. /\ Types /\ LockInv /\ WorkersInv /\ QueueInv /\ WorkersCurrent /\ CacheCurrent
      /\ NoPushes => NothingQueued /\ MidwayInOrder /\ RestAgrees
  BY DEF Inv, InOrderInv
<1>1. /\ wk[g].pc \in {"sync", "send"}
      /\ UNCHANGED <<configVars, readers, stopped, workers, eventSink, act, cache>>
  BY DEF SyncFetch, BroadcastFetch, At
<1>2. Started(g)
  BY <1>1 DEF Started, NoWorker
<1>3. wk[g] \in WorkerRecs
  BY <1>0, <1>2, StartedType
<1>4. w \in Polled /\ w \in Widgets /\ wk[g].payload \in EntriesOrNone
  BY <1>3 DEF WorkerRecs, Polled
<1>5. \/ /\ wk[g].pc = "sync" /\ sink' = [sink EXCEPT ![w] = wk[g].payload] /\ wire' = wire
         /\ r = IF wk[g].send THEN [wk[g] EXCEPT !.pc = "send"] ELSE Rested(wk[g])
      \/ /\ wk[g].pc = "send" /\ wire' = [wire EXCEPT ![w] = wk[g].payload] /\ sink' = sink
         /\ r = Rested(wk[g])
  BY <1>0 DEF SyncFetch, BroadcastFetch, At, Types
<1>6. /\ r \in WorkerRecs
      /\ r.widget = w /\ r.dom = wk[g].dom /\ r.stopped = wk[g].stopped /\ r.fwd = wk[g].fwd
      /\ \/ wk[g].pc = "sync" /\ r.pc = "send" /\ r.payload = wk[g].payload /\ wk[g].send
         \/ r.pc = "waiting" /\ (wk[g].pc = "sync" => ~wk[g].send)
  <2>1. CASE wk[g].pc = "sync" /\ wk[g].send
    <3>1. r = [wk[g] EXCEPT !.pc = "send"]
      BY <1>5, <2>1
    <3> QED
      BY <1>3, <2>1, <3>1 DEF WorkerRecs
  <2>2. CASE ~(wk[g].pc = "sync" /\ wk[g].send)
    <3>1. r = Rested(wk[g])
      BY <1>5, <2>2
    <3> QED
      BY <1>3, <2>2, <3>1, RestedType
  <2> QED
    BY <2>1, <2>2
<1>7. wk' = [wk EXCEPT ![g] = r]
  BY <1>0 DEF SyncFetch, BroadcastFetch, Types
<1>8. UNCHANGED <<domain, ops, stopping, stopped, workers>>
  BY <1>1 DEF configVars
<1> HIDE DEF r
<1>9. /\ wk' \in [Gens -> WorkerRecs \cup {NoWorker}]
      /\ wk'[g] = r
      /\ \A h \in Gens : h # g => wk'[h] = wk[h]
      /\ \A h \in Gens : Started(h)' <=> Started(h)
      /\ WorkersInv' /\ WorkersCurrent'
  BY <1>0, <1>1, <1>2, <1>6, <1>7, <1>8, WorkerGoesOn DEF Busy
<1>10. sink' \in [Widgets -> EntriesOrNone] /\ wire' \in [Widgets -> EntriesOrNone]
  BY <1>0, <1>4, <1>5 DEF Types
<1>11. Types'
  BY <1>0, <1>1, <1>9, <1>10 DEF Types, configVars
<1>12. LockInv' /\ CacheCurrent'
  BY <1>0, <1>1 DEF LockInv, CacheCurrent, Settled, configVars
<1>13. QueueInv'
  BY <1>0, <1>1, <1>9, QueueKept
<1>14. ASSUME NoPushes PROVE NothingQueued'
  BY <1>0, <1>1, <1>6, <1>9, <1>14 DEF NothingQueued
<1>15. Midway(g)
  BY <1>1, <1>2 DEF Midway
<1>16. \A h \in Gens : Midway(h) /\ h # g => wk[h].widget # w
  <2>1. \A h \in Gens : Midway(h) => Live(h)
    BY DEF Midway, Live, Busy
  <2> QED
    BY <1>0, <1>15, <2>1 DEF WorkersInv
<1>17. \A v \in Widgets : v # w => sink'[v] = sink[v] /\ wire'[v] = wire[v]
  BY <1>0, <1>5 DEF Types
<1>18. wk[g].pc = "sync" => sink'[w] = wk[g].payload /\ wire'[w] = wire[w]
  BY <1>0, <1>4, <1>5 DEF Types
<1>19. wk[g].pc = "send" => wire'[w] = wk[g].payload /\ sink'[w] = sink[w]
  BY <1>0, <1>4, <1>5 DEF Types
<1>20. ASSUME NoPushes PROVE MidwayInOrder'
  <2>1. ASSUME NEW h \in Gens, Midway(h)', Settled(wk[h].widget)'
        PROVE  /\ cache'[wk'[h].widget] = wk'[h].payload
               /\ wk'[h].pc = "sync" /\ ~wk'[h].send => wire'[wk'[h].widget] = wk'[h].payload
               /\ wk'[h].pc = "send" => sink'[wk'[h].widget] = wk'[h].payload
    <3>1. CASE h = g
      <4>1. wk[g].pc = "sync" /\ r.pc = "send" /\ r.payload = wk[g].payload
        BY <1>6, <1>9, <2>1, <3>1 DEF Midway
      <4>2. Settled(w)
        BY <1>6, <1>8, <1>9, <2>1, <3>1 DEF Settled
      <4>3. cache[w] = wk[g].payload
        BY <1>0, <1>15, <1>20, <4>2 DEF MidwayInOrder
      <4> QED
        BY <1>1, <1>6, <1>9, <1>18, <3>1, <4>1, <4>3
    <3>2. CASE h # g
      <4>1. wk'[h] = wk[h] /\ Midway(h) /\ Settled(wk[h].widget)
        BY <1>8, <1>9, <2>1, <3>2 DEF Settled, Midway
      <4>2. wk[h].widget \in Widgets /\ wk[h].widget # w
        BY <1>0, <1>16, <3>2, <4>1, StartedType DEF Midway, WorkerRecs, Polled
      <4> QED
        BY <1>0, <1>1, <1>17, <1>20, <4>1, <4>2 DEF MidwayInOrder
    <3> QED
      BY <3>1, <3>2
  <2> QED
    BY <2>1 DEF MidwayInOrder
<1>21. ASSUME NoPushes PROVE RestAgrees'
  <2>1. ASSUME NEW v \in Polled, Settled(v)', cache'[v] # NoEntry,
               \A h \in Gens : Midway(h)' => wk'[h].widget # v
        PROVE  sink'[v] = cache'[v] /\ wire'[v] = cache'[v]
    <3>1. Settled(v) /\ cache'[v] = cache[v] /\ v \in Widgets
      BY <1>1, <1>8, <2>1 DEF Settled, Polled
    <3>2. CASE v = w
      <4>1. ~Midway(g)'
        BY <1>6, <1>9, <2>1, <3>2
      <4>2. r.pc = "waiting" /\ (wk[g].pc = "sync" => ~wk[g].send)
        BY <1>2, <1>6, <1>9, <4>1 DEF Midway
      <4>3. /\ cache[w] = wk[g].payload
            /\ wk[g].pc = "sync" => wire[w] = wk[g].payload
            /\ wk[g].pc = "send" => sink[w] = wk[g].payload
        BY <1>0, <1>15, <1>21, <3>1, <3>2, <4>2 DEF MidwayInOrder
      <4> QED
        BY <1>1, <1>18, <1>19, <3>1, <3>2, <4>3
    <3>3. CASE v # w
      <4>1. \A h \in Gens : Midway(h) => wk[h].widget # v
        BY <1>9, <2>1, <3>3 DEF Midway
      <4> QED
        BY <1>0, <1>17, <1>21, <2>1, <3>1, <3>3, <4>1 DEF RestAgrees
    <3> QED
      BY <3>2, <3>3
  <2> QED
    BY <2>1 DEF RestAgrees
<1> QED
  BY <1>9, <1>11, <1>12, <1>13, <1>14, <1>20, <1>21 DEF Inv, InOrderInv

\* The forwarder of a worker.
LEMMA ForwarderInv ==
    ASSUME Inv, NEW g \in Gens, TakePush(g) \/ ForwardPush(g) \/ StopForwarder(g)
    PROVE  Inv'
<1> DEFINE r == wk'[g]
<1>0. /\ Types /\ LockInv /\ WorkersInv /\ QueueInv /\ WorkersCurrent /\ CacheCurrent
      /\ NoPushes => NothingQueued /\ MidwayInOrder /\ RestAgrees
  BY DEF Inv, InOrderInv
<1>1. /\ Started(g)
      /\ \E fwd \in {"idle", "holding", "exited"} : wk' = [wk EXCEPT ![g].fwd = fwd]
      /\ UNCHANGED <<configVars, readers, stopped, workers, act, dataVars>>
  BY DEF TakePush, ForwardPush, StopForwarder, Started
<1>2. wk[g] \in WorkerRecs
  BY <1>0, <1>1, StartedType
<1>3. /\ r \in WorkerRecs /\ r.pc = wk[g].pc /\ r.payload = wk[g].payload /\ r.send = wk[g].send
      /\ r.widget = wk[g].widget /\ r.dom = wk[g].dom /\ r.stopped = wk[g].stopped
      /\ wk' = [wk EXCEPT ![g] = r]
  <2>1. PICK fwd \in {"idle", "holding", "exited"} : wk' = [wk EXCEPT ![g].fwd = fwd]
    BY <1>1
  <2>2. r = [wk[g] EXCEPT !.fwd = fwd] /\ wk' = [wk EXCEPT ![g] = r]
    BY <1>0, <2>1 DEF Types
  <2> QED
    BY <1>2, <2>2 DEF WorkerRecs
<1>4. UNCHANGED <<domain, ops, stopping, stopped, workers>>
  BY <1>1 DEF configVars
<1>5. \/ eventSink' = eventSink /\ (NoPushes => r.fwd = "exited")
      \/ wk[g].fwd = "holding" /\ Len(eventSink) < SinkCapacity /\ eventSink' = Append(eventSink, g)
  BY <1>0, <1>2 DEF TakePush, ForwardPush, StopForwarder, Types, WorkerRecs, NoPushes
<1> HIDE DEF r
<1>6. /\ wk' \in [Gens -> WorkerRecs \cup {NoWorker}]
      /\ wk'[g] = r
      /\ \A h \in Gens : h # g => wk'[h] = wk[h]
      /\ \A h \in Gens : Started(h)' <=> Started(h)
      /\ WorkersInv' /\ WorkersCurrent'
  <2>1. r.pc \in Busy => ~r.stopped \/ wk[g].pc \in Busy
    BY <1>3
  <2> QED
    BY <1>0, <1>1, <1>3, <1>4, <2>1, WorkerGoesOn
<1>7. eventSink' \in Seq(Gens) /\ Len(eventSink') <= SinkCapacity
  <2>1. eventSink \in Seq(Gens) /\ Len(eventSink) <= SinkCapacity /\ Len(eventSink) \in Nat
    BY <1>0 DEF Types
  <2>2. Append(eventSink, g) \in Seq(Gens) /\ Len(Append(eventSink, g)) = Len(eventSink) + 1
    BY <2>1, AppendProperties
  <2> QED
    BY <1>5, <2>1, <2>2, SinkAssumption
<1>8. Types'
  BY <1>0, <1>1, <1>6, <1>7 DEF Types, configVars, dataVars
<1>9. LockInv' /\ CacheCurrent'
  BY <1>0, <1>1 DEF LockInv, CacheCurrent, Settled, configVars, dataVars
<1>10. QueueInv'
  <2>1. CASE eventSink' = eventSink
    BY <1>0, <1>1, <1>6, <2>1, QueueKept
  <2>2. CASE eventSink' = Append(eventSink, g)
    <3>1. ASSUME NEW i \in 1..Len(eventSink') PROVE Started(eventSink[i])'
      <4>1. eventSink'[i] = g \/ (i \in 1..Len(eventSink) /\ eventSink'[i] = eventSink[i])
        BY <1>0, <2>2, AppendProperties DEF Types
      <4>2. eventSink'[i] \in Gens /\ Started(eventSink'[i])
        BY <1>0, <1>1, <4>1, QueueType DEF QueueInv
      <4> QED
        BY <1>6, <4>2 DEF Started
    <3>2. ASSUME NEW a \in Actors, act'[a].pc = "lock" PROVE Started(act[a].gen)'
      <4>1. act[a].gen \in Gens /\ Started(act[a].gen) /\ act' = act
        BY <1>0, <1>1, <3>2, QueueType DEF QueueInv
      <4> QED
        BY <1>6, <4>1 DEF Started
    <3> QED
      BY <1>0, <1>1, <3>1, <3>2 DEF QueueInv
  <2> QED
    BY <1>5, <2>1, <2>2
<1>11. ASSUME NoPushes PROVE InOrderInv'
  <2>1. MidwayInOrder' /\ RestAgrees'
    BY <1>0, <1>1, <1>3, <1>4, <1>6, <1>11, WorkerAside
  <2>2. NothingQueued'
    BY <1>0, <1>1, <1>5, <1>6, <1>11 DEF NothingQueued
  <2> QED
    BY <2>1, <2>2 DEF InOrderInv
<1> QED
  BY <1>6, <1>8, <1>9, <1>10, <1>11 DEF Inv

-----------------------------------------------------------------------------
(* Pushes.                                                                 *)

\* A step that neither touches the workers nor what a reload has to do.
LEMMA WorkersKept ==
    ASSUME WorkersInv, WorkersCurrent, UNCHANGED <<wk, workers, domain, ops, stopping, stopped>>
    PROVE  WorkersInv' /\ WorkersCurrent' /\ \A h \in Gens : Started(h)' <=> Started(h)
<1>1. \A h \in Gens : Started(h)' <=> Started(h)
  BY DEF Started
<1>2. \A h \in Gens : Live(h)' <=> Live(h)
  BY DEF Live, Started
<1>3. WorkersInv'
  BY <1>1, <1>2 DEF WorkersInv, Started
<1>4. WorkersCurrent'
  BY <1>1, <1>2 DEF WorkersCurrent, Settled
<1> QED
  BY <1>1, <1>3, <1>4

\* Writing the data of chat-log widgets does not concern polled ones.
LEMMA DataElsewhere ==
    ASSUME Types, MidwayInOrder, RestAgrees, UNCHANGED <<wk, ops>>,
           \A w \in Polled : cache'[w] = cache[w] /\ sink'[w] = sink[w] /\ wire'[w] = wire[w]
    PROVE  MidwayInOrder' /\ RestAgrees'
<1>1. \A h \in Gens : Midway(h)' <=> Midway(h)
  BY DEF Midway, Started
<1>2. \A h \in Gens : Midway(h) => wk[h].widget \in Polled
  BY StartedType DEF Midway, WorkerRecs
<1>3. MidwayInOrder'
  BY <1>1, <1>2 DEF MidwayInOrder, Settled
<1>4. RestAgrees'
  BY <1>1 DEF RestAgrees, Settled
<1> QED
  BY <1>3, <1>4

\* The record a pusher works with.
LEMMA PushRecType ==
    ASSUME NEW pc \in {"push", "sync", "send"}, NEW w \in Widgets, NEW e \in Entries
    PROVE  [pc |-> pc, widget |-> w, payload |-> e] \in ActorRecs
  BY DEF ActorRecs

\* Setting one actor's record.
LEMMA ActChange ==
    ASSUME Types, NEW a \in Actors, NEW r \in ActorRecs, act' = [act EXCEPT ![a] = r]
    PROVE  /\ act' \in [Actors -> ActorRecs] /\ act'[a] = r
           /\ \A b \in Actors : b # a => act'[b] = act[b]
  BY DEF Types

\* An actor that does not hold a queued push or a chat-log update leaves the
\* queue as it was.
LEMMA QueueActChange ==
    ASSUME Types, QueueInv, NEW a \in Actors, act'[a].pc \notin {"lock", "push"},
           \A b \in Actors : b # a => act'[b] = act[b],
           UNCHANGED <<wk, eventSink>>
    PROVE  QueueInv'
<1>1. \A b \in Actors : act'[b].pc \in {"lock", "push"} => act'[b] = act[b]
  OBVIOUS
<1>2. "chat" \in Actors
  BY DEF Actors
<1> QED
  BY <1>1, <1>2 DEF QueueInv, Started

\* A push for a configured widget, under the read lock: no reload is in
\* progress, so the configuration it reads is the present one.
LEMMA PushWidgetDataInv ==
    ASSUME Inv, NEW p \in Pushers, NEW w \in Widgets, PushWidgetData(p, w)
    PROVE  Inv'
<1> DEFINE new == Success(domain[w], "post")
           r == [pc |-> "sync", widget |-> w, payload |-> new]
<1>0. /\ Types /\ LockInv /\ WorkersInv /\ QueueInv /\ WorkersCurrent /\ CacheCurrent
  BY DEF Inv
<1>1. new \in Entries /\ new.dom = domain[w] /\ domain[w] # 0
  BY <1>0, DomainType, SuccessType DEF Types, PushWidgetData
<1> HIDE DEF new
<1>2. cache' = [cache EXCEPT ![w] = new] /\ cache'[w] = new
  BY <1>0 DEF PushWidgetData, Types, new
<1>3. r \in ActorRecs /\ p \in Actors
  BY <1>1, PushRecType DEF Actors
<1>4. act' = [act EXCEPT ![p] = r] /\ lock = "free" /\ readers' = readers \cup {p}
  BY <1>2 DEF PushWidgetData, Begin
<1>5. UNCHANGED <<configVars, stopped, workers, wk, eventSink, sink, wire>>
  BY DEF PushWidgetData
<1>6. /\ act' \in [Actors -> ActorRecs] /\ act'[p] = r
      /\ \A b \in Actors : b # p => act'[b] = act[b]
  BY <1>0, <1>3, <1>4, ActChange
<1>7. Types'
  BY <1>0, <1>1, <1>2, <1>3, <1>4, <1>5, <1>6 DEF Types, configVars, EntriesOrNone
<1>8. WorkersInv' /\ WorkersCurrent' /\ \A h \in Gens : Started(h)' <=> Started(h)
  BY <1>0, <1>5, WorkersKept DEF configVars
<1>9. LockInv'
  BY <1>0, <1>4, <1>5 DEF LockInv, configVars
<1>10. QueueInv'
  BY <1>0, <1>3, <1>5, <1>6, QueueActChange
<1>11. CacheCurrent'
  BY <1>0, <1>1, <1>2, <1>5 DEF CacheCurrent, Settled, configVars, Types, Polled
<1>12. ~NoPushes
  BY DEF NoPushes
<1> QED
  BY <1>7, <1>8, <1>9, <1>10, <1>11, <1>12 DEF Inv

\* The listener takes a push out of the queue.
LEMMA TakeEventInv ==
    ASSUME Inv, TakeEvent
    PROVE  Inv'
<1> DEFINE g == Head(eventSink)
           r == [pc |-> "lock", gen |-> g]
<1>0. /\ Types /\ LockInv /\ WorkersInv /\ QueueInv /\ WorkersCurrent /\ CacheCurrent
      /\ NoPushes => NothingQueued
  BY DEF Inv, InOrderInv
<1>1. /\ eventSink # <<>> /\ eventSink' = Tail(eventSink)
      /\ act' = act \/ act' = [act EXCEPT !["listener"] = r]
      /\ UNCHANGED <<configVars, readers, stopped, workers, wk, dataVars>>
  BY DEF TakeEvent
<1>2. eventSink \in Seq(Gens) /\ Len(eventSink) <= SinkCapacity /\ Len(eventSink) \in Nat /\ Len(eventSink) # 0
  BY <1>0, <1>1 DEF Types
<1>3. /\ g = eventSink[1] /\ g \in Gens /\ 1 \in 1..Len(eventSink)
      /\ eventSink' \in Seq(Gens) /\ Len(eventSink') = Len(eventSink) - 1
      /\ \A i \in 1..Len(eventSink') : eventSink'[i] = eventSink[i + 1] /\ i + 1 \in 1..Len(eventSink)
  BY <1>1, <1>2, HeadTailProperties
<1>4. Started(g)
  BY <1>0, <1>3 DEF QueueInv
<1>5. r \in ActorRecs /\ "listener" \in Actors
  BY <1>3 DEF ActorRecs, Actors
<1>6. /\ act' \in [Actors -> ActorRecs]
      /\ \A b \in Actors : act'[b] = act[b] \/ (b = "listener" /\ act'[b] = r)
  BY <1>0, <1>1, <1>5, ActChange DEF Types
<1>7. Types'
  BY <1>0, <1>1, <1>2, <1>3, <1>6, SinkAssumption DEF Types, configVars, dataVars
<1>8. WorkersInv' /\ WorkersCurrent' /\ \A h \in Gens : Started(h)' <=> Started(h)
  BY <1>0, <1>1, WorkersKept DEF configVars
<1>9. LockInv' /\ CacheCurrent'
  BY <1>0, <1>1 DEF LockInv, CacheCurrent, Settled, configVars, dataVars
<1>10. QueueInv'
  <2> HIDE DEF g
  <2>1. \A i \in 1..Len(eventSink') : Started(eventSink[i])'
    BY <1>0, <1>1, <1>3 DEF QueueInv, Started
  <2>2. \A a \in Actors : act'[a].pc = "lock" => Started(act[a].gen)'
    BY <1>0, <1>1, <1>4, <1>6 DEF QueueInv, Started
  <2>3. "chat" \in Actors /\ act'["chat"] = act["chat"]
    BY <1>6 DEF Actors
  <2> QED
    BY <1>0, <2>1, <2>2, <2>3 DEF QueueInv
<1>11. ~NoPushes
  BY <1>0, <1>1 DEF NothingQueued
<1> QED
  BY <1>7, <1>8, <1>9, <1>10, <1>11 DEF Inv

\* The listener records a push if its worker is still active, under the read
\* lock: an active worker is live, so its configuration is the present one.
LEMMA RecordWorkerPushInv ==
    ASSUME Inv, RecordWorkerPush
    PROVE  Inv'
<1> DEFINE g == act["listener"].gen
           w == wk[g].widget
           new == Success(wk[g].dom, "event")
           r == [pc |-> "sync", widget |-> w, payload |-> new]
<1>0. /\ Types /\ LockInv /\ WorkersInv /\ QueueInv /\ WorkersCurrent /\ CacheCurrent
      /\ NoPushes => NothingQueued
  BY DEF Inv, InOrderInv
<1>1. /\ act["listener"].pc = "lock" /\ lock = "free"
      /\ UNCHANGED <<configVars, stopped, workers, wk, eventSink, sink, wire>>
  BY DEF RecordWorkerPush
<1>2. "listener" \in Actors
  BY DEF Actors
<1>3. g \in Gens /\ Started(g)
  BY <1>0, <1>1, <1>2, QueueType DEF QueueInv
<1>4. wk[g] \in WorkerRecs
  BY <1>0, <1>3, StartedType
<1>5. w \in Polled /\ w \in Widgets /\ wk[g].dom \in Domains
  BY <1>4 DEF WorkerRecs, Polled
<1>6. new \in Entries /\ new.dom = wk[g].dom
  BY <1>5, SuccessType
<1>7. WorkersInv' /\ WorkersCurrent' /\ \A h \in Gens : Started(h)' <=> Started(h)
  BY <1>0, <1>1, WorkersKept DEF configVars
<1>8. ~NoPushes
  BY <1>0, <1>1, <1>2 DEF NothingQueued, IdleActor
<1>9. CASE IsWorkerActive(g)
  <2>1. /\ cache' = [cache EXCEPT ![w] = new]
        /\ readers' = readers \cup {"listener"}
        /\ Begin("listener", cache'[w], w, "sync")
    BY <1>9 DEF RecordWorkerPush
  <2> HIDE DEF new
  <2>2. \A v \in Widgets : cache'[v] = IF v = w THEN new ELSE cache[v]
    BY <1>0, <2>1 DEF Types
  <2>3. act' = [act EXCEPT !["listener"] = r]
    BY <1>5, <2>1, <2>2 DEF Begin
  <2>4. r \in ActorRecs
    BY <1>5, <1>6, PushRecType
  <2>5. /\ act' \in [Actors -> ActorRecs] /\ act'["listener"] = r
        /\ \A b \in Actors : b # "listener" => act'[b] = act[b]
    BY <1>0, <1>2, <2>3, <2>4, ActChange
  <2>6. cache' \in [Widgets -> EntriesOrNone]
    BY <1>0, <1>5, <1>6, <2>1 DEF Types, EntriesOrNone
  <2>7. Types'
    BY <1>0, <1>1, <1>2, <2>1, <2>5, <2>6 DEF Types, configVars
  <2>8. LockInv'
    BY <1>0, <1>1 DEF LockInv, configVars
  <2>9. QueueInv'
    BY <1>0, <1>1, <1>2, <2>5, QueueActChange
  <2>10. Settled(w) /\ domain[w] # 0 /\ new.dom = domain[w]
    <3>1. Live(g)
      BY <1>3, <1>9 DEF IsWorkerActive, Live
    <3>2. Settled(w)
      BY <1>0, <1>1, <1>5 DEF LockInv, Settled
    <3> QED
      BY <1>0, <1>3, <1>6, <3>1, <3>2 DEF WorkersCurrent
  <2>11. CacheCurrent'
    BY <1>0, <1>1, <2>2, <2>10 DEF CacheCurrent, Settled, configVars, Polled
  <2> QED
    BY <1>7, <1>8, <2>7, <2>8, <2>9, <2>11 DEF Inv
<1>10. CASE ~IsWorkerActive(g)
  <2>1. act' = [act EXCEPT !["listener"] = IdleActor] /\ UNCHANGED <<readers, cache>>
    BY <1>10 DEF RecordWorkerPush
  <2>2. IdleActor \in ActorRecs /\ IdleActor.pc = "idle"
    BY DEF IdleActor, ActorRecs
  <2>3. /\ act' \in [Actors -> ActorRecs] /\ act'["listener"] = IdleActor
        /\ \A b \in Actors : b # "listener" => act'[b] = act[b]
    BY <1>0, <1>2, <2>1, <2>2, ActChange
  <2>4. Types'
    BY <1>0, <1>1, <2>1, <2>3 DEF Types, configVars
  <2>5. LockInv' /\ CacheCurrent'
    BY <1>0, <1>1, <2>1 DEF LockInv, CacheCurrent, Settled, configVars
  <2>6. QueueInv'
    BY <1>0, <1>1, <1>2, <2>2, <2>3, QueueActChange
  <2> QED
    BY <1>7, <1>8, <2>4, <2>5, <2>6 DEF Inv
<1> QED
  BY <1>9, <1>10

\* The chat log has changed.
LEMMA ChatChangedInv ==
    ASSUME Inv, NEW w \in Widgets, ChatChanged(w)
    PROVE  Inv'
<1> DEFINE r == [pc |-> "push", widget |-> w, payload |-> Success(managed[w], "chat")]
<1>0. /\ Types /\ LockInv /\ WorkersInv /\ QueueInv /\ WorkersCurrent /\ CacheCurrent
      /\ NoPushes => NothingQueued /\ MidwayInOrder /\ RestAgrees
  BY DEF Inv, InOrderInv
<1>1. /\ w \in ChatWidgets /\ act' = [act EXCEPT !["chat"] = r]
      /\ UNCHANGED <<configVars, readers, stopped, workers, wk, eventSink, dataVars>>
  BY DEF ChatChanged, Begin
<1>2. r \in ActorRecs /\ r.pc = "push" /\ r.widget = w
  BY <1>0, DomainType, SuccessType, PushRecType DEF Types
<1>3. "chat" \in Actors
  BY DEF Actors
<1> HIDE DEF r
<1>4. /\ act' \in [Actors -> ActorRecs] /\ act'["chat"] = r
      /\ \A b \in Actors : b # "chat" => act'[b] = act[b]
  BY <1>0, <1>1, <1>2, <1>3, ActChange
<1>5. Types'
  BY <1>0, <1>1, <1>4 DEF Types, configVars, dataVars
<1>6. WorkersInv' /\ WorkersCurrent'
  BY <1>0, <1>1, WorkersKept DEF configVars
<1>7. LockInv' /\ CacheCurrent'
  BY <1>0, <1>1 DEF LockInv, CacheCurrent, Settled, configVars, dataVars
<1>8. QueueInv'
  <2>1. \A a \in Actors : act'[a].pc = "lock" => act'[a] = act[a]
    BY <1>2, <1>4
  <2> QED
    BY <1>0, <1>1, <1>2, <1>4, <2>1 DEF QueueInv, Started
<1>9. ASSUME NoPushes PROVE InOrderInv'
  <2>1. NothingQueued'
    BY <1>0, <1>1, <1>2, <1>4, <1>9 DEF NothingQueued, Started
  <2>2. MidwayInOrder' /\ RestAgrees'
    BY <1>0, <1>1, <1>9, DataElsewhere DEF configVars, dataVars
  <2> QED
    BY <2>1, <2>2 DEF InOrderInv
<1> QED
  BY <1>5, <1>6, <1>7, <1>8, <1>9 DEF Inv

\* A chat-log update enters the cache without a lock, but only that of a
\* chat-log widget.
LEMMA PushUpdateInv ==
    ASSUME Inv, PushUpdate
    PROVE  Inv'
<1> DEFINE w == act["chat"].widget
           e == act["chat"].payload
           r == act'["chat"]
<1>0. /\ Types /\ LockInv /\ WorkersInv /\ QueueInv /\ WorkersCurrent /\ CacheCurrent
      /\ NoPushes => NothingQueued /\ MidwayInOrder /\ RestAgrees
  BY DEF Inv, InOrderInv
<1>1. "chat" \in Actors
  BY DEF Actors
<1>2. /\ act["chat"].pc = "push" /\ cache' = [cache EXCEPT ![w] = e]
      /\ UNCHANGED <<configVars, readers, stopped, workers, wk, eventSink, sink, wire>>
  BY DEF PushUpdate
<1>3. w \in ChatWidgets /\ w \in Widgets /\ e \in Entries
  BY <1>0, <1>1, <1>2, QueueType DEF QueueInv
<1>4. act["chat"] \in [pc: {"push", "sync", "send"}, widget: Widgets, payload: Entries]
  BY <1>0, <1>1, <1>2 DEF Types, ActorRecs
<1>5. r = [act["chat"] EXCEPT !.pc = "sync"] /\ act' = [act EXCEPT !["chat"] = r]
  BY <1>0, <1>1 DEF PushUpdate, Types
<1>6. r \in ActorRecs /\ r.pc = "sync" /\ r.widget = w
  BY <1>4, <1>5 DEF ActorRecs
<1> HIDE DEF r
<1>7. /\ act' \in [Actors -> ActorRecs] /\ act'["chat"] = r
      /\ \A b \in Actors : b # "chat" => act'[b] = act[b]
  BY <1>0, <1>1, <1>5, <1>6, ActChange
<1>8. cache' \in [Widgets -> EntriesOrNone]
  BY <1>0, <1>2, <1>3 DEF Types, EntriesOrNone
<1>9. Types'
  BY <1>0, <1>2, <1>7, <1>8 DEF Types, configVars
<1>10. WorkersInv' /\ WorkersCurrent'
  BY <1>0, <1>2, WorkersKept DEF configVars
<1>11. \A v \in Polled : cache'[v] = cache[v] /\ sink'[v] = sink[v] /\ wire'[v] = wire[v]
  BY <1>0, <1>2, <1>3 DEF Types, Polled
<1>12. LockInv' /\ CacheCurrent'
  BY <1>0, <1>2, <1>11 DEF LockInv, CacheCurrent, Settled, configVars
<1>13. QueueInv'
  BY <1>0, <1>1, <1>2, <1>6, <1>7, QueueActChange
<1>14. ASSUME NoPushes PROVE InOrderInv'
  <2>1. NothingQueued'
    BY <1>0, <1>2, <1>3, <1>6, <1>7, <1>14 DEF NothingQueued, Started
  <2>2. MidwayInOrder' /\ RestAgrees'
    BY <1>0, <1>2, <1>11, <1>14, DataElsewhere DEF configVars
  <2> QED
    BY <2>1, <2>2 DEF InOrderInv
<1> QED
  BY <1>9, <1>10, <1>12, <1>13, <1>14 DEF Inv

\* The end of a push: hydration state and broadcast.
LEMMA SyncOrBroadcastPushInv ==
    ASSUME Inv, NEW a \in Actors, SyncPush(a) \/ BroadcastPush(a)
    PROVE  Inv'
<1> DEFINE w == act[a].widget
           e == act[a].payload
           r == act'[a]
<1>0. /\ Types /\ LockInv /\ WorkersInv /\ QueueInv /\ WorkersCurrent /\ CacheCurrent
      /\ NoPushes => NothingQueued /\ MidwayInOrder /\ RestAgrees
  BY DEF Inv, InOrderInv
<1>1. /\ act[a].pc \in {"sync", "send"}
      /\ readers' \subseteq readers
      /\ sink' = sink \/ sink' = [sink EXCEPT ![w] = e]
      /\ wire' = wire \/ wire' = [wire EXCEPT ![w] = e]
      /\ UNCHANGED <<configVars, stopped, workers, wk, eventSink, cache>>
  BY DEF SyncPush, BroadcastPush
<1>2. w \in Widgets /\ e \in Entries
  BY <1>0, <1>1, QueueType
<1>3. act[a] \in [pc: {"push", "sync", "send"}, widget: Widgets, payload: Entries]
  BY <1>0, <1>1 DEF Types, ActorRecs
<1>4. /\ r = IdleActor \/ r = [act[a] EXCEPT !.pc = "send"]
      /\ act' = [act EXCEPT ![a] = r]
  BY <1>0 DEF SyncPush, BroadcastPush, Types
<1>5. r \in ActorRecs /\ r.pc \in {"idle", "send"} /\ (r # IdleActor => r.widget = w)
  <2>1. CASE r = IdleActor
    BY <2>1 DEF IdleActor, ActorRecs
  <2>2. CASE r = [act[a] EXCEPT !.pc = "send"]
    BY <1>3, <2>2 DEF ActorRecs
  <2> QED
    BY <1>4, <2>1, <2>2
<1> HIDE DEF r
<1>6. /\ act' \in [Actors -> ActorRecs] /\ act'[a] = r
      /\ \A b \in Actors : b # a => act'[b] = act[b]
  BY <1>0, <1>4, <1>5, ActChange
<1>7. sink' \in [Widgets -> EntriesOrNone] /\ wire' \in [Widgets -> EntriesOrNone]
  BY <1>0, <1>1, <1>2 DEF Types, EntriesOrNone
<1>8. Types'
  BY <1>0, <1>1, <1>6, <1>7 DEF Types, configVars
<1>9. WorkersInv' /\ WorkersCurrent'
  BY <1>0, <1>1, WorkersKept DEF configVars
<1>10. LockInv' /\ CacheCurrent'
  BY <1>0, <1>1 DEF LockInv, CacheCurrent, Settled, configVars
<1>11. QueueInv'
  BY <1>0, <1>1, <1>5, <1>6, QueueActChange
<1>12. ASSUME NoPushes PROVE InOrderInv'
  <2>1. w \in ChatWidgets
    BY <1>0, <1>1, <1>12 DEF NothingQueued, IdleActor
  <2>2. NothingQueued'
    BY <1>0, <1>1, <1>5, <1>6, <1>12, <2>1 DEF NothingQueued, Started
  <2>3. \A v \in Polled : cache'[v] = cache[v] /\ sink'[v] = sink[v] /\ wire'[v] = wire[v]
    BY <1>0, <1>1, <2>1 DEF Types, Polled
  <2>4. MidwayInOrder' /\ RestAgrees'
    BY <1>0, <1>1, <1>12, <2>3, DataElsewhere DEF configVars
  <2> QED
    BY <2>2, <2>4 DEF InOrderInv
<1> QED
  BY <1>8, <1>9, <1>10, <1>11, <1>12 DEF Inv

-----------------------------------------------------------------------------
(* Reloads.                                                                *)

\* Steps that only pass a snapshot or the lock on.
LEMMA HandOverInv ==
    ASSUME Inv, (\E new \in Configs : Reload(new)) \/ AwaitLock \/ RefuseUpdate \/ EndUpdate
    PROVE  Inv'
<1>0. /\ Types /\ LockInv /\ WorkersInv /\ QueueInv /\ WorkersCurrent /\ CacheCurrent
      /\ NoPushes => NothingQueued /\ MidwayInOrder /\ RestAgrees
  BY DEF Inv, InOrderInv
<1>1. /\ managed' \in Configs /\ lock' \in {"free", "wanted", "held"}
      /\ lock' = "held" => lock = "held"
      /\ lock' # "held" => \A w \in Widgets : ops[w] = "none"
      /\ UNCHANGED <<domain, ops, stopping, readers, stopped, workers, wk, eventSink, act, dataVars>>
  BY <1>0 DEF Reload, AwaitLock, RefuseUpdate, EndUpdate, Types, LockInv
<1>2. Types'
  BY <1>0, <1>1 DEF Types, dataVars
<1>3. LockInv'
  BY <1>0, <1>1 DEF LockInv
<1>4. WorkersInv' /\ WorkersCurrent' /\ \A h \in Gens : Started(h)' <=> Started(h)
  BY <1>0, <1>1, WorkersKept
<1>5. QueueInv'
  BY <1>0, <1>1, <1>4, QueueKept
<1>6. CacheCurrent'
  BY <1>0, <1>1 DEF CacheCurrent, Settled, dataVars
<1>7. ASSUME NoPushes PROVE InOrderInv'
  <2>1. NothingQueued'
    BY <1>0, <1>1, <1>7 DEF NothingQueued, Started
  <2>2. MidwayInOrder' /\ RestAgrees'
    BY <1>0, <1>1, <1>7, DataElsewhere DEF dataVars
  <2> QED
    BY <2>1, <2>2 DEF InOrderInv
<1> QED
  BY <1>2, <1>3, <1>4, <1>5, <1>6, <1>7 DEF Inv

\* What DiffConfigs says of a widget.
LEMMA DiffType ==
    ASSUME NEW old, NEW new, NEW soft, NEW timezone \in BOOLEAN, NEW w \in Widgets
    PROVE  LET op == Diff(old, new, soft, timezone)[w] IN
           /\ op \in Operations
           /\ op = "removed" => new[w] = 0
           /\ op \notin {"none", "removed"} => new[w] # 0
           /\ op \notin {"removed", "modified"} /\ old[w] # 0 => new[w] = old[w]
  BY DEF Diff, Operations

\* A reload gets the write lock and takes the new snapshot: every widget whose
\* configuration changed is to be purged.
LEMMA BeginUpdateInv ==
    ASSUME Inv, NEW soft, NEW timezone \in BOOLEAN, BeginUpdate(soft, timezone)
    PROVE  Inv'
<1>0. /\ Types /\ LockInv /\ WorkersInv /\ QueueInv /\ WorkersCurrent /\ CacheCurrent
      /\ NoPushes => NothingQueued /\ MidwayInOrder /\ RestAgrees
  BY DEF Inv, InOrderInv
<1>1. /\ lock = "wanted" /\ readers = {} /\ ~stopped /\ lock' = "held" /\ domain' = managed
      /\ ops' = Diff(domain, managed, soft, timezone)
      /\ UNCHANGED <<managed, pending, stopping, readers, stopped, workers, wk, eventSink, act, dataVars>>
  BY DEF BeginUpdate
<1>2. \A w \in Widgets : Settled(w)
  BY <1>0, <1>1 DEF LockInv, Settled
<1>3. \A w \in Widgets :
        /\ ops'[w] \in Operations
        /\ ops'[w] = "removed" => managed[w] = 0
        /\ ops'[w] \notin {"none", "removed"} => managed[w] # 0
        /\ Settled(w)' /\ domain[w] # 0 => managed[w] = domain[w]
  BY <1>1, DiffType DEF Settled
<1>4. ops' \in [Widgets -> Operations]
  BY <1>1, <1>3 DEF Diff
<1>5. Types'
  BY <1>0, <1>1, <1>4 DEF Types, dataVars
<1>6. LockInv'
  BY <1>1, <1>3 DEF LockInv
<1>7. \A h \in Gens : (Started(h)' <=> Started(h)) /\ (Live(h)' <=> Live(h)) /\ (Midway(h)' <=> Midway(h))
  BY <1>1 DEF Started, Live, Midway
<1>8. WorkersInv'
  BY <1>0, <1>1, <1>7 DEF WorkersInv, Started
<1>9. \A h \in Gens : Started(h) => wk[h].widget \in Polled /\ wk[h].widget \in Widgets
  BY <1>0, StartedType DEF WorkerRecs, Polled
<1>10. WorkersCurrent'
  BY <1>0, <1>1, <1>2, <1>3, <1>7, <1>9 DEF WorkersCurrent, Live
<1>11. CacheCurrent'
  BY <1>0, <1>1, <1>2, <1>3 DEF CacheCurrent, dataVars, Polled
<1>12. QueueInv'
  BY <1>0, <1>1, <1>7, QueueKept
<1>13. ASSUME NoPushes PROVE InOrderInv'
  <2>1. NothingQueued'
    BY <1>0, <1>1, <1>13 DEF NothingQueued, Started
  <2>2. MidwayInOrder'
    BY <1>0, <1>1, <1>2, <1>7, <1>9, <1>13 DEF MidwayInOrder, dataVars, Midway
  <2>3. RestAgrees'
    BY <1>0, <1>1, <1>2, <1>7, <1>13 DEF RestAgrees, dataVars, Polled
  <2> QED
    BY <2>1, <2>2, <2>3 DEF InOrderInv
<1> QED
  BY <1>5, <1>6, <1>8, <1>10, <1>11, <1>12, <1>13 DEF Inv

\* Stopping a worker with r as its new record, or all of them: nobody becomes
\* live.
LEMMA StoppedRec ==
    ASSUME NEW r \in WorkerRecs
    PROVE  LET s == [r EXCEPT !.stopped = TRUE] IN
           /\ s \in WorkerRecs /\ s.stopped
           /\ s.pc = r.pc /\ s.widget = r.widget /\ s.dom = r.dom /\ s.fwd = r.fwd
           /\ s.payload = r.payload /\ s.send = r.send
  BY DEF WorkerRecs

\* If some workers are stopped and nothing else happens to workers or data,
\* the invariants about who writes what remain.
LEMMA StoppingKeeps ==
    ASSUME Types, WorkersCurrent, UNCHANGED <<domain, ops, dataVars, eventSink, act>>,
           wk' \in [Gens -> WorkerRecs \cup {NoWorker}],
           \A h \in Gens : wk'[h] = wk[h] \/ (Started(h) /\ wk'[h] = [wk[h] EXCEPT !.stopped = TRUE])
    PROVE  /\ \A h \in Gens : (Started(h)' <=> Started(h)) /\ (Live(h)' => Live(h))
           /\ \A h \in Gens : wk'[h].widget = wk[h].widget
           /\ WorkersCurrent'
           /\ QueueInv => QueueInv'
           /\ InOrderInv => InOrderInv'
<1>1. ASSUME NEW h \in Gens
      PROVE  /\ Started(h)' <=> Started(h)
             /\ wk'[h].pc = wk[h].pc /\ wk'[h].widget = wk[h].widget /\ wk'[h].dom = wk[h].dom
             /\ wk'[h].fwd = wk[h].fwd /\ wk'[h].payload = wk[h].payload /\ wk'[h].send = wk[h].send
             /\ wk[h].stopped /\ Started(h) => wk'[h].stopped
  <2>1. CASE wk'[h] = wk[h]
    BY <2>1 DEF Started
  <2>2. CASE Started(h) /\ wk'[h] = [wk[h] EXCEPT !.stopped = TRUE]
    <3>1. wk[h] \in WorkerRecs
      BY <2>2, StartedType
    <3>2. wk'[h] \in WorkerRecs
      BY <2>2, <3>1, StoppedRec
    <3>3. Started(h)'
      BY <3>2, NoWorkerType DEF Started
    <3> QED
      BY <2>2, <3>1, <3>3, StoppedRec
  <2> QED
    BY <2>1, <2>2
<1>2. \A h \in Gens : (Live(h)' => Live(h)) /\ (Midway(h)' <=> Midway(h))
  BY <1>1 DEF Live, Midway
<1>3. WorkersCurrent'
  BY <1>1, <1>2 DEF WorkersCurrent, Settled
<1>4. QueueInv => QueueInv'
  BY <1>1, QueueKept
<1>5. ASSUME InOrderInv PROVE InOrderInv'
  <2>0. NothingQueued /\ MidwayInOrder /\ RestAgrees
    BY <1>5 DEF InOrderInv
  <2>1. NothingQueued'
    BY <1>1, <2>0 DEF NothingQueued
  <2>2. MidwayInOrder'
    BY <1>1, <1>2, <2>0 DEF MidwayInOrder, Settled, dataVars
  <2>3. RestAgrees'
    BY <1>1, <1>2, <2>0 DEF RestAgrees, Settled, dataVars
  <2> QED
    BY <2>1, <2>2, <2>3 DEF InOrderInv
<1> QED
  BY <1>1, <1>2, <1>3, <1>4, <1>5

\* stopWorkerLocked: the reload now waits for the worker it took out of the
\* map, the only one that may be stopped and still busy.
LEMMA StopWorkerInv ==
    ASSUME Inv, NEW w \in Widgets, StopWorker(w)
    PROVE  Inv'
<1> DEFINE g == workers[w]
<1>0. /\ Types /\ LockInv /\ WorkersInv /\ QueueInv /\ WorkersCurrent /\ CacheCurrent
      /\ NoPushes => InOrderInv
  BY DEF Inv
<1>1. /\ lock = "held" /\ stopping = 0 /\ g # 0 /\ stopping' = g
      /\ workers' = [workers EXCEPT ![w] = 0]
      /\ wk' = [wk EXCEPT ![g].stopped = TRUE]
      /\ UNCHANGED <<managed, pending, domain, ops, lock, readers, stopped, eventSink, act, dataVars>>
  BY DEF StopWorker, NextOp
<1>2. g \in Gens /\ Started(g) /\ wk[g].widget = w /\ ~stopped
  BY <1>0, <1>1, BoundsAssumption DEF Types, Gens, WorkersInv, LockInv
<1>3. wk[g] \in WorkerRecs
  BY <1>0, <1>2, StartedType
<1>4. [wk[g] EXCEPT !.stopped = TRUE] \in WorkerRecs /\ [wk[g] EXCEPT !.stopped = TRUE].stopped
  BY <1>3, StoppedRec
<1>5. /\ wk'[g] = [wk[g] EXCEPT !.stopped = TRUE]
      /\ \A h \in Gens : h # g => wk'[h] = wk[h]
      /\ wk' \in [Gens -> WorkerRecs \cup {NoWorker}]
  BY <1>0, <1>1, <1>2, <1>4 DEF Types
<1>6. workers' \in [Widgets -> 0..MaxGen] /\ workers'[w] = 0 /\ \A v \in Widgets : v # w => workers'[v] = workers[v]
  BY <1>0, <1>1, BoundsAssumption DEF Types
<1>7. stopping' \in 0..MaxGen
  BY <1>0, <1>1 DEF Types
<1>8. /\ \A h \in Gens : (Started(h)' <=> Started(h)) /\ (Live(h)' => Live(h))
      /\ \A h \in Gens : wk'[h].widget = wk[h].widget
      /\ WorkersCurrent' /\ QueueInv' /\ (NoPushes => InOrderInv')
  BY <1>0, <1>1, <1>2, <1>5, StoppingKeeps
<1>9. wk'[g].stopped
  BY <1>4, <1>5
<1> HIDE DEF g
<1>10. Types'
  BY <1>0, <1>1, <1>5, <1>6, <1>7 DEF Types, dataVars
<1>11. LockInv' /\ CacheCurrent'
  BY <1>0, <1>1 DEF LockInv, CacheCurrent, Settled, dataVars
<1>12. WorkersInv'
  <2>1. ASSUME NEW v \in Widgets, workers'[v] # 0
        PROVE  Started(workers[v])' /\ wk'[workers'[v]].widget = v /\ ~wk'[workers'[v]].stopped
    <3>1. v # w /\ workers'[v] = workers[v] /\ workers[v] # 0
      BY <1>6, <2>1
    <3>2. workers[v] \in Gens /\ Started(workers[v]) /\ wk[workers[v]].widget = v /\ ~wk[workers[v]].stopped
      BY <1>0, <3>1, BoundsAssumption DEF Types, Gens, WorkersInv
    <3>3. workers[v] # g
      BY <1>2, <3>1, <3>2
    <3>4. wk'[workers[v]] = wk[workers[v]]
      BY <1>5, <3>2, <3>3
    <3> QED
      BY <3>1, <3>2, <3>4 DEF Started
  <2>2. ASSUME NEW h \in Gens, Started(h)', ~wk'[h].stopped
        PROVE  workers'[wk'[h].widget] = h
    <3>1. h # g /\ wk'[h] = wk[h] /\ Started(h)
      BY <1>5, <1>8, <1>9, <2>2
    <3>2. workers[wk[h].widget] = h
      BY <1>0, <2>2, <3>1 DEF WorkersInv
    <3>3. wk[h].widget # w
      BY <3>1, <3>2 DEF g
    <3>4. wk[h].widget \in Widgets
      BY <1>0, <3>1, StartedType DEF WorkerRecs, Polled
    <3> QED
      BY <1>6, <3>1, <3>2, <3>3, <3>4
  <2>3. ASSUME NEW h \in Gens, Live(h)', wk'[h].stopped
        PROVE  stopping' = h
    <3>1. Live(h)
      BY <1>8, <2>3
    <3>2. SUFFICES ASSUME h # g PROVE FALSE
      BY <1>1
    <3>3. wk[h].stopped
      BY <1>5, <2>3, <3>2
    <3>4. h # 0
      BY DEF Gens
    <3> QED
      BY <1>0, <1>1, <1>2, <3>1, <3>3, <3>4 DEF WorkersInv
  <2>4. \A h, k \in Gens : Live(h)' /\ Live(k)' /\ wk'[h].widget = wk'[k].widget => h = k
    BY <1>0, <1>8 DEF WorkersInv
  <2>5. \A v \in Widgets : workers'[v] # 0 => Started(workers[v])'
    BY <2>1
  <2> QED
    BY <2>1, <2>2, <2>3, <2>4, <2>5 DEF WorkersInv
<1> QED
  BY <1>8, <1>10, <1>11, <1>12 DEF Inv

\* Once the reload has waited, nobody is live for the widget it is about to
\* purge or restart, and no stopped worker is.
LEMMA NobodyLive ==
    ASSUME Types, LockInv, WorkersInv, NEW w \in Widgets, lock = "held", workers[w] = 0,
           stopping # 0 => StopWaited(stopping)
    PROVE  \A g \in Gens : Live(g) => wk[g].widget # w /\ ~wk[g].stopped
<1> SUFFICES ASSUME NEW g \in Gens, Live(g)
             PROVE  wk[g].widget # w /\ ~wk[g].stopped
  OBVIOUS
<1>1. g # 0
  BY DEF Gens
<1>2. ~wk[g].stopped
  <2> SUFFICES ASSUME wk[g].stopped PROVE FALSE
    OBVIOUS
  <2>1. stopping = g
    BY DEF WorkersInv, LockInv
  <2>2. wk[g].pc \in {"exited", "fetching"}
    BY <1>1, <2>1 DEF StopWaited, At
  <2> QED
    BY <2>2 DEF Live, Busy
<1>3. workers[wk[g].widget] = g
  BY <1>2 DEF WorkersInv, Live
<1> QED
  BY <1>1, <1>2, <1>3

\* A reload goes on to the next widget with its worker, if it has a new one, and
\* with data that is current or none.
LEMMA WidgetRestarts ==
    ASSUME Inv, NEW w \in Widgets, lock = "held", ops[w] # "none", workers[w] = 0,
           stopping # 0 => StopWaited(stopping), stopping' = 0, ops' = [ops EXCEPT ![w] = "none"],
           \A f \in {cache', sink', wire'} : f \in [Widgets -> EntriesOrNone],
           \A v \in Widgets : v # w => cache'[v] = cache[v] /\ sink'[v] = sink[v] /\ wire'[v] = wire[v],
           w \in Polled /\ cache'[w] # NoEntry => domain[w] # 0 /\ cache'[w].dom = domain[w],
           NoPushes /\ w \in Polled /\ cache'[w] # NoEntry => sink'[w] = cache'[w] /\ wire'[w] = cache'[w],
           \/ UNCHANGED <<workers, wk>>
           \/ /\ w \in Polled /\ domain[w] # 0
              /\ \E g \in Gens : /\ wk[g] = NoWorker
                                 /\ workers' = [workers EXCEPT ![w] = g]
                                 /\ wk' = [wk EXCEPT ![g] = NewWorker(w, domain[w])],
           UNCHANGED <<managed, pending, domain, lock, readers, stopped, eventSink, act>>
    PROVE  Inv'
<1>0. /\ Types /\ LockInv /\ WorkersInv /\ QueueInv /\ WorkersCurrent /\ CacheCurrent
      /\ NoPushes => NothingQueued /\ MidwayInOrder /\ RestAgrees
  BY DEF Inv, InOrderInv
<1>1. \A g \in Gens : Live(g) => wk[g].widget # w /\ ~wk[g].stopped
  BY <1>0, NobodyLive
<1>2. /\ ops' \in [Widgets -> Operations] /\ ops'[w] = "none"
      /\ \A v \in Widgets : v # w => ops'[v] = ops[v]
  BY <1>0 DEF Types, Operations
<1>3. LockInv'
  BY <1>0, <1>2 DEF LockInv
<1>4. CacheCurrent'
  BY <1>0, <1>2 DEF CacheCurrent, Settled, Polled
<1>5. \A g \in Gens : Midway(g) => Live(g)
  BY DEF Midway, Live, Busy
<1>6. \A g \in Gens : Started(g) => wk[g].widget \in Widgets
  BY <1>0, StartedType DEF WorkerRecs, Polled
<1>7. stopping' \in 0..MaxGen
  BY BoundsAssumption
<1>8. ASSUME NoPushes, \A g \in Gens : Midway(g)' <=> Midway(g), \A g \in Gens : Midway(g) => wk'[g] = wk[g]
      PROVE  MidwayInOrder' /\ RestAgrees'
  <2>1. \A g \in Gens : Midway(g) => Started(g) /\ wk[g].widget \in Widgets /\ wk[g].widget # w
    BY <1>1, <1>5, <1>6 DEF Midway
  <2>2. MidwayInOrder'
    BY <1>0, <1>2, <1>8, <2>1 DEF MidwayInOrder, Settled
  <2>3. ASSUME NEW v \in Polled, v # w, Settled(v)', cache'[v] # NoEntry,
               \A g \in Gens : Midway(g)' => wk'[g].widget # v
        PROVE  sink'[v] = cache'[v] /\ wire'[v] = cache'[v]
    <3>1. v \in Widgets /\ Settled(v) /\ cache[v] # NoEntry
      BY <1>2, <2>3 DEF Settled, Polled
    <3>2. \A g \in Gens : Midway(g) => wk[g].widget # v
      BY <1>8, <2>3
    <3> QED
      BY <1>0, <1>8, <2>3, <3>1, <3>2 DEF RestAgrees
  <2>4. RestAgrees'
    BY <1>8, <2>3 DEF RestAgrees
  <2> QED
    BY <2>2, <2>4
<1>9. CASE UNCHANGED <<workers, wk>>
  <2>1. \A g \in Gens : (Started(g)' <=> Started(g)) /\ (Live(g)' <=> Live(g)) /\ (Midway(g)' <=> Midway(g))
    BY <1>9 DEF Started, Live, Midway
  <2>2. Types'
    BY <1>0, <1>2, <1>7, <1>9 DEF Types
  <2>3. WorkersInv'
    BY <1>0, <1>1, <1>9, <2>1 DEF WorkersInv, Started
  <2>4. WorkersCurrent'
    BY <1>0, <1>1, <1>2, <1>6, <1>9, <2>1 DEF WorkersCurrent, Settled, Live
  <2>5. QueueInv'
    BY <1>0, <2>1, QueueKept
  <2>6. ASSUME NoPushes PROVE InOrderInv'
    <3>1. NothingQueued'
      BY <1>0, <1>9, <2>6 DEF NothingQueued, Started
    <3>2. MidwayInOrder' /\ RestAgrees'
      BY <1>8, <1>9, <2>1, <2>6
    <3> QED
      BY <3>1, <3>2 DEF InOrderInv
  <2> QED
    BY <1>3, <1>4, <2>2, <2>3, <2>4, <2>5, <2>6 DEF Inv
<1>10. ASSUME w \in Polled, domain[w] # 0, NEW g \in Gens, wk[g] = NoWorker,
              workers' = [workers EXCEPT ![w] = g], wk' = [wk EXCEPT ![g] = NewWorker(w, domain[w])]
       PROVE  Inv'
  <2> DEFINE r == NewWorker(w, domain[w])
  <2>1. r \in WorkerRecs
    BY <1>0, <1>10, DomainType, NewWorkerType DEF Types
  <2>2. /\ r.pc = "fetching" /\ r.widget = w /\ r.dom = domain[w] /\ r.stopped = FALSE
        /\ r.fwd = "idle"
    BY DEF NewWorker
  <2>3. wk' = [wk EXCEPT ![g] = r]
    BY <1>10
  <2> HIDE DEF r
  <2>4. /\ wk' \in [Gens -> WorkerRecs \cup {NoWorker}] /\ wk'[g] = r
        /\ \A h \in Gens : h # g => wk'[h] = wk[h]
    BY <1>0, <2>1, <2>3 DEF Types
  <2>5. Started(g)' /\ ~Started(g) /\ \A h \in Gens : h # g => (Started(h)' <=> Started(h))
    BY <1>10, <2>1, <2>4, NoWorkerType DEF Started
  <2>6. Live(g)' /\ \A h \in Gens : h # g => (Live(h)' <=> Live(h))
    BY <2>2, <2>4, <2>5 DEF Live
  <2>7. ~Midway(g)' /\ ~Midway(g) /\ \A h \in Gens : h # g => (Midway(h)' <=> Midway(h))
    BY <2>2, <2>4, <2>5 DEF Midway
  <2>8. /\ workers' \in [Widgets -> 0..MaxGen] /\ workers'[w] = g
        /\ \A v \in Widgets : v # w => workers'[v] = workers[v]
    BY <1>0, <1>10, BoundsAssumption DEF Types, Gens
  <2>9. Types'
    BY <1>0, <1>2, <1>7, <2>4, <2>8 DEF Types
  <2>10. WorkersInv'
    <3>1. ASSUME NEW v \in Widgets, workers'[v] # 0
          PROVE  Started(workers[v])' /\ wk'[workers'[v]].widget = v /\ ~wk'[workers'[v]].stopped
      <4>1. CASE v = w
        BY <2>2, <2>4, <2>5, <2>8, <4>1 DEF Started
      <4>2. CASE v # w
        <5>1. workers'[v] = workers[v] /\ workers[v] # 0
          BY <2>8, <3>1, <4>2
        <5>2. /\ workers[v] \in Gens /\ Started(workers[v]) /\ wk[workers[v]].widget = v
              /\ ~wk[workers[v]].stopped
          BY <1>0, <5>1, BoundsAssumption DEF Types, Gens, WorkersInv
        <5>3. workers[v] # g
          BY <2>5, <5>2
        <5>4. wk'[workers[v]] = wk[workers[v]]
          BY <2>4, <5>2, <5>3
        <5> QED
          BY <5>1, <5>2, <5>4 DEF Started
      <4> QED
        BY <4>1, <4>2
    <3>2. ASSUME NEW h \in Gens, Started(h)', ~wk'[h].stopped
          PROVE  workers'[wk'[h].widget] = h
      <4>1. CASE h = g
        BY <2>2, <2>4, <2>8, <4>1
      <4>2. CASE h # g
        <5>1. wk'[h] = wk[h] /\ Started(h) /\ Live(h)
          BY <2>4, <2>5, <3>2, <4>2 DEF Live
        <5>2. wk[h].widget \in Widgets /\ wk[h].widget # w /\ workers[wk[h].widget] = h
          BY <1>0, <1>1, <1>6, <3>2, <5>1 DEF WorkersInv
        <5> QED
          BY <2>8, <5>1, <5>2
      <4> QED
        BY <4>1, <4>2
    <3>3. \A h \in Gens : Live(h)' => ~wk'[h].stopped
      BY <1>1, <2>2, <2>4, <2>6
    <3>4. \A h, k \in Gens : Live(h)' /\ Live(k)' /\ wk'[h].widget = wk'[k].widget => h = k
      BY <1>0, <1>1, <2>2, <2>4, <2>6 DEF WorkersInv
    <3> QED
      BY <3>1, <3>2, <3>3, <3>4 DEF WorkersInv
  <2>11. WorkersCurrent'
    BY <1>0, <1>1, <1>2, <1>6, <1>10, <2>2, <2>4, <2>6 DEF WorkersCurrent, Settled, Live
  <2>12. QueueInv'
    BY <1>0, <2>5, QueueKept
  <2>13. ASSUME NoPushes PROVE InOrderInv'
    <3>1. NothingQueued'
      BY <1>0, <2>2, <2>4, <2>5, <2>13 DEF NothingQueued
    <3>2. \A h \in Gens : (Midway(h)' <=> Midway(h)) /\ (Midway(h) => wk'[h] = wk[h])
      BY <2>4, <2>7
    <3>3. MidwayInOrder' /\ RestAgrees'
      BY <1>8, <2>13, <3>2
    <3> QED
      BY <3>1, <3>3 DEF InOrderInv
  <2> QED
    BY <1>3, <1>4, <2>9, <2>10, <2>11, <2>12, <2>13 DEF Inv
<1> QED
  BY <1>9, <1>10

\* The rest of a reload's work for one widget.
LEMMA ReconcileInv ==
    ASSUME Inv, NEW w \in Widgets, Reconcile(w)
    PROVE  Inv'
<1> DEFINE op == ops[w]
           d == domain[w]
           c == IF Purges(op) THEN [cache EXCEPT ![w] = NoEntry] ELSE cache
           s == IF op = "modified" THEN [sink EXCEPT ![w] = ResetEntry(d)] ELSE sink
           b == IF op = "modified" THEN [wire EXCEPT ![w] = ResetEntry(d)] ELSE wire
<1>0. /\ Types /\ LockInv /\ WorkersInv /\ CacheCurrent
      /\ NoPushes => RestAgrees
  BY DEF Inv, InOrderInv
<1>1. /\ lock = "held" /\ op # "none" /\ workers[w] = 0
      /\ stopping # 0 => StopWaited(stopping)
      /\ stopping' = 0 /\ ops' = [ops EXCEPT ![w] = "none"]
      /\ UNCHANGED <<managed, pending, domain, lock, readers, stopped, eventSink, act>>
  BY DEF Reconcile, NextOp
<1>2. \/ op = "removed" /\ cache' = c /\ UNCHANGED <<workers, wk, sink, wire>>
      \/ op # "removed" /\ StartWidget(w, d, c, s, b)
  BY DEF Reconcile
<1>3. op \in Operations /\ d \in Domains /\ (op # "removed" => d # 0)
  BY <1>0, <1>1, DomainType DEF Types, LockInv
<1>4. ResetEntry(d) \in EntriesOrNone /\ NoEntry \in EntriesOrNone
  BY <1>3 DEF ResetEntry, EntriesOrNone, Entries
<1>5. /\ \A f \in {c, s, b} : f \in [Widgets -> EntriesOrNone]
      /\ \A v \in Widgets : v # w => c[v] = cache[v] /\ s[v] = sink[v] /\ b[v] = wire[v]
  BY <1>0, <1>4 DEF Types
<1>6. ASSUME c[w] # NoEntry
      PROVE  Settled(w) /\ c[w] = cache[w] /\ s[w] = sink[w] /\ b[w] = wire[w]
  <2>1. ~Purges(op)
    BY <1>0, <1>6 DEF Types
  <2> QED
    BY <2>1 DEF Purges, Settled
<1>7. \A g \in Gens : Midway(g) => wk[g].widget # w
  BY <1>0, <1>1, NobodyLive DEF Midway, Live, Busy
<1>8. w \in Polled /\ c[w] # NoEntry => d # 0 /\ c[w].dom = d
  BY <1>0, <1>6 DEF CacheCurrent
<1>9. NoPushes /\ w \in Polled /\ c[w] # NoEntry => s[w] = c[w] /\ b[w] = c[w]
  BY <1>0, <1>6, <1>7 DEF RestAgrees
<1>10. op = "removed" => c[w] = NoEntry
  BY <1>0 DEF Purges, Types
<1> HIDE DEF op, d, c, s, b
<1>11. CASE op = "removed" /\ cache' = c /\ UNCHANGED <<workers, wk, sink, wire>>
  <2>1. \A f \in {cache', sink', wire'} : f \in [Widgets -> EntriesOrNone]
    BY <1>0, <1>5, <1>11 DEF Types
  <2>2. cache'[w] = NoEntry /\ UNCHANGED <<workers, wk>>
    BY <1>10, <1>11
  <2>3. \A v \in Widgets : v # w => cache'[v] = cache[v] /\ sink'[v] = sink[v] /\ wire'[v] = wire[v]
    BY <1>5, <1>11
  <2> QED
    BY <1>1, <2>1, <2>2, <2>3, WidgetRestarts DEF op
<1>12. ASSUME op # "removed", NEW e \in Entries, e.dom = d, UNCHANGED <<workers, wk>>,
              cache' = [c EXCEPT ![w] = e], sink' = [s EXCEPT ![w] = e], wire' = [b EXCEPT ![w] = e]
       PROVE  Inv'
  <2>1. /\ \A f \in {cache', sink', wire'} : f \in [Widgets -> EntriesOrNone]
        /\ cache'[w] = e /\ sink'[w] = e /\ wire'[w] = e
        /\ \A v \in Widgets : v # w => cache'[v] = cache[v] /\ sink'[v] = sink[v] /\ wire'[v] = wire[v]
    BY <1>5, <1>12 DEF EntriesOrNone
  <2>2. d # 0 /\ cache'[w].dom = d
    BY <1>3, <1>12, <2>1
  <2>3. domain[w] # 0 /\ cache'[w].dom = domain[w]
    BY <2>2 DEF d
  <2>4. sink'[w] = cache'[w] /\ wire'[w] = cache'[w] /\ UNCHANGED <<workers, wk>>
    BY <1>12, <2>1
  <2>5. /\ \A f \in {cache', sink', wire'} : f \in [Widgets -> EntriesOrNone]
        /\ \A v \in Widgets : v # w => cache'[v] = cache[v] /\ sink'[v] = sink[v] /\ wire'[v] = wire[v]
    BY <2>1
  <2> QED
    BY <1>1, <2>3, <2>4, <2>5, WidgetRestarts DEF op
<1>13. CASE op # "removed" /\ w \in ChatWidgets /\ StartWidget(w, d, c, s, b)
  <2>1. Success(d, "blank") \in Entries /\ Success(d, "blank").dom = d
    BY <1>3, SuccessType
  <2>2. /\ UNCHANGED <<workers, wk>>
        /\ cache' = [c EXCEPT ![w] = Success(d, "blank")]
        /\ sink' = [s EXCEPT ![w] = Success(d, "blank")]
        /\ wire' = [b EXCEPT ![w] = Success(d, "blank")]
    BY <1>13 DEF StartWidget
  <2> HIDE DEF Success
  <2> QED
    BY <1>12, <1>13, <2>1, <2>2
<1>14. CASE op # "removed" /\ w \notin ChatWidgets /\ StartWidget(w, d, c, s, b)
  <2>0. w \in Polled
    BY <1>14 DEF Polled
  <2>1. CASE /\ UNCHANGED <<workers, wk>>
             /\ cache' = [c EXCEPT ![w] = Failure(c[w], d)]
             /\ sink' = [s EXCEPT ![w] = Failure(c[w], d)]
             /\ wire' = [b EXCEPT ![w] = Failure(c[w], d)]
    <3>1. c[w] \in EntriesOrNone
      BY <1>5
    <3>2. Failure(c[w], d) \in Entries /\ Failure(c[w], d).dom = d
      BY <1>3, <1>8, <2>0, <3>1, FailureType
    <3> QED
      BY <1>12, <1>14, <2>1, <3>2
  <2>2. CASE /\ \E g \in Gens : /\ Unused(g)
                                /\ workers' = [workers EXCEPT ![w] = g]
                                /\ wk' = [wk EXCEPT ![g] = NewWorker(w, d)]
             /\ cache' = c /\ sink' = s /\ wire' = b
    <3>1. /\ \A f \in {cache', sink', wire'} : f \in [Widgets -> EntriesOrNone]
          /\ \A v \in Widgets : v # w => cache'[v] = cache[v] /\ sink'[v] = sink[v] /\ wire'[v] = wire[v]
      BY <1>5, <2>2
    <3>2. /\ w \in Polled /\ cache'[w] # NoEntry => domain[w] # 0 /\ cache'[w].dom = domain[w]
          /\ NoPushes /\ w \in Polled /\ cache'[w] # NoEntry => sink'[w] = cache'[w] /\ wire'[w] = cache'[w]
      BY <1>8, <1>9, <2>2 DEF d
    <3>3. /\ w \in Polled /\ domain[w] # 0
          /\ \E g \in Gens : /\ wk[g] = NoWorker
                             /\ workers' = [workers EXCEPT ![w] = g]
                             /\ wk' = [wk EXCEPT ![g] = NewWorker(w, domain[w])]
      BY <1>3, <1>14, <2>0, <2>2 DEF Unused, d
    <3> QED
      BY <1>1, <3>1, <3>2, <3>3, WidgetRestarts DEF op
  <2> QED
    BY <1>14, <2>1, <2>2 DEF StartWidget
<1> QED
  BY <1>2, <1>11, <1>13, <1>14

\* Shutdown stops every worker in the map; one that is busy goes on to the end
\* of its broadcast.
LEMMA ShutdownInv ==
    ASSUME Inv, Shutdown
    PROVE  Inv'
<1>0. /\ Types /\ LockInv /\ WorkersInv /\ QueueInv /\ WorkersCurrent /\ CacheCurrent
      /\ NoPushes => InOrderInv
  BY DEF Inv
<1>1. /\ lock # "held" /\ stopped' = TRUE /\ workers' = [w \in Widgets |-> 0]
      /\ wk' = [g \in Gens |-> IF \E w \in Widgets : workers[w] = g
                               THEN [wk[g] EXCEPT !.stopped = TRUE] ELSE wk[g]]
      /\ UNCHANGED <<configVars, readers, eventSink, act, dataVars>>
  BY DEF Shutdown
<1>2. ASSUME NEW g \in Gens
      PROVE  /\ wk'[g] \in WorkerRecs \cup {NoWorker}
             /\ wk'[g] = wk[g] \/ (Started(g) /\ wk'[g] = [wk[g] EXCEPT !.stopped = TRUE])
             /\ Started(g) => wk'[g].stopped
  <2>1. wk[g] \in WorkerRecs \cup {NoWorker}
    BY <1>0 DEF Types
  <2>2. CASE \E w \in Widgets : workers[w] = g
    <3>1. Started(g)
      BY <1>0, <2>2 DEF WorkersInv, Gens
    <3>2. wk'[g] = [wk[g] EXCEPT !.stopped = TRUE]
      BY <1>1, <2>2
    <3>3. wk[g] \in WorkerRecs
      BY <1>0, <3>1, StartedType
    <3> QED
      BY <3>1, <3>2, <3>3, StoppedRec
  <2>3. CASE ~\E w \in Widgets : workers[w] = g
    <3>1. wk'[g] = wk[g]
      BY <1>1, <2>3
    <3>2. ASSUME Started(g) PROVE wk[g].stopped
      <4>1. wk[g].widget \in Widgets
        BY <1>0, <3>2, StartedType DEF WorkerRecs, Polled
      <4> QED
        BY <1>0, <2>3, <3>2, <4>1 DEF WorkersInv
    <3> QED
      BY <2>1, <3>1, <3>2
  <2> QED
    BY <2>2, <2>3
<1>3. wk' \in [Gens -> WorkerRecs \cup {NoWorker}]
  BY <1>1, <1>2
<1>4. UNCHANGED <<domain, ops, dataVars, eventSink, act>>
  BY <1>1 DEF configVars
<1>5. /\ \A h \in Gens : (Started(h)' <=> Started(h)) /\ (Live(h)' => Live(h))
      /\ \A h \in Gens : wk'[h].widget = wk[h].widget
      /\ WorkersCurrent' /\ QueueInv' /\ (NoPushes => InOrderInv')
  BY <1>0, <1>2, <1>3, <1>4, StoppingKeeps
<1>6. workers' \in [Widgets -> 0..MaxGen]
  BY <1>1, BoundsAssumption
<1>7. stopped' \in BOOLEAN /\ stopped'
  BY <1>1, Zenon
<1>8. Types'
  BY <1>0, <1>1, <1>3, <1>6, <1>7 DEF Types, configVars, dataVars
<1>9. LockInv' /\ CacheCurrent'
  BY <1>0, <1>1 DEF LockInv, CacheCurrent, Settled, configVars, dataVars
<1>10. WorkersInv'
  <2>1. \A w \in Widgets : workers'[w] = 0
    BY <1>1
  <2>2. \A g \in Gens : Started(g)' => wk'[g].stopped
    BY <1>2, <1>5
  <2>3. \A g, h \in Gens : Live(g)' /\ Live(h)' /\ wk'[g].widget = wk'[h].widget => g = h
    BY <1>0, <1>5 DEF WorkersInv
  <2> QED
    BY <1>7, <2>1, <2>2, <2>3 DEF WorkersInv
<1> QED
  BY <1>5, <1>8, <1>9, <1>10 DEF Inv

-----------------------------------------------------------------------------
(* The theorems.                                                           *)

\* NewCoordinator, before it starts a first worker.
LEMMA Start == Init => Inv
<1> SUFFICES ASSUME Init PROVE Inv
  OBVIOUS
<1>1. /\ managed \in Configs /\ domain = managed /\ lock = "held" /\ stopping = 0 /\ readers = {}
      /\ ops = Diff([w \in Widgets |-> 0], managed, {}, FALSE)
      /\ workers = [w \in Widgets |-> 0] /\ wk = [g \in Gens |-> NoWorker] /\ eventSink = <<>>
      /\ act = [a \in Actors |-> IdleActor] /\ cache = [w \in Widgets |-> NoEntry]
      /\ sink = cache /\ wire = cache
  BY DEF Init
<1>2. stopped \in BOOLEAN /\ ~stopped
  BY Zenon DEF Init
<1>3. \A w \in Widgets :
        /\ ops[w] \in Operations
        /\ ops[w] = "removed" => domain[w] = 0
        /\ ops[w] \notin {"none", "removed"} => domain[w] # 0
  <2>1. \A w \in Widgets : ops[w] = IF managed[w] = 0 THEN "none" ELSE "added"
    BY <1>1 DEF Diff
  <2> QED
    BY <1>1, <2>1 DEF Operations
<1>4. ops \in [Widgets -> Operations]
  BY <1>1, <1>3 DEF Diff
<1>5. IdleActor \in ActorRecs /\ IdleActor.pc = "idle"
  BY DEF IdleActor, ActorRecs
<1>6. act \in [Actors -> ActorRecs] /\ \A a \in Actors : act[a] = IdleActor
  BY <1>1, <1>5
<1>7. eventSink \in Seq(Gens) /\ Len(eventSink) = 0 /\ Len(eventSink) <= SinkCapacity
  BY <1>1, SinkAssumption, EmptySeq
<1>8. NoEntry \in EntriesOrNone
  BY DEF EntriesOrNone
<1>9. Types
  <2>1. workers \in [Widgets -> 0..MaxGen] /\ stopping \in 0..MaxGen
    BY <1>1, BoundsAssumption
  <2>2. wk \in [Gens -> WorkerRecs \cup {NoWorker}]
    BY <1>1
  <2>3. cache \in [Widgets -> EntriesOrNone] /\ sink = cache /\ wire = cache
    BY <1>1, <1>8
  <2>4. lock \in {"free", "wanted", "held"} /\ readers \subseteq Actors
    BY <1>1
  <2> QED
    BY <1>1, <1>2, <1>4, <1>6, <1>7, <2>1, <2>2, <2>3, <2>4 DEF Types
<1>10. LockInv
  BY <1>1, <1>2, <1>3 DEF LockInv
<1>11. (\A g \in Gens : ~Started(g)) /\ (\A w \in Widgets : workers[w] = 0 /\ cache[w] = NoEntry)
  BY <1>1 DEF Started
<1>12. WorkersInv /\ WorkersCurrent
  BY <1>11 DEF WorkersInv, WorkersCurrent, Live
<1>13. CacheCurrent /\ RestAgrees
  BY <1>11 DEF CacheCurrent, RestAgrees, Polled
<1>14. MidwayInOrder
  BY <1>11 DEF MidwayInOrder, Midway
<1>15. "chat" \in Actors
  BY DEF Actors
<1>16. QueueInv
  BY <1>5, <1>6, <1>7, <1>15 DEF QueueInv
<1>17. NothingQueued
  BY <1>1, <1>6, <1>11 DEF NothingQueued
<1> QED
  BY <1>9, <1>10, <1>12, <1>13, <1>14, <1>16, <1>17 DEF Inv, InOrderInv

\* Steps outside the coordinator change nothing.
LEMMA Stutter ==
    ASSUME Inv, UNCHANGED vars
    PROVE  Inv'
  BY DEF Inv, vars, configVars, dataVars, Types, LockInv, WorkersInv, QueueInv, WorkersCurrent,
         CacheCurrent, InOrderInv, NothingQueued, MidwayInOrder, RestAgrees, Live, Started, Midway, Settled

\* Every step keeps the invariant.
LEMMA Step == Inv /\ [Next]_vars => Inv'
<1> SUFFICES ASSUME Inv, [Next]_vars PROVE Inv'
  OBVIOUS
<1>1. ASSUME NEW g \in Gens, WorkerStep(g) PROVE Inv'
  <2>1. CASE \/ FetchReturns(g, "succeeded") \/ FetchReturns(g, "failed") \/ Wake(g)
    BY <2>1, FetchOrWakeInv
  <2>2. CASE RecordFetch(g)
    BY <2>2, RecordFetchInv
  <2>3. CASE SyncFetch(g) \/ BroadcastFetch(g)
    BY <2>3, SyncOrBroadcastInv
  <2> QED
    BY <1>1, <2>1, <2>2, <2>3 DEF WorkerStep
<1>2. ASSUME NEW g \in Gens, TakePush(g) \/ ForwardPush(g) \/ StopForwarder(g) PROVE Inv'
  BY <1>2, ForwarderInv
<1>3. ASSUME NEW p \in Pushers, NEW w \in Widgets, PushWidgetData(p, w) PROVE Inv'
  BY <1>3, PushWidgetDataInv
<1>4. CASE TakeEvent
  BY <1>4, TakeEventInv
<1>5. CASE RecordWorkerPush
  BY <1>5, RecordWorkerPushInv
<1>6. ASSUME NEW w \in Widgets, ChatChanged(w) PROVE Inv'
  BY <1>6, ChatChangedInv
<1>7. CASE PushUpdate
  BY <1>7, PushUpdateInv
<1>8. ASSUME NEW a \in Actors, SyncPush(a) \/ BroadcastPush(a) PROVE Inv'
  BY <1>8, SyncOrBroadcastPushInv
<1>9. CASE (\E new \in Configs : Reload(new)) \/ AwaitLock \/ RefuseUpdate \/ EndUpdate
  BY <1>9, HandOverInv
<1>10. ASSUME NEW soft \in SUBSET Widgets, NEW timezone \in BOOLEAN, BeginUpdate(soft, timezone) PROVE Inv'
  BY <1>10, BeginUpdateInv
<1>11. ASSUME NEW w \in Widgets, StopWorker(w) PROVE Inv'
  BY <1>11, StopWorkerInv
<1>12. ASSUME NEW w \in Widgets, Reconcile(w) PROVE Inv'
  BY <1>12, ReconcileInv
<1>13. CASE Shutdown
  BY <1>13, ShutdownInv
<1>14. CASE UNCHANGED vars
  BY <1>14, Stutter
<1> QED
  BY <1>1, <1>2, <1>3, <1>4, <1>5, <1>6, <1>7, <1>8, <1>9, <1>10, <1>11, <1>12, <1>13, <1>14
     DEF Next, UpdateStep

\* The invariant holds in every state of the coordinator (coordinator.go).
THEOREM Invariance == Spec => []Inv
<1>1. Init => Inv
  BY Start
<1>2. Inv /\ [Next]_vars => Inv'
  BY Step
<1> QED
  BY <1>1, <1>2, PTL DEF Spec

\* The state keeps its shape, no reader is in while a reload holds the lock, and
\* the workers map only holds running workers of configured widgets
\* (UpdateConfig, stopWorkerLocked).
THEOREM Typing == Spec => []TypeOK
<1>1. ASSUME Inv PROVE TypeOK
  <2>1. Types /\ LockInv /\ WorkersInv /\ WorkersCurrent
    BY <1>1 DEF Inv
  <2>2. ASSUME NEW w \in Widgets, workers[w] # 0
        PROVE  /\ wk[workers[w]].widget = w /\ ~wk[workers[w]].stopped
               /\ domain[w] # 0 \/ ops[w] = "removed"
    <3>1. workers[w] \in Gens
      BY <2>1, <2>2, BoundsAssumption DEF Types, Gens
    <3>2. Live(workers[w]) /\ wk[workers[w]].widget = w /\ ~wk[workers[w]].stopped
      BY <2>1, <2>2 DEF WorkersInv, Live
    <3>3. Settled(w) => domain[w] # 0
      BY <2>1, <3>1, <3>2 DEF WorkersCurrent
    <3>4. ops[w] = "modified" => domain[w] # 0
      BY <2>1 DEF LockInv
    <3> QED
      BY <3>2, <3>3, <3>4 DEF Settled
  <2> QED
    BY <2>1, <2>2 DEF TypeOK, Types, LockInv, EntriesOrNone
<1> QED
  BY <1>1, Invariance, PTL

\* Once a reload is done, the cache of a polled widget holds nothing that was
\* fetched or pushed for an earlier configuration of it, however late a fetch
\* returns or a push arrives (UpdateConfig, fetchAndRecord, recordWorkerPush,
\* recordPushLocked).
THEOREM PurgedNeverReturns == Spec => []PurgedStaysPurged
<1>1. ASSUME Inv PROVE PurgedStaysPurged
  <2>1. lock # "held" => \A w \in Widgets : Settled(w)
    BY <1>1 DEF Inv, LockInv, Settled
  <2> QED
    BY <1>1, <2>1 DEF Inv, CacheCurrent, PurgedStaysPurged, Polled
<1> QED
  BY <1>1, Invariance, PTL

\* Where the data of polled widgets comes from their fetches only, what clients
\* were told and what a new client is given is what the cache holds, whenever
\* nobody is in the middle of an update, across reloads, restarts and shutdown
\* (syncAndBroadcast).
THEOREM SinkAlwaysAgrees == NoPushes => (Spec => []SinkAgrees)
<1>1. ASSUME Inv, NoPushes PROVE SinkAgrees
  <2> SUFFICES ASSUME Quiet, NEW w \in Polled, cache[w] # NoEntry
               PROVE  sink[w] = cache[w] /\ wire[w] = cache[w]
    BY DEF SinkAgrees, Polled
  <2>1. RestAgrees
    BY <1>1 DEF Inv, InOrderInv
  <2>2. \A g \in Gens : ~Midway(g)
    BY DEF Quiet, Midway
  <2>3. Settled(w)
    BY <1>1 DEF Inv, LockInv, Settled, Quiet, Polled
  <2> QED
    BY <2>1, <2>2, <2>3 DEF RestAgrees
<1>2. SUFFICES ASSUME NoPushes PROVE Spec => []SinkAgrees
  OBVIOUS
<1>3. Inv => SinkAgrees
  BY <1>1, <1>2
<1> QED
  BY <1>3, Invariance, PTL
=============================================================================
