------------------------------ MODULE EventHub ------------------------------
(***************************************************************************)
(* The server-sent-events bus: internal/events/{hub,ring,handler}.go and   *)
(* the state provider that hydrates new connections (hydration.go).        *)
(*                                                                         *)
(* Publishing is a sequence of separately locked steps (allocate an id,    *)
(* add to the ring, sync the hydration state, copy the subscriber list,    *)
(* send to one subscriber after the other), so publishers interleave with  *)
(* each other and with connecting clients.  A connection subscribes first  *)
(* and then reads either the hydration state or the ring after the         *)
(* client's Last-Event-ID.  A subscriber whose buffer is full is evicted;  *)
(* its client drains what was buffered and reconnects.                     *)
(*                                                                         *)
(* A coordinator publishes after it has released its mutex, so several     *)
(* goroutines may publish the same key at once; the history variables tell *)
(* which publications overlapped.                                          *)
(*                                                                         *)
(* The value an event carries is its id.  The ring is the sequence of its  *)
(* entries, oldest first (EventRing relates it to the circular array).     *)
(***************************************************************************)
EXTENDS Integers, Sequences, FiniteSets

CONSTANTS
    Publishers,  \* goroutines that publish, numbered
    Keys,        \* state event types: screen.rotate, audio.state, video.state...
    Clients,     \* displays with an EventSource
    Capacity,    \* ring capacity
    Buffer,      \* subscriber channel capacity
    MaxEvents,   \* bound: events published in one behaviour
    Writes       \* bound: the keys that each of these events may have

ASSUME KeysAssumption == IsFiniteSet(Keys)
ASSUME PublishersAssumption == Publishers \subseteq Nat
ASSUME CapacityAssumption == Capacity \in Nat \ {0}
ASSUME BufferAssumption == Buffer \in Nat \ {0}
ASSUME MaxEventsAssumption == MaxEvents \in Nat
ASSUME WritesAssumption == Writes \in [1..MaxEvents -> SUBSET Keys]

VARIABLES
    nextId,      \* IDGenerator.seq; ids carry the time, so a restart repeats none
    state,       \* InMemoryStateProvider: the value of every key, 0 the default
    ring,        \* ring entries, oldest first
    expired,     \* how many of the oldest entries are past the TTL
    closed,      \* Hub.closed
    pc, evt,     \* per publisher: the step it is at and its event
    targets,     \* per publisher: open subscribers it has still to send to
    full,        \* per publisher: the subscriber it is about to evict, if any
    overlapped,  \* history: two publications have overlapped since the server started
    raced,       \* history: keys whose last publication began while another of the key was under way
    phase,       \* per client: its connection's handler
    open,        \* per client: its subscriber is registered and not closed
    queue,       \* per client: the subscriber's channel
    batch,       \* per client: initial events not written yet
    seen,        \* per client: seenReplayIDs, {} for nil
    hydrated,    \* history, per client: this connection began with a hydration
    lastId,      \* per client: the id of the last event received, 0 if not a ring event
    view         \* per client: the state it shows

hubVars == <<nextId, state, ring, expired, closed>>
pubVars == <<pc, evt, targets, full, overlapped, raced>>
clientVars == <<phase, open, queue, batch, seen, hydrated, lastId, view>>
vars == <<hubVars, pubVars, clientVars>>

Event == [id: Nat, key: Keys, val: Nat]
NoEvent == [id |-> 0]

Init ==
    /\ nextId = 1
    /\ state = [k \in Keys |-> 0]
    /\ ring = <<>>
    /\ expired = 0
    /\ closed = FALSE
    /\ pc = [p \in Publishers |-> "idle"]
    /\ evt = [p \in Publishers |-> NoEvent]
    /\ targets = [p \in Publishers |-> {}]
    /\ full = [p \in Publishers |-> {}]
    /\ overlapped = FALSE
    /\ raced = {}
    /\ phase = [c \in Clients |-> "offline"]
    /\ open = [c \in Clients |-> FALSE]
    /\ queue = [c \in Clients |-> <<>>]
    /\ batch = [c \in Clients |-> <<>>]
    /\ seen = [c \in Clients |-> {}]
    /\ hydrated = [c \in Clients |-> FALSE]
    /\ lastId = [c \in Clients |-> 0]
    /\ view = [c \in Clients |-> [k \in Keys |-> 0]]

-----------------------------------------------------------------------------
(* Publishing.                                                             *)

Goto(p, step) == pc' = [pc EXCEPT ![p] = step]

\* No publication of the key is under way.
Settled(k) == \A q \in Publishers : pc[q] # "idle" => evt[q].key # k

\* Publish: the id is allocated, a closed hub drops the event.  Any goroutine
\* may publish any key, several of them one key; as they are interchangeable
\* the first free one does.
Publish(p, k) ==
    /\ pc[p] = "idle"
    /\ \A q \in Publishers : q < p => pc[q] # "idle"
    /\ ~closed
    /\ nextId <= MaxEvents
    /\ k \in Writes[nextId]
    /\ evt' = [evt EXCEPT ![p] = [id |-> nextId, key |-> k, val |-> nextId]]
    /\ nextId' = nextId + 1
    /\ overlapped' = (overlapped \/ \E q \in Publishers : pc[q] # "idle")
    /\ raced' = IF Settled(k) THEN raced \ {k} ELSE raced \cup {k}
    /\ Goto(p, "add")
    /\ UNCHANGED <<state, ring, expired, closed, targets, full, clientVars>>

\* RingBuffer.Add: the oldest entry gives way when the ring is full.
RingAdd(p) ==
    /\ pc[p] = "add"
    /\ LET isFull == Len(ring) = Capacity IN
         /\ ring' = Append(IF isFull THEN Tail(ring) ELSE ring, evt[p])
         /\ expired' = IF isFull /\ expired > 0 THEN expired - 1 ELSE expired
    /\ Goto(p, "sync")
    /\ UNCHANGED <<nextId, state, closed, evt, targets, full, clientVars, overlapped, raced>>

\* syncStateProvider
SyncState(p) ==
    /\ pc[p] = "sync"
    /\ state' = [state EXCEPT ![evt[p].key] = evt[p].val]
    /\ Goto(p, "snapshot")
    /\ UNCHANGED <<nextId, ring, expired, closed, evt, targets, full, clientVars, overlapped, raced>>

\* The subscriber list is copied under the hub's read lock.
CopySubscribers(p) ==
    /\ pc[p] = "snapshot"
    /\ targets' = [targets EXCEPT ![p] = {c \in Clients : open[c]}]
    /\ Goto(p, "send")
    /\ UNCHANGED <<hubVars, evt, full, clientVars, overlapped, raced>>

\* trySend: never blocks; a full buffer sends the publisher on to Unsubscribe.
TrySend(p, c) ==
    /\ pc[p] = "send"
    /\ full[p] = {}
    /\ c \in targets[p]
    /\ targets' = [targets EXCEPT ![p] = @ \ {c}]
    /\ IF Len(queue[c]) < Buffer
       THEN /\ queue' = [queue EXCEPT ![c] = Append(@, evt[p])]
            /\ UNCHANGED full
       ELSE /\ full' = [full EXCEPT ![p] = {c}]
            /\ UNCHANGED queue
    /\ UNCHANGED <<hubVars, pc, evt, phase, open, batch, seen, hydrated, lastId, view, overlapped, raced>>

\* The subscriptions of cs are closed: further sends to them do nothing.
Unsubscribe(cs) ==
    /\ open' = [c \in Clients |-> open[c] /\ c \notin cs]
    /\ targets' = [q \in Publishers |-> targets[q] \ cs]

\* Fault: the event is dropped and the slow subscriber stays.
Evict_Drops(p) ==
    /\ pc[p] = "send"
    /\ full[p] # {}
    /\ full' = [full EXCEPT ![p] = {}]
    /\ UNCHANGED <<hubVars, pc, evt, targets, clientVars, overlapped, raced>>

\* Unsubscribe of the slow subscriber; what it has buffered stays readable.
Evict(p) ==
    /\ pc[p] = "send"
    /\ full[p] # {}
    /\ Unsubscribe(full[p])
    /\ full' = [full EXCEPT ![p] = {}]
    /\ UNCHANGED <<hubVars, pc, evt, phase, queue, batch, seen, hydrated, lastId, view, overlapped, raced>>

Published(p) ==
    /\ pc[p] = "send"
    /\ targets[p] = {}
    /\ full[p] = {}
    /\ Goto(p, "idle")
    /\ UNCHANGED <<hubVars, evt, targets, full, clientVars, overlapped, raced>>

\* Time passes: the oldest entry that was within the TTL no longer is.
Expire ==
    /\ expired < Len(ring)
    /\ expired' = expired + 1
    /\ UNCHANGED <<nextId, state, ring, closed, pubVars, clientVars>>

\* Close: every subscriber is removed and closed.
Close ==
    /\ ~closed
    /\ closed' = TRUE
    /\ Unsubscribe(Clients)
    /\ UNCHANGED <<nextId, state, ring, expired, pc, evt, full, phase, queue, batch, seen,
                   hydrated, lastId, view, overlapped, raced>>

-----------------------------------------------------------------------------
(* Connections.                                                            *)

\* The handler subscribes before anything else.
Connect(c) ==
    /\ phase[c] = "offline"
    /\ phase' = [phase EXCEPT ![c] = "subscribed"]
    /\ open' = [open EXCEPT ![c] = ~closed]
    /\ queue' = [queue EXCEPT ![c] = <<>>]
    /\ UNCHANGED <<hubVars, pubVars, batch, seen, hydrated, lastId, view>>

\* The place of an event in the ring, if it is there and within the TTL.
Found(id) == {i \in (expired + 1)..Len(ring) : ring[i].id = id}

\* Fault: what was replayed is not remembered.
Replay_Forgets(c) ==
    /\ phase[c] = "subscribed"
    /\ \E i \in Found(lastId[c]) : batch' = [batch EXCEPT ![c] = SubSeq(ring, i + 1, Len(ring))]
    /\ phase' = [phase EXCEPT ![c] = "streaming"]
    /\ hydrated' = [hydrated EXCEPT ![c] = FALSE]
    /\ UNCHANGED <<hubVars, pubVars, open, queue, seen, lastId, view>>

\* prepareInitialEvents with a known Last-Event-ID: ReplaySince.
Replay(c) ==
    /\ phase[c] = "subscribed"
    /\ \E i \in Found(lastId[c]) :
         LET replayed == SubSeq(ring, i + 1, Len(ring)) IN
         /\ batch' = [batch EXCEPT ![c] = replayed]
         /\ seen' = [seen EXCEPT ![c] = {lastId[c]} \cup {replayed[j].id : j \in DOMAIN replayed}]
    /\ phase' = [phase EXCEPT ![c] = "streaming"]
    /\ hydrated' = [hydrated EXCEPT ![c] = FALSE]
    /\ UNCHANGED <<hubVars, pubVars, open, queue, lastId, view>>

\* prepareInitialEvents with none, or with one the ring does not have.
Hydrate(c) ==
    /\ phase[c] = "subscribed"
    /\ Found(lastId[c]) = {}
    /\ phase' = [phase EXCEPT ![c] = "hydrating"]
    /\ batch' = [batch EXCEPT ![c] = <<>>]
    /\ seen' = [seen EXCEPT ![c] = {}]
    /\ hydrated' = [hydrated EXCEPT ![c] = TRUE]
    /\ UNCHANGED <<hubVars, pubVars, open, queue, lastId, view>>

\* Fault: what arrived while the state was read is thrown away.
HydrateKey_Drains(c, k) ==
    /\ phase[c] = "hydrating"
    /\ \A i \in DOMAIN batch[c] : batch[c][i].key # k
    /\ batch' = [batch EXCEPT ![c] = Append(@, [id |-> 0, key |-> k, val |-> state[k]])]
    /\ phase' = IF Len(batch[c]) + 1 = Cardinality(Keys)
                THEN [phase EXCEPT ![c] = "streaming"] ELSE phase
    /\ queue' = [queue EXCEPT ![c] = <<>>]
    /\ UNCHANGED <<hubVars, pubVars, open, seen, hydrated, lastId, view>>

\* BuildHydrationBatch reads one key after the other, each under the state
\* provider's lock; the ids it makes are in no ring.
HydrateKey(c, k) ==
    /\ phase[c] = "hydrating"
    /\ \A i \in DOMAIN batch[c] : batch[c][i].key # k
    /\ batch' = [batch EXCEPT ![c] = Append(@, [id |-> 0, key |-> k, val |-> state[k]])]
    /\ phase' = IF Len(batch[c]) + 1 = Cardinality(Keys)
                THEN [phase EXCEPT ![c] = "streaming"] ELSE phase
    /\ UNCHANGED <<hubVars, pubVars, open, queue, seen, hydrated, lastId, view>>

\* The client receives an event: it shows its value and remembers its id.
Receive(c, e) ==
    /\ view' = [view EXCEPT ![c][e.key] = e.val]
    /\ lastId' = [lastId EXCEPT ![c] = e.id]

\* The initial batch is written before the live stream.
DeliverInitial(c) ==
    /\ phase[c] = "streaming"
    /\ batch[c] # <<>>
    /\ Receive(c, Head(batch[c]))
    /\ batch' = [batch EXCEPT ![c] = Tail(@)]
    /\ UNCHANGED <<hubVars, pubVars, phase, open, queue, seen, hydrated>>

\* streamSSELoop: events of the replay are skipped up to the first new one.
DeliverLive(c) ==
    /\ phase[c] = "streaming"
    /\ batch[c] = <<>>
    /\ queue[c] # <<>>
    /\ queue' = [queue EXCEPT ![c] = Tail(@)]
    /\ IF Head(queue[c]).id \in seen[c]
       THEN UNCHANGED <<seen, lastId, view>>
       ELSE /\ seen' = [seen EXCEPT ![c] = {}]
            /\ Receive(c, Head(queue[c]))
    /\ UNCHANGED <<hubVars, pubVars, phase, open, batch, hydrated>>

\* The connection of every client in cs is gone, with what it had not written.
Drop(cs) ==
    /\ phase' = [c \in Clients |-> IF c \in cs THEN "offline" ELSE phase[c]]
    /\ queue' = [c \in Clients |-> IF c \in cs THEN <<>> ELSE queue[c]]
    /\ batch' = [c \in Clients |-> IF c \in cs THEN <<>> ELSE batch[c]]
    /\ seen' = [c \in Clients |-> IF c \in cs THEN {} ELSE seen[c]]
    /\ UNCHANGED <<hydrated, lastId, view>>

\* An eviction on its way is of the subscriber of then, not of c's next one.
Forget(c) == full' = [p \in Publishers |-> full[p] \ {c}]

\* A closed channel is read to its end, then the handler returns.
EndOfStream(c) ==
    /\ phase[c] = "streaming"
    /\ batch[c] = <<>>
    /\ queue[c] = <<>>
    /\ ~open[c]
    /\ Drop({c})
    /\ Forget(c)
    /\ UNCHANGED <<hubVars, pc, evt, targets, overlapped, raced, open>>

\* The request's context ends (network, tab closed): the handler returns and
\* unsubscribes.
Disconnect(c) ==
    /\ phase[c] # "offline"
    /\ Drop({c})
    /\ Unsubscribe({c})
    /\ Forget(c)
    /\ UNCHANGED <<hubVars, pc, evt, overlapped, raced>>

\* The server process dies and starts again; only the clients remember.
Restart ==
    /\ state' = [k \in Keys |-> 0]
    /\ ring' = <<>>
    /\ expired' = 0
    /\ closed' = FALSE
    /\ pc' = [p \in Publishers |-> "idle"]
    /\ evt' = [p \in Publishers |-> NoEvent]
    /\ full' = [p \in Publishers |-> {}]
    /\ overlapped' = FALSE
    /\ raced' = {}
    /\ Unsubscribe(Clients)
    /\ Drop(Clients)
    /\ UNCHANGED nextId

-----------------------------------------------------------------------------
PublishStep(p) ==
    \/ RingAdd(p)
    \/ SyncState(p)
    \/ CopySubscribers(p)
    \/ \E c \in Clients : TrySend(p, c)
    \/ Evict(p)
    \/ Published(p)

ServeStep(c) ==
    \/ Replay(c)
    \/ Hydrate(c)
    \/ \E k \in Keys : HydrateKey(c, k)
    \/ DeliverInitial(c)
    \/ DeliverLive(c)
    \/ EndOfStream(c)

Next ==
    \/ \E p \in Publishers, k \in Keys : Publish(p, k)
    \/ \E p \in Publishers : PublishStep(p)
    \/ Expire
    \/ Close
    \/ \E c \in Clients : Connect(c)
    \/ \E c \in Clients : ServeStep(c)
    \/ \E c \in Clients : Disconnect(c)
    \/ Restart

Spec == Init /\ [][Next]_vars

\* A publisher that has begun goes on, and so does a connection's handler; an
\* EventSource reconnects by itself.
Fairness ==
    /\ \A p \in Publishers : WF_vars(PublishStep(p))
    /\ \A c \in Clients : WF_vars(ServeStep(c) \/ Connect(c))

FairSpec == Spec /\ Fairness

-----------------------------------------------------------------------------
(* Properties.                                                             *)

Steps == {"idle", "add", "sync", "snapshot", "send"}
Phases == {"offline", "subscribed", "hydrating", "streaming"}

\* The types of the hub, of the publishers and of the connections; the ring and
\* every subscriber channel stay within their capacity.
TypeOK ==
    /\ nextId \in Nat \ {0}
    /\ state \in [Keys -> Nat]
    /\ ring \in Seq(Event) /\ Len(ring) <= Capacity
    /\ expired \in 0..Len(ring)
    /\ closed \in BOOLEAN
    /\ pc \in [Publishers -> Steps]
    /\ evt \in [Publishers -> Event \cup {NoEvent}]
    /\ targets \in [Publishers -> SUBSET Clients]
    /\ full \in [Publishers -> SUBSET Clients]
    /\ overlapped \in BOOLEAN
    /\ raced \in SUBSET Keys
    /\ phase \in [Clients -> Phases]
    /\ open \in [Clients -> BOOLEAN]
    /\ queue \in [Clients -> Seq(Event)] /\ \A c \in Clients : Len(queue[c]) <= Buffer
    /\ batch \in [Clients -> Seq(Event)]
    /\ seen \in [Clients -> SUBSET Nat]
    /\ hydrated \in [Clients -> BOOLEAN]
    /\ lastId \in [Clients -> Nat]
    /\ view \in [Clients -> [Keys -> Nat]]

CaughtUp(c) == phase[c] = "streaming" /\ open[c] /\ batch[c] = <<>> /\ queue[c] = <<>>
Quiet == \A p \in Publishers : pc[p] = "idle"

\* internal/events/handler.go:53: subscribing before the snapshot or replay
\* eliminates the race window.  A connected client that has read everything
\* shows the server's state once no publication is under way, whatever was
\* evicted, replayed, expired from the ring or lost in a restart before.  Two
\* publications that overlap may enter the ring and the channels in opposite
\* orders; a client that then resumes is not sent the earlier ring entry, so
\* this is said while none has overlapped.  A connection that began with a
\* hydration is not affected by that: it shows every key that is not just being
\* published, however publications overlap, except a key whose last publication
\* began while another one of the same key was under way; the next one that
\* does not overlap with its like puts the key right.
ViewCurrent ==
    \A c \in Clients : CaughtUp(c) =>
        /\ Quiet /\ ~overlapped => view[c] = state
        /\ hydrated[c] => \A k \in Keys \ raced : Settled(k) => view[c][k] = state[k]

\* No event is written twice or after a later one: what the live channel and
\* the replay have in common is skipped (seenReplayIDs).
NoRepeat ==
    [][\A c \in Clients :
         DeliverLive(c) /\ ~overlapped /\ Head(queue[c]).id \notin seen[c]
           => Head(queue[c]).id > lastId[c]]_vars

\* A client that stays connected from some point on ends up with the server's
\* state for good.
Converges ==
    \A c \in Clients :
      <>[](phase[c] = "streaming" /\ open[c]) => <>[](view[c] = state \/ overlapped)
=============================================================================
