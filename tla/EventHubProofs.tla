--------------------------- MODULE EventHubProofs ---------------------------
(***************************************************************************)
(* Proofs about EventHub, for any publishers, clients, keys, capacities.   *)
(*                                                                         *)
(* The inductive invariant has three layers.  Basics holds of every        *)
(* behaviour: types, ids below the next one, only open subscribers are     *)
(* sent to, a hydration reads each key once.  Serial holds while no two    *)
(* publications have overlapped: the ring, the channels and the replays    *)
(* are runs of consecutive ids that fit together, and a client shows the   *)
(* state as of the last event it has received.  KeysInv holds whatever     *)
(* overlaps: what a hydrated connection has of a key that is not raced is  *)
(* what the state has, unless an event of it is under way and still to be  *)
(* sent.  The last two are kept by a frame lemma for the connections that  *)
(* a step does not concern, and by one lemma per step.                     *)
(***************************************************************************)
EXTENDS EventHub, TLAPS, SequenceTheorems, FiniteSetTheorems

-----------------------------------------------------------------------------
(* Sequences, element by element.                                          *)

\* A sequence after one more element.
LEMMA Appended ==
    ASSUME NEW S, NEW s \in Seq(S), NEW e \in S
    PROVE  /\ Append(s, e) \in Seq(S)
           /\ Len(Append(s, e)) = Len(s) + 1
           /\ \A i \in 1..Len(s) : Append(s, e)[i] = s[i]
           /\ Append(s, e)[Len(s) + 1] = e
  BY AppendProperties

\* A sequence without its first element.
LEMMA Tailed ==
    ASSUME NEW S, NEW s \in Seq(S), s # <<>>
    PROVE  /\ Tail(s) \in Seq(S)
           /\ Len(s) \in Nat \ {0}
           /\ Len(Tail(s)) = Len(s) - 1
           /\ \A i \in 1..(Len(s) - 1) : Tail(s)[i] = s[i + 1]
           /\ Head(s) = s[1] /\ Head(s) \in S
  <1>1. Len(s) \in Nat \ {0}  BY EmptySeq, LenProperties
  <1>2. /\ Tail(s) \in Seq(S)
        /\ Len(Tail(s)) = Len(s) - 1
        /\ \A i \in 1..Len(Tail(s)) : Tail(s)[i] = s[i + 1]
        /\ Head(s) \in S
    BY HeadTailProperties
  <1> QED  BY <1>1, <1>2

\* What is left of a sequence after place i.
LEMMA Rest ==
    ASSUME NEW S, NEW s \in Seq(S), NEW i \in 1..Len(s)
    PROVE  /\ SubSeq(s, i + 1, Len(s)) \in Seq(S)
           /\ Len(SubSeq(s, i + 1, Len(s))) = Len(s) - i
           /\ \A j \in 1..(Len(s) - i) : SubSeq(s, i + 1, Len(s))[j] = s[i + j]
  <1>1. Len(s) \in Nat  BY LenProperties
  <1>2. \A j \in (i + 1)..Len(s) : s[j] \in S  BY <1>1, ElementOfSeq
  <1> QED  BY <1>1, <1>2, SubSeqProperties

\* The empty sequence, and the ones that are not.
LEMMA Empty ==
    ASSUME NEW S
    PROVE  /\ <<>> \in Seq(S) /\ Len(<<>>) = 0
           /\ \A s \in Seq(S) : Len(s) \in Nat /\ (s = <<>> <=> Len(s) = 0)
           /\ \A s \in Seq(S) : \A i \in 1..Len(s) : s[i] \in S
  BY EmptySeq, LenProperties, ElementOfSeq

-----------------------------------------------------------------------------
(* The invariant: what holds whatever overlaps.                            *)

InFlight(p) == pc[p] # "idle"

\* Ids of events are below the next one.
PubIds ==
    \A p \in Publishers : InFlight(p) =>
        /\ evt[p] \in Event /\ evt[p].id \in 1..(nextId - 1) /\ evt[p].val = evt[p].id
RingIds == \A i \in 1..Len(ring) : ring[i].id \in 1..(nextId - 1)
ClientIds ==
    \A c \in Clients :
        /\ \A i \in 1..Len(queue[c]) : queue[c][i].id \in 1..(nextId - 1)
        /\ \A i \in 1..Len(batch[c]) : batch[c][i].id < nextId
        /\ lastId[c] < nextId

\* Only a publisher that sends has subscribers to send to, and they are open;
\* an open one has a handler.
SendInv ==
    /\ \A p \in Publishers : /\ pc[p] # "send" => targets[p] = {} /\ full[p] = {}
                             /\ \A c \in targets[p] : open[c]
    /\ \A c \in Clients : open[c] => phase[c] # "offline"

\* A connection that reads the state reads each key once.
HydrationInv ==
    \A c \in Clients :
      /\ hydrated[c] /\ phase[c] \in {"hydrating", "streaming"} => seen[c] = {}
      /\ phase[c] = "hydrating" =>
           /\ hydrated[c]
           /\ \A i, j \in 1..Len(batch[c]) : batch[c][i].key = batch[c][j].key => i = j

Basics == TypeOK /\ PubIds /\ RingIds /\ ClientIds /\ SendInv /\ HydrationInv


USE KeysAssumption, CapacityAssumption, BufferAssumption, MaxEventsAssumption
USE DEF hubVars, pubVars, clientVars

\* It holds before anything is published and anyone connects.
LEMMA InitBasics == Init => Basics
  <1> SUFFICES ASSUME Init PROVE Basics
    OBVIOUS
  <1>1. TypeOK
    <2>1. \A c \in Clients : queue[c] = <<>> /\ batch[c] = <<>>  BY DEF Init
    <2>2. queue \in [Clients -> Seq(Event)] /\ batch \in [Clients -> Seq(Event)]  BY Empty DEF Init
    <2>3. \A c \in Clients : Len(queue[c]) <= Buffer  BY <2>1, Empty
    <2>4. ring \in Seq(Event) /\ Len(ring) = 0 /\ expired = 0  BY Empty DEF Init
    <2>5. open \in [Clients -> BOOLEAN] /\ hydrated \in [Clients -> BOOLEAN]  BY Zenon DEF Init
    <2>6. evt \in [Publishers -> Event \cup {NoEvent}]  BY DEF Init
    <2>7. nextId \in Nat \ {0} /\ state \in [Keys -> Nat] /\ pc \in [Publishers -> Steps]
      BY DEF Init, Steps
    <2>0. closed \in BOOLEAN /\ overlapped \in BOOLEAN /\ raced \in SUBSET Keys  BY Zenon DEF Init
    <2>8. /\ targets \in [Publishers -> SUBSET Clients] /\ full \in [Publishers -> SUBSET Clients]
          /\ phase \in [Clients -> Phases] /\ seen \in [Clients -> SUBSET Nat]
      BY DEF Init, Phases
    <2>9. lastId \in [Clients -> Nat] /\ view \in [Clients -> [Keys -> Nat]]  BY DEF Init
    <2> QED  BY <2>0, <2>2, <2>3, <2>4, <2>5, <2>6, <2>7, <2>8, <2>9 DEF TypeOK
  <1>2. PubIds /\ RingIds /\ ClientIds  BY Empty DEF Init, PubIds, RingIds, ClientIds, InFlight
  <1>3. SendInv /\ HydrationInv  BY DEF Init, SendInv, HydrationInv
  <1> QED  BY <1>1, <1>2, <1>3 DEF Basics

\* An id is allocated: it is above all others.
LEMMA PublishBasics ==
    ASSUME NEW p \in Publishers, NEW k \in Keys, Basics, Publish(p, k)
    PROVE  Basics'
  <1>1. TypeOK'
    <2>1. k \in Keys  OBVIOUS
    <2>2. evt' \in [Publishers -> Event \cup {NoEvent}]
      BY <2>1 DEF Basics, TypeOK, Publish, Event
    <2>3. nextId' \in Nat \ {0} /\ pc' \in [Publishers -> Steps]
      BY DEF Basics, TypeOK, Publish, Goto, Steps
    <2>4. overlapped' \in BOOLEAN  BY Zenon DEF Publish
    <2>5. raced' \in SUBSET Keys  BY DEF Basics, TypeOK, Publish
    <2> QED  BY <2>2, <2>3, <2>4, <2>5 DEF Basics, TypeOK, Publish
  <1>2. PubIds'
    <2>1. [id |-> nextId, key |-> k, val |-> nextId] \in Event  BY DEF Basics, TypeOK, Event
    <2> QED  BY <2>1 DEF Basics, TypeOK, PubIds, InFlight, Publish, Goto, Event
  <1>3. RingIds'
    <2>1. nextId \in Nat /\ nextId' = nextId + 1 /\ ring' = ring  BY DEF Basics, TypeOK, Publish
    <2> QED  BY <2>1 DEF Basics, RingIds
  <1>4. ClientIds'
    <2>1. nextId \in Nat /\ nextId' = nextId + 1  BY DEF Basics, TypeOK, Publish
    <2>2. queue' = queue /\ batch' = batch /\ lastId' = lastId  BY DEF Publish
    <2>3. ASSUME NEW c \in Clients
          PROVE  lastId[c] \in Nat /\ \A i \in 1..Len(batch[c]) : batch[c][i].id \in Nat
      <3>1. lastId[c] \in Nat /\ batch[c] \in Seq(Event)  BY DEF Basics, TypeOK
      <3>2. \A i \in 1..Len(batch[c]) : batch[c][i] \in Event  BY <3>1, Empty
      <3> QED  BY <3>1, <3>2 DEF Event
    <2> QED  BY <2>1, <2>2, <2>3 DEF Basics, ClientIds
  <1>5. SendInv'
    BY DEF Basics, SendInv, TypeOK, Publish, Goto
  <1>6. HydrationInv'
    BY DEF Basics, HydrationInv, TypeOK, Publish, Goto
  <1> QED  BY <1>1, <1>2, <1>3, <1>4, <1>5, <1>6 DEF Basics

\* What enters the ring is the event of the publisher.
LEMMA RingAddBasics ==
    ASSUME NEW p \in Publishers, Basics, RingAdd(p)
    PROVE  Basics'
  <1>1. TypeOK'
    <2> DEFINE isFull == Len(ring) = Capacity
    <2>1. evt[p] \in Event  BY DEF Basics, PubIds, InFlight, RingAdd
    <2>2. ring \in Seq(Event) /\ Len(ring) \in Nat /\ Len(ring) <= Capacity
          /\ (isFull => ring # <<>>) /\ expired \in 0..Len(ring)
      BY Empty DEF Basics, TypeOK
    <2>3. /\ ring' \in Seq(Event)
          /\ Len(ring') = IF isFull THEN Len(ring) ELSE Len(ring) + 1
      <3>1. CASE isFull
        <4>1. Tail(ring) \in Seq(Event) /\ Len(Tail(ring)) = Len(ring) - 1  BY <2>2, <3>1, Tailed
        <4>2. ring' = Append(Tail(ring), evt[p])  BY <3>1 DEF RingAdd
        <4> QED  BY <2>1, <2>2, <3>1, <4>1, <4>2, Appended
      <3>2. CASE ~isFull
        <4>1. ring' = Append(ring, evt[p])  BY <3>2 DEF RingAdd
        <4> QED  BY <2>1, <2>2, <3>2, <4>1, Appended
      <3> QED  BY <3>1, <3>2
    <2>4. expired' \in 0..Len(ring') /\ Len(ring') <= Capacity
      <3>1. expired' = IF isFull /\ expired > 0 THEN expired - 1 ELSE expired  BY DEF RingAdd
      <3> QED  BY <2>2, <2>3, <3>1
    <2>5. pc' \in [Publishers -> Steps]  BY DEF Basics, TypeOK, RingAdd, Goto, Steps
    <2> QED  BY <2>3, <2>4, <2>5 DEF Basics, TypeOK, RingAdd
  <1>2. PubIds'
    BY DEF Basics, PubIds, TypeOK, InFlight, RingAdd, Goto
  <1>3. RingIds'
    <2>1. evt[p] \in Event /\ evt[p].id \in 1..(nextId - 1)  BY DEF Basics, PubIds, InFlight, RingAdd
    <2>2. ring \in Seq(Event)  BY DEF Basics, TypeOK
    <2>3. \A i \in 1..Len(ring) : ring[i].id \in 1..(nextId - 1)  BY DEF Basics, RingIds
    <2>4. nextId' = nextId  BY DEF RingAdd
    <2>5. CASE Len(ring) = Capacity
      <3>1. ring # <<>>  BY <2>5, Empty
      <3>2. ring' = Append(Tail(ring), evt[p])  BY <2>5 DEF RingAdd
      <3>3. Tail(ring) \in Seq(Event) /\ Len(Tail(ring)) = Len(ring) - 1 /\ Len(ring) \in Nat
            /\ \A i \in 1..(Len(ring) - 1) : Tail(ring)[i] = ring[i + 1]
        BY <2>2, <3>1, Tailed
      <3>4. /\ Len(ring') = Len(ring) /\ ring'[Len(ring)] = evt[p]
            /\ \A i \in 1..(Len(ring) - 1) : ring'[i] = Tail(ring)[i]
        BY <2>1, <3>2, <3>3, Appended
      <3> QED  BY <2>1, <2>3, <2>4, <3>3, <3>4 DEF RingIds
    <2>6. CASE Len(ring) # Capacity
      <3>1. ring' = Append(ring, evt[p])  BY <2>6 DEF RingAdd
      <3>2. /\ Len(ring') = Len(ring) + 1 /\ ring'[Len(ring) + 1] = evt[p] /\ Len(ring) \in Nat
            /\ \A i \in 1..Len(ring) : ring'[i] = ring[i]
        BY <2>1, <2>2, <3>1, Appended, Empty
      <3> QED  BY <2>1, <2>3, <2>4, <3>2 DEF RingIds
    <2> QED  BY <2>5, <2>6
  <1>4. ClientIds'
    BY DEF Basics, ClientIds, TypeOK, RingAdd, Goto
  <1>5. SendInv'
    BY DEF Basics, SendInv, TypeOK, RingAdd, Goto
  <1>6. HydrationInv'
    BY DEF Basics, HydrationInv, TypeOK, RingAdd, Goto
  <1> QED  BY <1>1, <1>2, <1>3, <1>4, <1>5, <1>6 DEF Basics

\* The value that the state takes is the event's.
LEMMA SyncStateBasics ==
    ASSUME NEW p \in Publishers, Basics, SyncState(p)
    PROVE  Basics'
  <1>1. TypeOK'
    <2>1. evt[p] \in Event  BY DEF Basics, PubIds, InFlight, SyncState
    <2>2. state' \in [Keys -> Nat]  BY <2>1 DEF Basics, TypeOK, SyncState, Event
    <2>3. pc' \in [Publishers -> Steps]  BY DEF Basics, TypeOK, SyncState, Goto, Steps
    <2> QED  BY <2>2, <2>3 DEF Basics, TypeOK, SyncState
  <1>2. PubIds'
    BY DEF Basics, PubIds, TypeOK, InFlight, SyncState, Goto
  <1>3. RingIds'
    BY DEF Basics, RingIds, PubIds, TypeOK, InFlight, SyncState, Goto
  <1>4. ClientIds'
    BY DEF Basics, ClientIds, TypeOK, SyncState, Goto
  <1>5. SendInv'
    BY DEF Basics, SendInv, TypeOK, SyncState, Goto
  <1>6. HydrationInv'
    BY DEF Basics, HydrationInv, TypeOK, SyncState, Goto
  <1> QED  BY <1>1, <1>2, <1>3, <1>4, <1>5, <1>6 DEF Basics

\* The open subscribers are to be sent to.
LEMMA CopySubscribersBasics ==
    ASSUME NEW p \in Publishers, Basics, CopySubscribers(p)
    PROVE  Basics'
  <1>1. TypeOK'
    BY DEF Basics, TypeOK, Steps, Phases, CopySubscribers, Goto
  <1>2. PubIds'
    BY DEF Basics, PubIds, TypeOK, InFlight, CopySubscribers, Goto
  <1>3. RingIds'
    BY DEF Basics, RingIds, PubIds, TypeOK, InFlight, CopySubscribers, Goto
  <1>4. ClientIds'
    BY DEF Basics, ClientIds, TypeOK, CopySubscribers, Goto
  <1>5. SendInv'
    BY DEF Basics, SendInv, TypeOK, CopySubscribers, Goto
  <1>6. HydrationInv'
    BY DEF Basics, HydrationInv, TypeOK, CopySubscribers, Goto
  <1> QED  BY <1>1, <1>2, <1>3, <1>4, <1>5, <1>6 DEF Basics

\* A channel takes an event below its capacity only.
LEMMA TrySendBasics ==
    ASSUME NEW p \in Publishers, NEW c \in Clients, Basics, TrySend(p, c)
    PROVE  Basics'
  <1>1. TypeOK'
    <2>1. evt[p] \in Event  BY DEF Basics, PubIds, InFlight, TrySend
    <2>2. targets' \in [Publishers -> SUBSET Clients] /\ full' \in [Publishers -> SUBSET Clients]
      <3>1. targets' = [targets EXCEPT ![p] = targets[p] \ {c}]  BY DEF TrySend
      <3>2. full' = [full EXCEPT ![p] = {c}] \/ full' = full  BY DEF TrySend
      <3>3. targets \in [Publishers -> SUBSET Clients] /\ full \in [Publishers -> SUBSET Clients]
        BY DEF Basics, TypeOK
      <3> QED  BY <3>1, <3>2, <3>3
    <2>3. queue' \in [Clients -> Seq(Event)] /\ \A d \in Clients : Len(queue'[d]) <= Buffer
      <3>1. queue \in [Clients -> Seq(Event)] /\ \A d \in Clients : Len(queue[d]) <= Buffer
        BY DEF Basics, TypeOK
      <3>2. CASE Len(queue[c]) < Buffer
        <4>1. queue' = [queue EXCEPT ![c] = Append(queue[c], evt[p])]  BY <3>2 DEF TrySend
        <4>2. /\ Append(queue[c], evt[p]) \in Seq(Event) /\ Len(queue[c]) \in Nat
              /\ Len(Append(queue[c], evt[p])) = Len(queue[c]) + 1
          BY <2>1, <3>1, Appended, Empty
        <4>3. Len(Append(queue[c], evt[p])) <= Buffer  BY <3>2, <4>2
        <4> HIDE DEF TrySend
        <4> QED  BY <3>1, <4>1, <4>2, <4>3
      <3>3. CASE ~(Len(queue[c]) < Buffer)
        BY <3>1, <3>3 DEF TrySend
      <3> QED  BY <3>2, <3>3
    <2> QED  BY <2>2, <2>3 DEF Basics, TypeOK, TrySend
  <1>2. PubIds'
    BY DEF Basics, PubIds, TypeOK, InFlight, TrySend
  <1>3. RingIds'
    BY DEF Basics, RingIds, PubIds, TypeOK, InFlight, TrySend
  <1>4. ClientIds'
    <2>1. /\ evt[p] \in Event /\ evt[p].id \in 1..(nextId - 1)
          /\ queue \in [Clients -> Seq(Event)]
      BY DEF Basics, TypeOK, PubIds, InFlight, TrySend
    <2>2. nextId' = nextId /\ batch' = batch /\ lastId' = lastId  BY DEF TrySend
    <2>3. CASE Len(queue[c]) < Buffer
      <3>1. queue' = [queue EXCEPT ![c] = Append(queue[c], evt[p])]  BY <2>3 DEF TrySend
      <3>2. /\ Len(queue'[c]) = Len(queue[c]) + 1 /\ queue'[c][Len(queue[c]) + 1] = evt[p]
            /\ \A i \in 1..Len(queue[c]) : queue'[c][i] = queue[c][i]
            /\ Len(queue[c]) \in Nat
        BY <2>1, <3>1, Appended, Empty
      <3>3. \A d \in Clients : d # c => queue'[d] = queue[d]  BY <2>1, <3>1
      <3>4. \A i \in 1..Len(queue'[c]) : queue'[c][i].id \in 1..(nextId - 1)
        <4>1. \A i \in 1..Len(queue[c]) : queue[c][i].id \in 1..(nextId - 1)  BY DEF Basics, ClientIds
        <4>2. ASSUME NEW i \in 1..Len(queue'[c])  PROVE i \in 1..Len(queue[c]) \/ i = Len(queue[c]) + 1
          BY <3>2
        <4> QED  BY <2>1, <3>2, <4>1, <4>2
      <3> QED  BY <2>2, <3>3, <3>4 DEF Basics, ClientIds
    <2>4. CASE ~(Len(queue[c]) < Buffer)
      <3>1. queue' = queue  BY <2>4 DEF TrySend
      <3> QED  BY <2>2, <3>1 DEF Basics, ClientIds
    <2> QED  BY <2>3, <2>4
  <1>5. SendInv'
    BY DEF Basics, SendInv, TypeOK, TrySend
  <1>6. HydrationInv'
    BY DEF Basics, HydrationInv, TypeOK, TrySend
  <1> QED  BY <1>1, <1>2, <1>3, <1>4, <1>5, <1>6 DEF Basics

\* The slow subscriber is closed.
LEMMA EvictBasics ==
    ASSUME NEW p \in Publishers, Basics, Evict(p)
    PROVE  Basics'
  <1>1. TypeOK'
    <2>1. open' \in [Clients -> BOOLEAN]  BY Zenon DEF Evict, Unsubscribe
    <2>2. targets' \in [Publishers -> SUBSET Clients] /\ full' \in [Publishers -> SUBSET Clients]
      BY DEF Basics, TypeOK, Evict, Unsubscribe
    <2> QED  BY <2>1, <2>2 DEF Basics, TypeOK, Evict
  <1>2. PubIds'
    BY DEF Basics, PubIds, TypeOK, InFlight, Evict, Unsubscribe
  <1>3. RingIds'
    BY DEF Basics, RingIds, PubIds, TypeOK, InFlight, Evict, Unsubscribe
  <1>4. ClientIds'
    BY DEF Basics, ClientIds, TypeOK, Evict, Unsubscribe
  <1>5. SendInv'
    BY DEF Basics, SendInv, TypeOK, Evict, Unsubscribe
  <1>6. HydrationInv'
    BY DEF Basics, HydrationInv, TypeOK, Evict, Unsubscribe
  <1> QED  BY <1>1, <1>2, <1>3, <1>4, <1>5, <1>6 DEF Basics

\* The publisher has sent to everyone.
LEMMA PublishedBasics ==
    ASSUME NEW p \in Publishers, Basics, Published(p)
    PROVE  Basics'
  <1>1. TypeOK'
    BY DEF Basics, TypeOK, Steps, Phases, Published, Goto
  <1>2. PubIds'
    BY DEF Basics, PubIds, TypeOK, InFlight, Published, Goto
  <1>3. RingIds'
    BY DEF Basics, RingIds, PubIds, TypeOK, InFlight, Published, Goto
  <1>4. ClientIds'
    BY DEF Basics, ClientIds, TypeOK, Published, Goto
  <1>5. SendInv'
    BY DEF Basics, SendInv, TypeOK, Published, Goto
  <1>6. HydrationInv'
    BY DEF Basics, HydrationInv, TypeOK, Published, Goto
  <1> QED  BY <1>1, <1>2, <1>3, <1>4, <1>5, <1>6 DEF Basics

\* The ring does not lose what has expired.
LEMMA ExpireBasics ==
    ASSUME Basics, Expire
    PROVE  Basics'
  <1>1. TypeOK'
    <2>1. expired' \in 0..Len(ring)
      <3>1. Len(ring) \in Nat /\ expired \in 0..Len(ring)  BY Empty DEF Basics, TypeOK
      <3> QED  BY <3>1 DEF Expire
    <2> QED  BY <2>1 DEF Basics, TypeOK, Expire
  <1>2. PubIds'
    BY DEF Basics, PubIds, TypeOK, InFlight, Expire
  <1>3. RingIds'
    BY DEF Basics, RingIds, PubIds, TypeOK, InFlight, Expire
  <1>4. ClientIds'
    BY DEF Basics, ClientIds, TypeOK, Expire
  <1>5. SendInv'
    BY DEF Basics, SendInv, TypeOK, Expire
  <1>6. HydrationInv'
    BY DEF Basics, HydrationInv, TypeOK, Expire
  <1> QED  BY <1>1, <1>2, <1>3, <1>4, <1>5, <1>6 DEF Basics

\* Every subscriber is closed.
LEMMA CloseBasics ==
    ASSUME Basics, Close
    PROVE  Basics'
  <1>1. TypeOK'
    <2>1. open' \in [Clients -> BOOLEAN]  BY Zenon DEF Close, Unsubscribe
    <2>2. targets' \in [Publishers -> SUBSET Clients] /\ full' \in [Publishers -> SUBSET Clients]
      BY DEF Basics, TypeOK, Close, Unsubscribe
    <2> QED  BY <2>1, <2>2 DEF Basics, TypeOK, Close
  <1>2. PubIds'
    BY DEF Basics, PubIds, TypeOK, InFlight, Close, Unsubscribe
  <1>3. RingIds'
    BY DEF Basics, RingIds, PubIds, TypeOK, InFlight, Close, Unsubscribe
  <1>4. ClientIds'
    BY DEF Basics, ClientIds, TypeOK, Close, Unsubscribe
  <1>5. SendInv'
    BY DEF Basics, SendInv, TypeOK, Close, Unsubscribe
  <1>6. HydrationInv'
    BY DEF Basics, HydrationInv, TypeOK, Close, Unsubscribe
  <1> QED  BY <1>1, <1>2, <1>3, <1>4, <1>5, <1>6 DEF Basics

\* A subscriber begins with an empty channel.
LEMMA ConnectBasics ==
    ASSUME NEW c \in Clients, Basics, Connect(c)
    PROVE  Basics'
  <1>1. TypeOK'
    <2>1. phase' \in [Clients -> Phases]  BY DEF Basics, TypeOK, Connect, Phases
    <2>2. open' \in [Clients -> BOOLEAN]  BY Zenon DEF Basics, TypeOK, Connect
    <2>3. queue' \in [Clients -> Seq(Event)] /\ \A d \in Clients : Len(queue'[d]) <= Buffer
      BY Empty DEF Basics, TypeOK, Connect
    <2> QED  BY <2>1, <2>2, <2>3 DEF Basics, TypeOK, Connect
  <1>2. PubIds'
    BY DEF Basics, PubIds, TypeOK, InFlight, Connect
  <1>3. RingIds'
    BY DEF Basics, RingIds, PubIds, TypeOK, InFlight, Connect
  <1>4. ClientIds'
    <2>1. queue' = [queue EXCEPT ![c] = <<>>] /\ queue \in [Clients -> Seq(Event)]
      BY DEF Basics, TypeOK, Connect
    <2>2. queue'[c] = <<>> /\ \A d \in Clients : d # c => queue'[d] = queue[d]  BY <2>1
    <2>3. \A i \in 1..Len(queue'[c]) : FALSE  BY <2>2, Empty
    <2> QED  BY <2>2, <2>3 DEF Basics, ClientIds, Connect
  <1>5. SendInv'
    BY DEF Basics, SendInv, TypeOK, Connect
  <1>6. HydrationInv'
    BY DEF Basics, HydrationInv, TypeOK, Connect
  <1> QED  BY <1>1, <1>2, <1>3, <1>4, <1>5, <1>6 DEF Basics

\* What is replayed is of the ring.
LEMMA ReplayBasics ==
    ASSUME NEW c \in Clients, Basics, Replay(c)
    PROVE  Basics'
  <1>1. TypeOK'
    <2>1. PICK i \in Found(lastId[c]) :
            LET replayed == SubSeq(ring, i + 1, Len(ring)) IN
            /\ batch' = [batch EXCEPT ![c] = replayed]
            /\ seen' = [seen EXCEPT ![c] = {lastId[c]} \cup {replayed[j].id : j \in DOMAIN replayed}]
      BY DEF Replay
    <2> DEFINE replayed == SubSeq(ring, i + 1, Len(ring))
    <2>2. ring \in Seq(Event) /\ i \in 1..Len(ring)  BY Empty DEF Basics, TypeOK, Found
    <2>3. replayed \in Seq(Event)  BY <2>2, Rest
    <2>4. \A j \in DOMAIN replayed : replayed[j].id \in Nat
      <3>1. DOMAIN replayed = 1..Len(replayed)  BY <2>3, LenProperties
      <3>2. \A j \in 1..Len(replayed) : replayed[j] \in Event  BY <2>3, Empty
      <3> HIDE DEF replayed
      <3> QED  BY <3>1, <3>2 DEF Event
    <2> HIDE DEF replayed
    <2>5. batch' \in [Clients -> Seq(Event)]  BY <2>1, <2>3 DEF Basics, TypeOK, replayed
    <2>6. seen' \in [Clients -> SUBSET Nat]
      <3>1. {lastId[c]} \cup {replayed[j].id : j \in DOMAIN replayed} \in SUBSET Nat
        BY <2>4 DEF Basics, TypeOK
      <3>2. seen' = [seen EXCEPT ![c] = {lastId[c]} \cup {replayed[j].id : j \in DOMAIN replayed}]
        BY <2>1 DEF replayed
      <3> QED  BY <3>1, <3>2 DEF Basics, TypeOK
    <2>7. phase' \in [Clients -> Phases] /\ hydrated' \in [Clients -> BOOLEAN]
      BY DEF Basics, TypeOK, Replay, Phases
    <2> QED  BY <2>5, <2>6, <2>7 DEF Basics, TypeOK, Replay
  <1>2. PubIds'
    BY DEF Basics, PubIds, TypeOK, InFlight, Replay
  <1>3. RingIds'
    BY DEF Basics, RingIds, PubIds, TypeOK, InFlight, Replay
  <1>4. ClientIds'
    <2>1. PICK i \in Found(lastId[c]) : batch' = [batch EXCEPT ![c] = SubSeq(ring, i + 1, Len(ring))]
      BY DEF Replay
    <2>2. ring \in Seq(Event) /\ i \in 1..Len(ring) /\ Len(ring) \in Nat /\ nextId \in Nat
      BY Empty DEF Basics, TypeOK, Found
    <2>3. /\ Len(SubSeq(ring, i + 1, Len(ring))) = Len(ring) - i
          /\ \A j \in 1..(Len(ring) - i) : SubSeq(ring, i + 1, Len(ring))[j] = ring[i + j]
      BY <2>2, Rest
    <2>4. batch'[c] = SubSeq(ring, i + 1, Len(ring)) /\ \A d \in Clients : d # c => batch'[d] = batch[d]
      BY <2>1 DEF Basics, TypeOK
    <2>5. \A j \in 1..Len(batch'[c]) : batch'[c][j].id < nextId
      BY <2>2, <2>3, <2>4 DEF Basics, RingIds
    <2>6. nextId' = nextId /\ queue' = queue /\ lastId' = lastId  BY DEF Replay
    <2> QED  BY <2>4, <2>5, <2>6 DEF Basics, ClientIds
  <1>5. SendInv'
    BY DEF Basics, SendInv, TypeOK, Replay
  <1>6. HydrationInv'
    BY DEF Basics, HydrationInv, TypeOK, Replay
  <1> QED  BY <1>1, <1>2, <1>3, <1>4, <1>5, <1>6 DEF Basics

\* The hydration begins with nothing read.
LEMMA HydrateBasics ==
    ASSUME NEW c \in Clients, Basics, Hydrate(c)
    PROVE  Basics'
  <1>1. TypeOK'
    <2>1. phase' \in [Clients -> Phases] /\ seen' \in [Clients -> SUBSET Nat]
      BY DEF Basics, TypeOK, Hydrate, Phases
    <2>2. batch' \in [Clients -> Seq(Event)]  BY Empty DEF Basics, TypeOK, Hydrate
    <2>3. hydrated' \in [Clients -> BOOLEAN]  BY Zenon DEF Basics, TypeOK, Hydrate
    <2> QED  BY <2>1, <2>2, <2>3 DEF Basics, TypeOK, Hydrate
  <1>2. PubIds'
    BY DEF Basics, PubIds, TypeOK, InFlight, Hydrate
  <1>3. RingIds'
    BY DEF Basics, RingIds, PubIds, TypeOK, InFlight, Hydrate
  <1>4. ClientIds'
    <2>1. batch'[c] = <<>> /\ \A d \in Clients : d # c => batch'[d] = batch[d]
      BY DEF Basics, TypeOK, Hydrate
    <2>2. \A i \in 1..Len(batch'[c]) : FALSE  BY <2>1, Empty
    <2> QED  BY <2>1, <2>2 DEF Basics, ClientIds, Hydrate
  <1>5. SendInv'
    BY DEF Basics, SendInv, TypeOK, Hydrate
  <1>6. HydrationInv'
    <2>1. /\ batch'[c] = <<>> /\ seen'[c] = {} /\ hydrated'[c]
          /\ \A d \in Clients : d # c => /\ batch'[d] = batch[d] /\ seen'[d] = seen[d]
                                         /\ phase'[d] = phase[d] /\ hydrated'[d] = hydrated[d]
      BY DEF Basics, TypeOK, Hydrate
    <2>2. \A i \in 1..Len(batch'[c]) : FALSE  BY <2>1, Empty
    <2> QED  BY <2>1, <2>2 DEF Basics, HydrationInv
  <1> QED  BY <1>1, <1>2, <1>3, <1>4, <1>5, <1>6 DEF Basics

\* A key is read that was not read before.
LEMMA HydrateKeyBasics ==
    ASSUME NEW c \in Clients, NEW k \in Keys, Basics, HydrateKey(c, k)
    PROVE  Basics'
  <1>1. TypeOK'
    <2> DEFINE e == [id |-> 0, key |-> k, val |-> state[k]]
    <2>1. e \in Event  BY DEF Basics, TypeOK, Event
    <2>2. batch' \in [Clients -> Seq(Event)]
      <3>1. batch' = [batch EXCEPT ![c] = Append(batch[c], e)] /\ batch \in [Clients -> Seq(Event)]
        BY DEF Basics, TypeOK, HydrateKey
      <3> HIDE DEF e
      <3>2. Append(batch[c], e) \in Seq(Event)  BY <2>1, <3>1, Appended
      <3> QED  BY <3>1, <3>2
    <2>3. phase' \in [Clients -> Phases]  BY DEF Basics, TypeOK, HydrateKey, Phases
    <2> QED  BY <2>2, <2>3 DEF Basics, TypeOK, HydrateKey
  <1>2. PubIds'
    BY DEF Basics, PubIds, TypeOK, InFlight, HydrateKey
  <1>3. RingIds'
    BY DEF Basics, RingIds, PubIds, TypeOK, InFlight, HydrateKey
  <1>4. ClientIds'
    <2> DEFINE e == [id |-> 0, key |-> k, val |-> state[k]]
    <2>1. e \in Event /\ e.id = 0  BY DEF Basics, TypeOK, Event
    <2>2. batch' = [batch EXCEPT ![c] = Append(batch[c], e)] /\ batch \in [Clients -> Seq(Event)]
      BY DEF Basics, TypeOK, HydrateKey
    <2> HIDE DEF e
    <2>3. /\ Len(batch'[c]) = Len(batch[c]) + 1 /\ batch'[c][Len(batch[c]) + 1] = e
          /\ \A i \in 1..Len(batch[c]) : batch'[c][i] = batch[c][i]
          /\ Len(batch[c]) \in Nat
      BY <2>1, <2>2, Appended, Empty
    <2>4. \A d \in Clients : d # c => batch'[d] = batch[d]  BY <2>2
    <2>5. nextId' = nextId /\ queue' = queue /\ lastId' = lastId /\ nextId \in Nat \ {0}
      BY DEF Basics, TypeOK, HydrateKey
    <2>6. \A i \in 1..Len(batch'[c]) : batch'[c][i].id < nextId
      <3>1. \A i \in 1..Len(batch[c]) : batch[c][i].id < nextId  BY DEF Basics, ClientIds
      <3>2. \A i \in 1..Len(batch'[c]) : i \in 1..Len(batch[c]) \/ i = Len(batch[c]) + 1  BY <2>3
      <3> QED  BY <2>1, <2>3, <2>5, <3>1, <3>2
    <2> QED  BY <2>4, <2>5, <2>6 DEF Basics, ClientIds
  <1>5. SendInv'
    BY DEF Basics, SendInv, TypeOK, HydrateKey
  <1>6. HydrationInv'
    <2> DEFINE e == [id |-> 0, key |-> k, val |-> state[k]]
    <2>1. e \in Event /\ e.key = k  BY DEF Basics, TypeOK, Event
    <2>2. batch' = [batch EXCEPT ![c] = Append(batch[c], e)] /\ batch \in [Clients -> Seq(Event)]
      BY DEF Basics, TypeOK, HydrateKey
    <2> HIDE DEF e
    <2>3. /\ Len(batch'[c]) = Len(batch[c]) + 1 /\ batch'[c][Len(batch[c]) + 1] = e
          /\ \A i \in 1..Len(batch[c]) : batch'[c][i] = batch[c][i]
          /\ Len(batch[c]) \in Nat
      BY <2>1, <2>2, Appended, Empty
    <2>4. \A i \in 1..Len(batch[c]) : batch[c][i].key # k
      <3>1. DOMAIN batch[c] = 1..Len(batch[c])  BY <2>2, LenProperties
      <3> QED  BY <3>1 DEF HydrateKey
    <2>5. \A i, j \in 1..Len(batch[c]) : batch[c][i].key = batch[c][j].key => i = j
      BY DEF Basics, HydrationInv, HydrateKey
    <2>6. \A i, j \in 1..Len(batch'[c]) : batch'[c][i].key = batch'[c][j].key => i = j
      <3>1. ASSUME NEW i \in 1..Len(batch'[c])
            PROVE  \/ i \in 1..Len(batch[c]) /\ batch'[c][i] = batch[c][i] /\ batch[c][i].key # k
                   \/ i = Len(batch[c]) + 1 /\ batch'[c][i].key = k
        BY <2>1, <2>3, <2>4
      <3> QED  BY <2>5, <3>1
    <2>7. /\ \A d \in Clients : d # c => batch'[d] = batch[d] /\ phase'[d] = phase[d]
          /\ hydrated' = hydrated /\ seen' = seen /\ hydrated[c] /\ seen[c] = {}
      BY <2>2 DEF Basics, TypeOK, HydrateKey, HydrationInv
    <2> QED  BY <2>6, <2>7 DEF Basics, HydrationInv
  <1> QED  BY <1>1, <1>2, <1>3, <1>4, <1>5, <1>6 DEF Basics

\* A client that receives an event of the types keeps them.
LEMMA ReceiveTypes ==
    ASSUME NEW c \in Clients, NEW e \in Event, Basics, Receive(c, e)
    PROVE  view' \in [Clients -> [Keys -> Nat]] /\ lastId' \in [Clients -> Nat]
  <1>1. e.key \in Keys /\ e.val \in Nat /\ e.id \in Nat  BY DEF Event
  <1> QED  BY <1>1 DEF Basics, TypeOK, Receive

\* An event of the batch is received.
LEMMA DeliverInitialBasics ==
    ASSUME NEW c \in Clients, Basics, DeliverInitial(c)
    PROVE  Basics'
  <1>1. TypeOK'
    <2>1. batch \in [Clients -> Seq(Event)] /\ batch[c] # <<>>  BY DEF Basics, TypeOK, DeliverInitial
    <2>2. Head(batch[c]) \in Event /\ Tail(batch[c]) \in Seq(Event)  BY <2>1, Tailed
    <2>3. view' \in [Clients -> [Keys -> Nat]] /\ lastId' \in [Clients -> Nat]
      BY <2>2, ReceiveTypes DEF DeliverInitial
    <2>4. batch' \in [Clients -> Seq(Event)]  BY <2>1, <2>2 DEF DeliverInitial
    <2> QED  BY <2>3, <2>4 DEF Basics, TypeOK, DeliverInitial
  <1>2. PubIds'
    BY DEF Basics, PubIds, TypeOK, InFlight, DeliverInitial, Receive
  <1>3. RingIds'
    BY DEF Basics, RingIds, PubIds, TypeOK, InFlight, DeliverInitial, Receive
  <1>4. ClientIds'
    <2>1. batch \in [Clients -> Seq(Event)] /\ batch[c] # <<>>  BY DEF Basics, TypeOK, DeliverInitial
    <2>2. /\ Head(batch[c]) = batch[c][1] /\ Len(batch[c]) \in Nat \ {0}
          /\ Len(Tail(batch[c])) = Len(batch[c]) - 1
          /\ \A i \in 1..(Len(batch[c]) - 1) : Tail(batch[c])[i] = batch[c][i + 1]
      BY <2>1, Tailed
    <2>3. /\ batch'[c] = Tail(batch[c]) /\ lastId'[c] = Head(batch[c]).id
          /\ nextId' = nextId /\ queue' = queue
          /\ \A d \in Clients : d # c => batch'[d] = batch[d] /\ lastId'[d] = lastId[d]
      BY DEF Basics, TypeOK, DeliverInitial, Receive
    <2>4. lastId'[c] < nextId /\ \A i \in 1..Len(batch'[c]) : batch'[c][i].id < nextId
      BY <2>2, <2>3 DEF Basics, ClientIds
    <2> QED  BY <2>3, <2>4 DEF Basics, ClientIds
  <1>5. SendInv'
    BY DEF Basics, SendInv, TypeOK, DeliverInitial, Receive
  <1>6. HydrationInv'
    <2>1. /\ phase[c] = "streaming" /\ phase' = phase /\ hydrated' = hydrated /\ seen' = seen
          /\ \A d \in Clients : d # c => batch'[d] = batch[d]
      BY DEF Basics, TypeOK, DeliverInitial
    <2> QED  BY <2>1 DEF Basics, HydrationInv
  <1> QED  BY <1>1, <1>2, <1>3, <1>4, <1>5, <1>6 DEF Basics

\* An event of the channel is skipped or received.
LEMMA DeliverLiveBasics ==
    ASSUME NEW c \in Clients, Basics, DeliverLive(c)
    PROVE  Basics'
  <1>1. TypeOK'
    <2>1. queue \in [Clients -> Seq(Event)] /\ queue[c] # <<>> /\ \A d \in Clients : Len(queue[d]) <= Buffer
      BY DEF Basics, TypeOK, DeliverLive
    <2>2. /\ Head(queue[c]) \in Event /\ Tail(queue[c]) \in Seq(Event)
          /\ Len(Tail(queue[c])) = Len(queue[c]) - 1 /\ Len(queue[c]) \in Nat
      BY <2>1, Tailed
    <2>3. view' \in [Clients -> [Keys -> Nat]] /\ lastId' \in [Clients -> Nat]
      <3>1. CASE UNCHANGED <<lastId, view>>  BY <3>1 DEF Basics, TypeOK
      <3>2. CASE Receive(c, Head(queue[c]))  BY <2>2, <3>2, ReceiveTypes
      <3> QED  BY <3>1, <3>2 DEF DeliverLive
    <2>4. queue' \in [Clients -> Seq(Event)] /\ \A d \in Clients : Len(queue'[d]) <= Buffer
      <3>1. queue' = [queue EXCEPT ![c] = Tail(queue[c])]  BY DEF DeliverLive
      <3>2. Len(Tail(queue[c])) <= Buffer  BY <2>1, <2>2
      <3> QED  BY <2>1, <2>2, <3>1, <3>2
    <2>5. seen' \in [Clients -> SUBSET Nat]  BY DEF Basics, TypeOK, DeliverLive
    <2> QED  BY <2>3, <2>4, <2>5 DEF Basics, TypeOK, DeliverLive
  <1>2. PubIds'
    BY DEF Basics, PubIds, TypeOK, InFlight, DeliverLive, Receive
  <1>3. RingIds'
    BY DEF Basics, RingIds, PubIds, TypeOK, InFlight, DeliverLive, Receive
  <1>4. ClientIds'
    <2>1. queue \in [Clients -> Seq(Event)] /\ queue[c] # <<>>  BY DEF Basics, TypeOK, DeliverLive
    <2>2. /\ Head(queue[c]) = queue[c][1] /\ Len(queue[c]) \in Nat \ {0}
          /\ Len(Tail(queue[c])) = Len(queue[c]) - 1
          /\ \A i \in 1..(Len(queue[c]) - 1) : Tail(queue[c])[i] = queue[c][i + 1]
      BY <2>1, Tailed
    <2>3. /\ queue'[c] = Tail(queue[c]) /\ lastId'[c] \in {lastId[c], Head(queue[c]).id}
          /\ nextId' = nextId /\ batch' = batch /\ nextId \in Nat
          /\ \A d \in Clients : d # c => queue'[d] = queue[d] /\ lastId'[d] = lastId[d]
      BY DEF Basics, TypeOK, DeliverLive, Receive
    <2>4. lastId'[c] < nextId /\ \A i \in 1..Len(queue'[c]) : queue'[c][i].id \in 1..(nextId - 1)
      BY <2>2, <2>3 DEF Basics, ClientIds
    <2> QED  BY <2>3, <2>4 DEF Basics, ClientIds
  <1>5. SendInv'
    BY DEF Basics, SendInv, TypeOK, DeliverLive, Receive
  <1>6. HydrationInv'
    <2>1. /\ phase' = phase /\ hydrated' = hydrated /\ batch' = batch
          /\ seen'[c] \in {seen[c], {}} /\ \A d \in Clients : d # c => seen'[d] = seen[d]
      BY DEF Basics, TypeOK, DeliverLive
    <2> QED  BY <2>1 DEF Basics, HydrationInv
  <1> QED  BY <1>1, <1>2, <1>3, <1>4, <1>5, <1>6 DEF Basics

\* A connection that is gone leaves nothing in the channel and in the batch.
LEMMA DropTypes ==
    ASSUME NEW cs \in SUBSET Clients, Basics, Drop(cs)
    PROVE  /\ phase' \in [Clients -> Phases] /\ seen' \in [Clients -> SUBSET Nat]
           /\ queue' \in [Clients -> Seq(Event)] /\ \A c \in Clients : Len(queue'[c]) <= Buffer
           /\ batch' \in [Clients -> Seq(Event)]
           /\ hydrated' = hydrated /\ lastId' = lastId /\ view' = view
  <1>1. phase' \in [Clients -> Phases] /\ seen' \in [Clients -> SUBSET Nat]
    BY DEF Basics, TypeOK, Drop, Phases
  <1>2. <<>> \in Seq(Event) /\ Len(<<>>) <= Buffer  BY Empty
  <1>3. batch' \in [Clients -> Seq(Event)]  BY <1>2 DEF Basics, TypeOK, Drop
  <1>4. queue' \in [Clients -> Seq(Event)] /\ \A c \in Clients : Len(queue'[c]) <= Buffer
    BY <1>2 DEF Basics, TypeOK, Drop
  <1> QED  BY <1>1, <1>3, <1>4 DEF Drop

\* The connection is gone.
LEMMA EndOfStreamBasics ==
    ASSUME NEW c \in Clients, Basics, EndOfStream(c)
    PROVE  Basics'
  <1>1. TypeOK'
    <2>1. /\ phase' \in [Clients -> Phases] /\ seen' \in [Clients -> SUBSET Nat]
          /\ queue' \in [Clients -> Seq(Event)] /\ \A d \in Clients : Len(queue'[d]) <= Buffer
          /\ batch' \in [Clients -> Seq(Event)]
          /\ hydrated' = hydrated /\ lastId' = lastId /\ view' = view
      BY DropTypes DEF EndOfStream

    <2>2. full' \in [Publishers -> SUBSET Clients]  BY DEF Basics, TypeOK, EndOfStream, Forget
    <2> QED  BY <2>1, <2>2 DEF Basics, TypeOK, EndOfStream
  <1>2. PubIds'
    BY DEF Basics, PubIds, TypeOK, InFlight, EndOfStream, Drop, Forget
  <1>3. RingIds'
    BY Empty DEF Basics, RingIds, PubIds, TypeOK, InFlight, EndOfStream, Drop, Forget
  <1>4. ClientIds'
    BY Empty DEF Basics, ClientIds, TypeOK, EndOfStream, Drop, Forget
  <1>5. SendInv'
    BY Empty DEF Basics, SendInv, TypeOK, EndOfStream, Drop, Forget
  <1>6. HydrationInv'
    BY Empty DEF Basics, HydrationInv, TypeOK, EndOfStream, Drop, Forget
  <1> QED  BY <1>1, <1>2, <1>3, <1>4, <1>5, <1>6 DEF Basics

\* The connection is gone and its subscriber closed.
LEMMA DisconnectBasics ==
    ASSUME NEW c \in Clients, Basics, Disconnect(c)
    PROVE  Basics'
  <1>1. TypeOK'
    <2>1. /\ phase' \in [Clients -> Phases] /\ seen' \in [Clients -> SUBSET Nat]
          /\ queue' \in [Clients -> Seq(Event)] /\ \A d \in Clients : Len(queue'[d]) <= Buffer
          /\ batch' \in [Clients -> Seq(Event)]
          /\ hydrated' = hydrated /\ lastId' = lastId /\ view' = view
      BY DropTypes DEF Disconnect

    <2>2. full' \in [Publishers -> SUBSET Clients] /\ targets' \in [Publishers -> SUBSET Clients]
      BY DEF Basics, TypeOK, Disconnect, Forget, Unsubscribe
    <2>3. open' \in [Clients -> BOOLEAN]  BY Zenon DEF Disconnect, Unsubscribe
    <2> QED  BY <2>1, <2>2, <2>3 DEF Basics, TypeOK, Disconnect
  <1>2. PubIds'
    BY DEF Basics, PubIds, TypeOK, InFlight, Disconnect, Drop, Forget, Unsubscribe
  <1>3. RingIds'
    BY Empty DEF Basics, RingIds, PubIds, TypeOK, InFlight, Disconnect, Drop, Forget, Unsubscribe
  <1>4. ClientIds'
    BY Empty DEF Basics, ClientIds, TypeOK, Disconnect, Drop, Forget, Unsubscribe
  <1>5. SendInv'
    <2>1. \A d \in Clients : open'[d] => open[d] /\ d \notin {c} /\ phase'[d] = phase[d]
      BY DEF Disconnect, Unsubscribe, Drop
    <2>2. \A p \in Publishers : /\ targets'[p] = targets[p] \ {c} /\ full'[p] \subseteq full[p]
                                /\ pc'[p] = pc[p]
      BY DEF Disconnect, Unsubscribe, Forget
    <2>3. \A p \in Publishers : \A d \in targets'[p] : open'[d]
      <3>1. SUFFICES ASSUME NEW p \in Publishers, NEW d \in targets'[p]  PROVE open'[d]
        OBVIOUS
      <3>2. d \in targets[p] /\ d \notin {c} /\ d \in Clients  BY <2>2 DEF Basics, TypeOK
      <3>3. open[d]  BY <3>2 DEF Basics, SendInv
      <3> QED  BY <3>2, <3>3 DEF Disconnect, Unsubscribe
    <2> QED  BY <2>1, <2>2, <2>3 DEF Basics, SendInv
  <1>6. HydrationInv'
    BY Empty DEF Basics, HydrationInv, TypeOK, Disconnect, Drop, Forget, Unsubscribe
  <1> QED  BY <1>1, <1>2, <1>3, <1>4, <1>5, <1>6 DEF Basics

\* The clients remember what they showed, the server nothing.
LEMMA RestartBasics ==
    ASSUME Basics, Restart
    PROVE  Basics'
  <1>1. TypeOK'
    <2>1. /\ phase' \in [Clients -> Phases] /\ seen' \in [Clients -> SUBSET Nat]
          /\ queue' \in [Clients -> Seq(Event)] /\ \A d \in Clients : Len(queue'[d]) <= Buffer
          /\ batch' \in [Clients -> Seq(Event)]
          /\ hydrated' = hydrated /\ lastId' = lastId /\ view' = view
      BY DropTypes DEF Restart

    <2>2. full' \in [Publishers -> SUBSET Clients] /\ targets' \in [Publishers -> SUBSET Clients]
      BY DEF Basics, TypeOK, Restart, Unsubscribe
    <2>3. open' \in [Clients -> BOOLEAN]  BY Zenon DEF Restart, Unsubscribe
    <2>4. ring' \in Seq(Event) /\ Len(ring') = 0 /\ expired' = 0  BY Empty DEF Restart
    <2>5. /\ pc' \in [Publishers -> Steps] /\ evt' \in [Publishers -> Event \cup {NoEvent}]
          /\ state' \in [Keys -> Nat] /\ closed' \in BOOLEAN /\ overlapped' \in BOOLEAN
          /\ raced' \in SUBSET Keys
      BY DEF Restart, Steps
    <2>6. nextId' \in Nat \ {0}  BY DEF Basics, TypeOK, Restart
    <2>7. expired' \in 0..Len(ring') /\ Len(ring') <= Capacity  BY <2>4
    <2> QED  BY <2>1, <2>2, <2>3, <2>4, <2>5, <2>6, <2>7 DEF Basics, TypeOK
  <1>2. PubIds'
    BY DEF Basics, PubIds, TypeOK, InFlight, Restart, Drop, Unsubscribe
  <1>3. RingIds'
    BY Empty DEF Basics, RingIds, PubIds, TypeOK, InFlight, Restart, Drop, Unsubscribe
  <1>4. ClientIds'
    BY Empty DEF Basics, ClientIds, TypeOK, Restart, Drop, Unsubscribe
  <1>5. SendInv'
    <2>1. \A c \in Clients : ~open'[c]  BY DEF Restart, Unsubscribe
    <2>2. \A p \in Publishers : targets'[p] = {} /\ full'[p] = {}
      BY DEF Basics, TypeOK, Restart, Unsubscribe
    <2> QED  BY <2>1, <2>2 DEF SendInv
  <1>6. HydrationInv'
    BY Empty DEF Basics, HydrationInv, TypeOK, Restart, Drop, Unsubscribe
  <1> QED  BY <1>1, <1>2, <1>3, <1>4, <1>5, <1>6 DEF Basics

-----------------------------------------------------------------------------
(* The invariant while no two publications have overlapped.                *)

\* The latest event is not in the ring yet; the clients it is still to be sent to.
Adding == \E p \in Publishers : pc[p] = "add"
Owed == {c \in Clients : \E p \in Publishers :
           \/ pc[p] \in {"add", "sync", "snapshot"}
           \/ pc[p] = "send" /\ c \in targets[p] \cup full[p]}

\* The last event that entered the ring, the last one that was sent to an open client.
Top == IF Adding THEN nextId - 2 ELSE nextId - 1
Sent == [c \in Clients |-> IF c \in Owed THEN nextId - 2 ELSE nextId - 1]

\* Per key, the last event of it that entered the ring.
Syncing(k) == \E p \in Publishers : pc[p] = "sync" /\ evt[p].key = k
Latest == [k \in Keys |-> IF Syncing(k) THEN nextId - 1 ELSE state[k]]

\* The clients whose last event the ring still has.
Known == {c \in Clients : \E i \in 1..Len(ring) : ring[i].id = lastId[c]}

\* e is the event its id says, given the latest events of the keys.
Real(latest, e) ==
    /\ e.val = e.id /\ latest[e.key] >= e.id
    /\ \A k \in Keys : latest[k] = e.id => k = e.key

\* One publication at a time: its event is the latest, the ring ends with it or
\* with the one before it and has no gap.
HubInv ==
    /\ \A p, q \in Publishers : InFlight(p) /\ InFlight(q) => p = q
    /\ \A p \in Publishers : InFlight(p) => evt[p].id = nextId - 1
    /\ \A p \in Publishers : pc[p] \in {"sync", "snapshot", "send"} => Real(Latest, evt[p])
    /\ \A i \in 1..Len(ring) : Real(Latest, ring[i]) /\ ring[i].id = (Top - Len(ring)) + i
    /\ \A k \in Keys : Latest[k] \in 0..Top

\* The channel of c has consecutive events, up to the latest if it is open.
QueueInv(c) ==
    /\ lastId[c] <= Top
    /\ \A i \in 1..Len(queue[c]) :
         /\ Real(Latest, queue[c][i]) /\ queue[c][i].id <= Sent[c]
         /\ queue[c][i].id = (queue[c][1].id - 1) + i
    /\ open[c] /\ queue[c] # <<>> => queue[c][Len(queue[c])].id = Sent[c]
    /\ phase[c] = "subscribed" => \A i \in 1..Len(queue[c]) : queue[c][i].id >= lastId[c]

\* c has a state and receives the events after it.
Following(c) == phase[c] = "streaming" /\ (~hydrated[c] \/ (batch[c] = <<>> /\ lastId[c] # 0))

\* The last event of the replay.
End(c) == lastId[c] + Len(batch[c])

\* What is left of the replay and the channel together are the events after the
\* last one received, up to the latest that was sent; what they have in common
\* is what is skipped.
FollowInv(c) ==
    Following(c) =>
      /\ lastId[c] # 0 /\ End(c) <= Top
      /\ \A i \in 1..Len(batch[c]) : Real(Latest, batch[c][i]) /\ batch[c][i].id = lastId[c] + i
      /\ \A n \in seen[c] : n <= End(c)
      /\ \A i \in 1..Len(queue[c]) : queue[c][i].id <= End(c) => queue[c][i].id \in seen[c]
      /\ c \in Owed /\ End(c) = nextId - 1 => nextId - 1 \in seen[c]
      /\ queue[c] # <<>> => queue[c][1].id <= End(c) + 1
      /\ open[c] /\ queue[c] = <<>> => End(c) >= Sent[c]

\* What c shows is the state as of the last event it has received.
ViewInv(c) ==
    c \in Known \/ Following(c) =>
      \A k \in Keys : Latest[k] <= lastId[c] => view[c][k] = Latest[k]

\* c has read the state, or is reading it, and has not received an event yet.
Fresh(c) == hydrated[c] /\ phase[c] \in {"hydrating", "streaming"} /\ ~Following(c)

\* No event of s is of key k.
Absent(s, k) == \A i \in 1..Len(s) : s[i].key # k

\* What c has read of key k, and has not received live yet, is v.
Read(c, k, v) ==
    /\ \A i \in 1..Len(batch[c]) : batch[c][i].key = k => batch[c][i].val = v
    /\ phase[c] = "streaming" /\ Absent(batch[c], k) => view[c][k] = v

\* What c has read is as of the event before the first one in its channel.
FreshInv(c) ==
    Fresh(c) =>
      /\ \A i \in 1..Len(batch[c]) : batch[c][i].id = 0
      /\ queue[c] # <<>> => \A k \in Keys : Latest[k] < queue[c][1].id => Read(c, k, Latest[k])
      /\ open[c] /\ queue[c] = <<>> => \A k \in Keys : Latest[k] <= Sent[c] => Read(c, k, Latest[k])

ClientInv(c) == QueueInv(c) /\ FollowInv(c) /\ ViewInv(c) /\ FreshInv(c)

Serial == HubInv /\ \A c \in Clients : ClientInv(c)

\* The ranges of what the invariant is about, the elements of the sequences.
HubRanges ==
    /\ nextId \in Nat \ {0} /\ Top \in Int /\ Top <= nextId - 1 /\ Latest \in [Keys -> Nat]
    /\ \A c \in Clients : Sent[c] \in Int /\ Sent[c] <= Top
ClientRanges ==
    \A c \in Clients :
      /\ queue[c] \in Seq(Event) /\ Len(queue[c]) \in Nat
      /\ queue[c] = <<>> <=> Len(queue[c]) = 0
      /\ batch[c] \in Seq(Event) /\ Len(batch[c]) \in Nat
      /\ batch[c] = <<>> <=> Len(batch[c]) = 0
      /\ \A i \in 1..Len(queue[c]) : /\ queue[c][i] \in Event /\ queue[c][i].key \in Keys
                                     /\ queue[c][i].id \in Nat \ {0} /\ queue[c][i].val \in Nat
      /\ \A i \in 1..Len(batch[c]) : /\ batch[c][i] \in Event /\ batch[c][i].key \in Keys
                                     /\ batch[c][i].id \in Nat /\ batch[c][i].val \in Nat
      /\ lastId[c] \in Nat /\ view[c] \in [Keys -> Nat] /\ seen[c] \in SUBSET Nat

\* They follow from the types.
LEMMA Ranges == Basics => HubRanges /\ ClientRanges
  <1> SUFFICES ASSUME Basics PROVE HubRanges /\ ClientRanges
    OBVIOUS
  <1>1. nextId \in Nat \ {0} /\ state \in [Keys -> Nat]  BY DEF Basics, TypeOK
  <1>2. HubRanges
    <2>1. Latest \in [Keys -> Nat]  BY <1>1 DEF Latest
    <2>2. ASSUME NEW c \in Clients  PROVE Sent[c] \in Int /\ Sent[c] <= Top
      <3>1. Adding => c \in Owed  BY DEF Adding, Owed
      <3>2. Sent[c] = IF c \in Owed THEN nextId - 2 ELSE nextId - 1  BY DEF Sent
      <3> QED  BY <1>1, <3>1, <3>2 DEF Top
    <2> QED  BY <1>1, <2>1, <2>2 DEF Top, HubRanges
  <1>3. ClientRanges
    <2> SUFFICES ASSUME NEW c \in Clients
                 PROVE  /\ queue[c] \in Seq(Event) /\ Len(queue[c]) \in Nat
                        /\ queue[c] = <<>> <=> Len(queue[c]) = 0
                        /\ batch[c] \in Seq(Event) /\ Len(batch[c]) \in Nat
                        /\ batch[c] = <<>> <=> Len(batch[c]) = 0
                        /\ \A i \in 1..Len(queue[c]) :
                             /\ queue[c][i] \in Event /\ queue[c][i].key \in Keys
                             /\ queue[c][i].id \in Nat \ {0} /\ queue[c][i].val \in Nat
                        /\ \A i \in 1..Len(batch[c]) :
                             /\ batch[c][i] \in Event /\ batch[c][i].key \in Keys
                             /\ batch[c][i].id \in Nat /\ batch[c][i].val \in Nat
                        /\ lastId[c] \in Nat /\ view[c] \in [Keys -> Nat] /\ seen[c] \in SUBSET Nat
      BY DEF ClientRanges
    <2>1. /\ queue[c] \in Seq(Event) /\ batch[c] \in Seq(Event)
          /\ lastId[c] \in Nat /\ view[c] \in [Keys -> Nat] /\ seen[c] \in SUBSET Nat
      BY DEF Basics, TypeOK
    <2>2. /\ Len(queue[c]) \in Nat /\ queue[c] = <<>> <=> Len(queue[c]) = 0
          /\ Len(batch[c]) \in Nat /\ batch[c] = <<>> <=> Len(batch[c]) = 0
      BY <2>1, Empty
    <2>3. ASSUME NEW i \in 1..Len(queue[c])
          PROVE  /\ queue[c][i] \in Event /\ queue[c][i].key \in Keys
                 /\ queue[c][i].id \in Nat \ {0} /\ queue[c][i].val \in Nat
      <3>1. queue[c][i] \in Event  BY <2>1, Empty
      <3>2. queue[c][i].id \in 1..(nextId - 1)  BY DEF Basics, ClientIds
      <3> QED  BY <1>1, <3>1, <3>2 DEF Event
    <2>4. ASSUME NEW i \in 1..Len(batch[c])
          PROVE  /\ batch[c][i] \in Event /\ batch[c][i].key \in Keys
                 /\ batch[c][i].id \in Nat /\ batch[c][i].val \in Nat
      <3>1. batch[c][i] \in Event  BY <2>1, Empty
      <3> QED  BY <3>1 DEF Event
    <2> QED  BY <2>1, <2>2, <2>3, <2>4
  <1> QED  BY <1>2, <1>3

\* The same of the next state.
LEMMA RangesNext == Basics' => HubRanges' /\ ClientRanges'
  BY Ranges, PTL

\* An event of the ring stays what it is when later ones follow.
LEMMA StaysReal ==
    ASSUME NEW e \in Event, NEW t \in Int, e.id <= t,
           NEW l \in [Keys -> Nat], NEW m \in [Keys -> Nat], Real(l, e),
           \A k \in Keys : m[k] = l[k] \/ m[k] > t
    PROVE  Real(m, e)
  <1>1. e.key \in Keys /\ e.id \in Nat  BY DEF Event
  <1> QED  BY <1>1 DEF Real

\* What a connection that itself does nothing keeps while the hub goes on.
LEMMA Frame ==
    ASSUME Basics, Basics', NEW c \in Clients, ClientInv(c),
           phase'[c] = phase[c], queue'[c] = queue[c], batch'[c] = batch[c], seen'[c] = seen[c],
           hydrated'[c] = hydrated[c], lastId'[c] = lastId[c], view'[c] = view[c],
           Top <= Top', nextId <= nextId', Sent[c] <= Sent'[c],
           open'[c] => open[c] /\ Sent'[c] = Sent[c],
           c \in Owed' /\ nextId' = nextId => c \in Owed,
           c \in Known' => c \in Known,
           \A k \in Keys : Latest'[k] = Latest[k] \/ Latest'[k] > Top
    PROVE  ClientInv(c)'
  <1>1. /\ nextId \in Nat /\ nextId' \in Nat /\ Top \in Int /\ Top' \in Int /\ Sent[c] \in Int
        /\ Sent'[c] \in Int /\ Top <= nextId - 1 /\ Sent[c] <= Top
        /\ Latest \in [Keys -> Nat] /\ Latest' \in [Keys -> Nat]
    BY Ranges, RangesNext DEF HubRanges
  <1>2. /\ Len(queue[c]) \in Nat /\ queue[c] = <<>> <=> Len(queue[c]) = 0
        /\ \A i \in 1..Len(queue[c]) : queue[c][i] \in Event /\ queue[c][i].id \in Nat
        /\ \A i \in 1..Len(batch[c]) : batch[c][i] \in Event /\ batch[c][i].id \in Nat
        /\ lastId[c] \in Nat /\ Len(batch[c]) \in Nat
    BY Ranges DEF ClientRanges
  <1>3. ASSUME NEW e \in Event, e.id <= Top, Real(Latest, e)  PROVE Real(Latest', e)
    BY <1>1, <1>3, StaysReal
  <1>4. \A i \in 1..Len(queue[c]) : queue[c][i].id <= Sent[c] /\ queue[c][i].id <= Top
    BY <1>1, <1>2 DEF ClientInv, QueueInv
  <1>5. QueueInv(c)'
    <2>1. ASSUME NEW i \in 1..Len(queue[c])  PROVE Real(Latest', queue[c][i]) /\ queue[c][i].id <= Sent'[c]
      <3>1. Real(Latest, queue[c][i])  BY DEF ClientInv, QueueInv
      <3>2. Real(Latest', queue[c][i])  BY <1>2, <1>3, <1>4, <3>1
      <3>3. queue[c][i].id <= Sent'[c]  BY <1>1, <1>2, <1>4
      <3> QED  BY <3>2, <3>3
    <2>2. lastId[c] <= Top'  BY <1>1, <1>2 DEF ClientInv, QueueInv
    <2> QED  BY <2>1, <2>2 DEF ClientInv, QueueInv
  <1>6. FollowInv(c)'
    <2> SUFFICES ASSUME Following(c)  PROVE FollowInv(c)'
      BY DEF FollowInv, Following
    <2>1. lastId[c] # 0 /\ End(c) <= Top' /\ End(c) <= nextId - 1 /\ End(c) \in Nat
      BY <1>1, <1>2 DEF ClientInv, FollowInv, End
    <2>2. \A i \in 1..Len(batch[c]) : Real(Latest', batch[c][i]) /\ batch[c][i].id = lastId[c] + i
      <3>1. SUFFICES ASSUME NEW i \in 1..Len(batch[c])
                     PROVE  Real(Latest', batch[c][i]) /\ batch[c][i].id = lastId[c] + i
        OBVIOUS
      <3>2. batch[c][i].id = lastId[c] + i /\ Real(Latest, batch[c][i]) /\ End(c) <= Top
        BY DEF ClientInv, FollowInv
      <3>3. batch[c][i].id <= Top  BY <1>1, <1>2, <3>2 DEF End
      <3> QED  BY <1>2, <1>3, <3>2, <3>3
    <2>3. ASSUME c \in Owed', End(c) = nextId' - 1  PROVE nextId' - 1 \in seen[c]
      <3>1. nextId' = nextId  BY <1>1, <2>1, <2>3
      <3>2. c \in Owed  BY <2>3, <3>1
      <3> QED  BY <2>3, <3>1, <3>2 DEF ClientInv, FollowInv
    <2> QED  BY <2>1, <2>2, <2>3 DEF ClientInv, FollowInv, End
  <1>7. ViewInv(c)'
    <2> SUFFICES ASSUME c \in Known' \/ Following(c), NEW k \in Keys, Latest'[k] <= lastId[c]
                 PROVE  view[c][k] = Latest'[k]
      BY DEF ViewInv, Following
    <2>1. lastId[c] <= Top  BY DEF ClientInv, QueueInv
    <2>2. Latest'[k] = Latest[k]  BY <1>1, <1>2, <2>1
    <2> QED  BY <2>2 DEF ClientInv, ViewInv
  <1>8. FreshInv(c)'
    <2> SUFFICES ASSUME Fresh(c)  PROVE FreshInv(c)'
      BY DEF FreshInv, Fresh, Following
    <2>1. ASSUME queue[c] # <<>>, NEW k \in Keys, Latest'[k] < queue[c][1].id
          PROVE  Read(c, k, Latest[k])'
      <3>1. queue[c][1].id <= Top /\ queue[c][1].id \in Nat  BY <1>2, <1>4, <2>1
      <3>2. Latest'[k] = Latest[k]  BY <1>1, <2>1, <3>1
      <3>3. Read(c, k, Latest[k])  BY <2>1, <3>2 DEF ClientInv, FreshInv
      <3> QED  BY <3>2, <3>3 DEF Read
    <2>2. ASSUME open'[c], queue[c] = <<>>, NEW k \in Keys, Latest'[k] <= Sent'[c]
          PROVE  Read(c, k, Latest[k])'
      <3>1. Latest'[k] = Latest[k]  BY <1>1, <2>2
      <3>2. Read(c, k, Latest[k])  BY <2>2, <3>1 DEF ClientInv, FreshInv
      <3> QED  BY <3>1, <3>2 DEF Read
    <2> QED  BY <2>1, <2>2 DEF ClientInv, FreshInv
  <1> QED  BY <1>5, <1>6, <1>7, <1>8 DEF ClientInv

-----------------------------------------------------------------------------
(* Publishing keeps it.                                                    *)

\* Nobody but p publishes, and what the invariant is about is then up to p.
Only(p) == \A q \in Publishers : q # p => pc[q] = "idle"
UpTo(p) ==
    /\ Top = IF pc[p] = "add" THEN nextId - 2 ELSE nextId - 1
    /\ \A c \in Clients :
         c \in Owed <=> pc[p] \in {"add", "sync", "snapshot"} \/ (pc[p] = "send" /\ c \in targets[p] \cup full[p])
    /\ \A c \in Clients : Sent[c] = IF c \in Owed THEN nextId - 2 ELSE nextId - 1
    /\ \A k \in Keys : Latest[k] = IF pc[p] = "sync" /\ evt[p].key = k THEN nextId - 1 ELSE state[k]

\* It is so: the others contribute nothing.
LEMMA Alone == \A p \in Publishers : Only(p) => UpTo(p)
  <1> SUFFICES ASSUME NEW p \in Publishers, Only(p)  PROVE UpTo(p)
    OBVIOUS
  <1>1. Adding <=> pc[p] = "add"  BY DEF Adding, Only
  <1>2. \A c \in Clients :
          c \in Owed <=> pc[p] \in {"add", "sync", "snapshot"} \/ (pc[p] = "send" /\ c \in targets[p] \cup full[p])
    BY DEF Owed, Only
  <1>3. \A k \in Keys : Syncing(k) <=> pc[p] = "sync" /\ evt[p].key = k  BY DEF Syncing, Only
  <1>4. \A k \in Keys : Latest[k] = IF pc[p] = "sync" /\ evt[p].key = k THEN nextId - 1 ELSE state[k]
    BY <1>3 DEF Latest
  <1>5. \A c \in Clients : Sent[c] = IF c \in Owed THEN nextId - 2 ELSE nextId - 1  BY DEF Sent
  <1>6. Top = IF pc[p] = "add" THEN nextId - 2 ELSE nextId - 1  BY <1>1 DEF Top
  <1> QED  BY <1>2, <1>4, <1>5, <1>6 DEF UpTo

\* The same of the next state.
LEMMA AloneNext == \A p \in Publishers : Only(p)' => UpTo(p)'
  <1> DEFINE All == \A p \in Publishers : Only(p) => UpTo(p)
  <1>1. All  BY Alone
  <1> HIDE DEF All
  <1>2. All'  BY <1>1, PTL
  <1> QED  BY <1>2 DEF All

\* The state of the publisher and of the ring before p's step.
LEMMA Before ==
    ASSUME Basics, Serial, NEW p \in Publishers, InFlight(p)
    PROVE  /\ Only(p) /\ UpTo(p)
           /\ evt[p] \in Event /\ evt[p].id = nextId - 1 /\ evt[p].val = nextId - 1 /\ evt[p].key \in Keys
           /\ evt[p].id \in Nat
  <1>1. Only(p)  BY DEF Serial, HubInv, Only, InFlight
  <1>2. evt[p] \in Event /\ evt[p].id = nextId - 1 /\ evt[p].val = nextId - 1
    BY DEF Basics, PubIds, Serial, HubInv
  <1> QED  BY <1>1, <1>2, Alone DEF Event

\* An id is allocated.
LEMMA PublishSerial ==
    ASSUME Basics, Basics', ~overlapped => Serial, ~overlapped',
           NEW p \in Publishers, NEW k \in Keys, Publish(p, k)
    PROVE  Serial'
  <1>1. /\ ~overlapped /\ Serial /\ \A q \in Publishers : pc[q] = "idle"
    BY DEF Publish
  <1>2. /\ nextId \in Nat /\ nextId' = nextId + 1 /\ state' = state /\ ring' = ring /\ pc'[p] = "add"
        /\ evt'[p].id = nextId
        /\ \A q \in Publishers : q # p => pc'[q] = "idle"
    BY <1>1 DEF Publish, Goto, Basics, TypeOK
  <1>3. UpTo(p) /\ UpTo(p)'
    BY <1>1, <1>2, Alone, AloneNext DEF Only
  <1>4. /\ Top = nextId - 1 /\ Top' = nextId - 1 /\ Owed = {}
        /\ \A c \in Clients : Sent[c] = nextId - 1 /\ Sent'[c] = nextId - 1
        /\ \A l \in Keys : Latest'[l] = Latest[l]
    <2>1. \A c \in Clients : c \notin Owed  BY <1>1, <1>3 DEF UpTo
    <2>2. Owed = {}  BY <2>1 DEF Owed
    <2>3. \A c \in Clients : c \in Owed'  BY <1>2, <1>3 DEF UpTo
    <2>4. \A l \in Keys : Latest'[l] = Latest[l]  BY <1>1, <1>2, <1>3 DEF UpTo
    <2> QED  BY <1>1, <1>2, <1>3, <2>1, <2>2, <2>3, <2>4 DEF UpTo
  <1>5. HubInv'
    <2>1. Latest' = Latest  BY <1>4, Ranges, RangesNext DEF HubRanges
    <2>2. \A q \in Publishers : InFlight(q)' => q = p  BY <1>2 DEF InFlight
    <2>3. \A i \in 1..Len(ring') : Real(Latest', ring'[i]) /\ ring'[i].id = (Top' - Len(ring')) + i
      BY <1>1, <1>2, <1>4, <2>1 DEF Serial, HubInv
    <2>4. \A l \in Keys : Latest'[l] \in 0..Top'
      BY <1>1, <1>4 DEF Serial, HubInv
    <2>5. evt'[p].id = nextId' - 1 /\ pc'[p] = "add"  BY <1>2
    <2>6. \A q \in Publishers : pc'[q] \in {"sync", "snapshot", "send"} => FALSE
      BY <1>2
    <2> QED  BY <2>2, <2>3, <2>4, <2>5, <2>6 DEF HubInv
  <1>6. ASSUME NEW c \in Clients  PROVE ClientInv(c)'
    <2>1. ClientInv(c)  BY <1>1 DEF Serial
    <2>2. /\ phase'[c] = phase[c] /\ queue'[c] = queue[c] /\ batch'[c] = batch[c] /\ seen'[c] = seen[c]
          /\ hydrated'[c] = hydrated[c] /\ lastId'[c] = lastId[c] /\ view'[c] = view[c] /\ open'[c] = open[c]
      BY DEF Publish
    <2>3. c \in Known' => c \in Known  BY DEF Publish, Known
    <2>4. Sent'[c] = Sent[c] /\ Sent[c] <= Sent'[c] /\ Top <= Top' /\ nextId <= nextId' /\ nextId' # nextId
      BY <1>2, <1>4
    <2> QED  BY <1>4, <2>1, <2>2, <2>3, <2>4, Frame
  <1> QED  BY <1>5, <1>6 DEF Serial

\* The event enters the ring: the oldest entry gives way.
LEMMA RingAddSerial ==
    ASSUME Basics, Basics', Serial, NEW p \in Publishers, RingAdd(p)
    PROVE  Serial'
  <1>1. /\ pc[p] = "add" /\ InFlight(p) /\ nextId' = nextId /\ state' = state /\ evt' = evt /\ pc'[p] = "sync"
        /\ \A q \in Publishers : q # p => pc'[q] = pc[q]
    BY DEF RingAdd, Goto, Basics, TypeOK, InFlight
  <1>2. /\ Only(p) /\ UpTo(p) /\ evt[p] \in Event /\ evt[p].id = nextId - 1 /\ evt[p].val = nextId - 1
        /\ evt[p].key \in Keys /\ evt[p].id \in Nat
    BY <1>1, Before
  <1>3. UpTo(p)'  BY <1>1, <1>2, AloneNext DEF Only
  <1>4. /\ Top = nextId - 2 /\ Top' = nextId - 1
        /\ \A c \in Clients : c \in Owed /\ c \in Owed' /\ Sent[c] = nextId - 2 /\ Sent'[c] = nextId - 2
        /\ \A k \in Keys : Latest'[k] = IF k = evt[p].key THEN nextId - 1 ELSE Latest[k]
    <2>1. \A c \in Clients : c \in Owed /\ c \in Owed'  BY <1>1, <1>2, <1>3 DEF UpTo
    <2>2. \A c \in Clients : Sent[c] = nextId - 2 /\ Sent'[c] = nextId - 2
      BY <1>1, <1>2, <1>3, <2>1 DEF UpTo
    <2>3. \A k \in Keys : Latest'[k] = IF k = evt[p].key THEN nextId - 1 ELSE Latest[k]
      BY <1>1, <1>2, <1>3 DEF UpTo
    <2> QED  BY <1>1, <1>2, <1>3, <2>1, <2>2, <2>3 DEF UpTo
  <1>5. /\ nextId \in Nat /\ Latest \in [Keys -> Nat] /\ Latest' \in [Keys -> Nat]
        /\ \A k \in Keys : Latest[k] \in 0..Top
    BY Ranges, RangesNext DEF HubRanges, Serial, HubInv
  <1>6. \A k \in Keys : Latest'[k] = Latest[k] \/ Latest'[k] > Top  BY <1>4, <1>5
  <1>7. Real(Latest', evt[p])
    <2>1. \A k \in Keys : Latest'[k] = evt[p].id => k = evt[p].key  BY <1>2, <1>4, <1>5
    <2> QED  BY <1>2, <1>4, <1>5, <2>1 DEF Real
  <1>8. \A i \in 1..Len(ring') : Real(Latest', ring'[i]) /\ ring'[i].id = (Top' - Len(ring')) + i
    <2>1. ring \in Seq(Event) /\ Len(ring) \in Nat /\ \A i \in 1..Len(ring) : ring[i] \in Event
      BY Empty DEF Basics, TypeOK
    <2>2. \A i \in 1..Len(ring) : Real(Latest, ring[i]) /\ ring[i].id = (Top - Len(ring)) + i
      BY DEF Serial, HubInv
    <2>3. \A i \in 1..Len(ring) : Real(Latest', ring[i])
      <3> SUFFICES ASSUME NEW i \in 1..Len(ring)  PROVE Real(Latest', ring[i])
        OBVIOUS
      <3>1. ring[i].id <= Top /\ Top \in Int  BY <1>4, <1>5, <2>1, <2>2
      <3> QED  BY <1>5, <1>6, <2>1, <2>2, <3>1, StaysReal
    <2>4. CASE Len(ring) = Capacity
      <3>1. ring # <<>> /\ ring' = Append(Tail(ring), evt[p])  BY <2>1, <2>4, Empty DEF RingAdd
      <3>2. Tail(ring) \in Seq(Event) /\ Len(Tail(ring)) = Len(ring) - 1
            /\ \A i \in 1..(Len(ring) - 1) : Tail(ring)[i] = ring[i + 1]
        BY <2>1, <3>1, Tailed
      <3>3. /\ Len(ring') = Len(ring) /\ ring'[Len(ring)] = evt[p]
            /\ \A i \in 1..(Len(ring) - 1) : ring'[i] = ring[i + 1]
        BY <1>2, <2>1, <3>1, <3>2, Appended
      <3> SUFFICES ASSUME NEW i \in 1..Len(ring)
                   PROVE  Real(Latest', ring'[i]) /\ ring'[i].id = (Top' - Len(ring')) + i
        BY <3>3
      <3>4. CASE i = Len(ring)
        <4>1. ring'[i] = evt[p]  BY <3>3, <3>4
        <4>2. evt[p].id = (Top' - Len(ring')) + i  BY <1>2, <1>4, <1>5, <2>1, <3>3, <3>4
        <4> QED  BY <1>7, <4>1, <4>2
      <3>5. CASE i # Len(ring)
        <4>1. i + 1 \in 1..Len(ring) /\ ring'[i] = ring[i + 1]  BY <2>1, <3>3, <3>5
        <4>2. ring[i + 1].id = (Top - Len(ring)) + (i + 1) /\ Real(Latest', ring[i + 1])
          BY <2>2, <2>3, <4>1
        <4> QED  BY <1>4, <1>5, <2>1, <3>3, <4>1, <4>2
      <3> QED  BY <3>4, <3>5
    <2>5. CASE Len(ring) # Capacity
      <3>1. ring' = Append(ring, evt[p])  BY <2>5 DEF RingAdd
      <3>2. /\ Len(ring') = Len(ring) + 1 /\ ring'[Len(ring) + 1] = evt[p]
            /\ \A i \in 1..Len(ring) : ring'[i] = ring[i]
        BY <1>2, <2>1, <3>1, Appended
      <3> SUFFICES ASSUME NEW i \in 1..(Len(ring) + 1)
                   PROVE  Real(Latest', ring'[i]) /\ ring'[i].id = (Top' - Len(ring')) + i
        BY <3>2
      <3>3. CASE i = Len(ring) + 1
        <4>1. ring'[i] = evt[p]  BY <3>2, <3>3
        <4>2. evt[p].id = (Top' - Len(ring')) + i  BY <1>2, <1>4, <1>5, <2>1, <3>2, <3>3
        <4> QED  BY <1>7, <4>1, <4>2
      <3>4. CASE i # Len(ring) + 1
        <4>1. i \in 1..Len(ring) /\ ring'[i] = ring[i]  BY <2>1, <3>2, <3>4
        <4>2. ring[i].id = (Top - Len(ring)) + i /\ Real(Latest', ring[i])
          BY <2>2, <2>3, <4>1
        <4> QED  BY <1>4, <1>5, <2>1, <3>2, <4>1, <4>2
      <3> QED  BY <3>3, <3>4
    <2> QED  BY <2>4, <2>5
  <1>9. HubInv'
    <2>1. \A q \in Publishers : InFlight(q)' => q = p  BY <1>1, <1>2 DEF InFlight, Only
    <2>2. \A k \in Keys : Latest'[k] \in 0..Top'  BY <1>2, <1>4, <1>5
    <2>3. evt'[p].id = nextId' - 1 /\ Real(Latest', evt'[p])  BY <1>1, <1>2, <1>7
    <2>4. \A q \in Publishers : pc'[q] \in {"sync", "snapshot", "send"} => q = p
      BY <1>1, <1>2 DEF Only
    <2> QED  BY <1>8, <2>1, <2>2, <2>3, <2>4 DEF HubInv
  <1>10. ASSUME NEW c \in Clients  PROVE ClientInv(c)'
    <2>1. ClientInv(c)  BY DEF Serial
    <2>2. /\ phase'[c] = phase[c] /\ queue'[c] = queue[c] /\ batch'[c] = batch[c] /\ seen'[c] = seen[c]
          /\ hydrated'[c] = hydrated[c] /\ lastId'[c] = lastId[c] /\ view'[c] = view[c] /\ open'[c] = open[c]
      BY DEF RingAdd
    <2>3. c \in Known' => c \in Known
      <3>1. SUFFICES ASSUME c \in Known'  PROVE c \in Known
        OBVIOUS
      <3>2. PICK i \in 1..Len(ring') : ring'[i].id = lastId[c]  BY <2>2, <3>1 DEF Known
      <3>3. lastId[c] <= nextId - 2 /\ lastId[c] \in Nat
        BY <1>4, <2>1 DEF ClientInv, QueueInv, Basics, TypeOK
      <3>4. ring \in Seq(Event) /\ Len(ring) \in Nat  BY Empty DEF Basics, TypeOK
      <3>5. CASE Len(ring) = Capacity
        <4>1. ring # <<>> /\ ring' = Append(Tail(ring), evt[p])  BY <3>4, <3>5, Empty DEF RingAdd
        <4>2. Tail(ring) \in Seq(Event) /\ Len(Tail(ring)) = Len(ring) - 1
              /\ \A j \in 1..(Len(ring) - 1) : Tail(ring)[j] = ring[j + 1]
          BY <3>4, <4>1, Tailed
        <4>3. /\ Len(ring') = Len(ring) /\ ring'[Len(ring)] = evt[p]
              /\ \A j \in 1..(Len(ring) - 1) : ring'[j] = ring[j + 1]
          BY <1>2, <3>4, <4>1, <4>2, Appended
        <4>4. i + 1 \in 1..Len(ring) /\ ring[i + 1].id = lastId[c]
          BY <1>2, <1>5, <3>2, <3>3, <3>4, <4>3
        <4> QED  BY <4>4 DEF Known
      <3>6. CASE Len(ring) # Capacity
        <4>1. ring' = Append(ring, evt[p])  BY <3>6 DEF RingAdd
        <4>2. /\ Len(ring') = Len(ring) + 1 /\ ring'[Len(ring) + 1] = evt[p]
              /\ \A j \in 1..Len(ring) : ring'[j] = ring[j]
          BY <1>2, <3>4, <4>1, Appended
        <4>3. i \in 1..Len(ring) /\ ring[i].id = lastId[c]
          BY <1>2, <1>5, <3>2, <3>3, <3>4, <4>2
        <4> QED  BY <4>3 DEF Known
      <3> QED  BY <3>5, <3>6
    <2>4. Sent'[c] = Sent[c] /\ Sent[c] <= Sent'[c] /\ Top <= Top' /\ nextId <= nextId' /\ c \in Owed
      BY <1>1, <1>4, <1>5
    <2> QED  BY <1>6, <2>1, <2>2, <2>3, <2>4, Frame
  <1> QED  BY <1>9, <1>10 DEF Serial

\* A step that allocates no id and leaves the ring alone keeps what is said of
\* the hub, and of every connection that it leaves alone.
LEMMA HubSteady ==
    ASSUME HubInv, nextId' = nextId, ring' = ring, evt' = evt, Top' = Top, Latest' = Latest,
           \A q \in Publishers : pc'[q] # "idle" => pc[q] # "idle",
           \A q \in Publishers : pc'[q] \in {"sync", "snapshot", "send"} => pc[q] \in {"sync", "snapshot", "send"}
    PROVE  HubInv'
  <1>1. \A q, r \in Publishers : InFlight(q)' /\ InFlight(r)' => q = r  BY DEF HubInv, InFlight
  <1>2. \A q \in Publishers : InFlight(q)' => evt'[q].id = nextId' - 1  BY DEF HubInv, InFlight
  <1>3. \A q \in Publishers : pc'[q] \in {"sync", "snapshot", "send"} => Real(Latest', evt'[q])
    BY DEF HubInv
  <1>4. \A i \in 1..Len(ring') : Real(Latest', ring'[i]) /\ ring'[i].id = (Top' - Len(ring')) + i
    BY DEF HubInv
  <1>5. \A k \in Keys : Latest'[k] \in 0..Top'  BY DEF HubInv
  <1> QED  BY <1>1, <1>2, <1>3, <1>4, <1>5 DEF HubInv

\* And what is said of a connection.
LEMMA ClientSteady ==
    ASSUME Basics, Basics', NEW c \in Clients, ClientInv(c),
           nextId' = nextId, ring' = ring, Top' = Top, Latest' = Latest,
           phase'[c] = phase[c], queue'[c] = queue[c], batch'[c] = batch[c], seen'[c] = seen[c],
           hydrated'[c] = hydrated[c], lastId'[c] = lastId[c], view'[c] = view[c],
           open'[c] => open[c], c \in Owed' => c \in Owed,
           open'[c] /\ c \in Owed => c \in Owed'
    PROVE  ClientInv(c)'
  <1>1. nextId \in Nat /\ Top \in Int  BY Ranges DEF HubRanges
  <1>2. /\ Sent[c] = IF c \in Owed THEN nextId - 2 ELSE nextId - 1
        /\ Sent'[c] = IF c \in Owed' THEN nextId - 2 ELSE nextId - 1
    BY DEF Sent
  <1>3. Sent[c] <= Sent'[c] /\ (open'[c] => open[c] /\ Sent'[c] = Sent[c])  BY <1>1, <1>2
  <1>4. c \in Known' => c \in Known  BY DEF Known
  <1>5. Top <= Top' /\ nextId <= nextId'  BY <1>1
  <1>6. \A k \in Keys : Latest'[k] = Latest[k] \/ Latest'[k] > Top  OBVIOUS
  <1> QED  BY <1>3, <1>4, <1>5, <1>6, Frame

\* The two together.
LEMMA AllSteady ==
    ASSUME Basics, Basics', Serial,
           nextId' = nextId, ring' = ring, evt' = evt, Top' = Top, Latest' = Latest,
           \A q \in Publishers : pc'[q] # "idle" => pc[q] # "idle",
           \A q \in Publishers : pc'[q] \in {"sync", "snapshot", "send"} => pc[q] \in {"sync", "snapshot", "send"},
           UNCHANGED <<phase, queue, batch, seen, hydrated, lastId, view>>,
           \A c \in Clients : /\ open'[c] => open[c]
                              /\ c \in Owed' => c \in Owed
                              /\ open'[c] /\ c \in Owed => c \in Owed'
    PROVE  Serial'
  <1>1. HubInv'  BY HubSteady DEF Serial
  <1>2. ASSUME NEW c \in Clients  PROVE ClientInv(c)'
    <2>1. ClientInv(c)  BY DEF Serial
    <2>2. /\ phase'[c] = phase[c] /\ queue'[c] = queue[c] /\ batch'[c] = batch[c] /\ seen'[c] = seen[c]
          /\ hydrated'[c] = hydrated[c] /\ lastId'[c] = lastId[c] /\ view'[c] = view[c]
      OBVIOUS
    <2>3. /\ open'[c] => open[c]
          /\ c \in Owed' => c \in Owed
          /\ open'[c] /\ c \in Owed => c \in Owed'
      OBVIOUS
    <2> QED  BY <2>1, <2>2, <2>3, ClientSteady
  <1> QED  BY <1>1, <1>2 DEF Serial

\* The state takes the value: it has the latest event of every key then.
LEMMA SyncStateSerial ==
    ASSUME Basics, Basics', Serial, NEW p \in Publishers, SyncState(p)
    PROVE  Serial'
  <1>1. /\ pc[p] = "sync" /\ InFlight(p) /\ nextId' = nextId /\ ring' = ring /\ evt' = evt /\ pc'[p] = "snapshot"
        /\ state' = [state EXCEPT ![evt[p].key] = evt[p].val]
        /\ \A q \in Publishers : q # p => pc'[q] = pc[q]
        /\ UNCHANGED <<phase, open, queue, batch, seen, hydrated, lastId, view>>
    BY DEF SyncState, Goto, Basics, TypeOK, InFlight
  <1>2. /\ Only(p) /\ UpTo(p) /\ evt[p].val = nextId - 1 /\ evt[p].key \in Keys
    BY <1>1, Before
  <1>3. UpTo(p)'  BY <1>1, <1>2, AloneNext DEF Only
  <1>4. Latest' = Latest
    <2>1. state \in [Keys -> Nat]  BY DEF Basics, TypeOK
    <2>2. \A k \in Keys : Latest'[k] = state'[k]  BY <1>1, <1>3 DEF UpTo
    <2>3. \A k \in Keys : Latest'[k] = Latest[k]  BY <1>1, <1>2, <2>1, <2>2 DEF UpTo
    <2> QED  BY <2>3, Ranges, RangesNext DEF HubRanges
  <1>5. Top' = Top  BY <1>1, <1>2, <1>3 DEF UpTo
  <1>6. \A c \in Clients : c \in Owed /\ c \in Owed'  BY <1>1, <1>2, <1>3 DEF UpTo
  <1>7. /\ \A q \in Publishers : pc'[q] # "idle" => pc[q] # "idle"
        /\ \A q \in Publishers : pc'[q] \in {"sync", "snapshot", "send"} => pc[q] \in {"sync", "snapshot", "send"}
    BY <1>1
  <1> QED  BY <1>1, <1>4, <1>5, <1>6, <1>7, AllSteady

\* What Latest and Top are when they are not concerned.
LEMMA SameLatest ==
    ASSUME nextId' = nextId, state' = state, evt' = evt,
           \A q \in Publishers : pc'[q] = "add" <=> pc[q] = "add",
           \A q \in Publishers : pc'[q] = "sync" <=> pc[q] = "sync"
    PROVE  Top' = Top /\ Latest' = Latest
  <1>1. Adding' <=> Adding  BY DEF Adding
  <1>2. \A k \in Keys : Syncing(k)' <=> Syncing(k)  BY DEF Syncing
  <1>3. Top' = Top  BY <1>1 DEF Top
  <1>4. Latest' = Latest  BY <1>2 DEF Latest
  <1> QED  BY <1>3, <1>4

\* The subscribers are copied: who is open is sent to.
LEMMA CopySubscribersSerial ==
    ASSUME Basics, Basics', Serial, NEW p \in Publishers, CopySubscribers(p)
    PROVE  Serial'
  <1>1. /\ pc[p] = "snapshot" /\ InFlight(p) /\ nextId' = nextId /\ ring' = ring /\ evt' = evt
        /\ pc'[p] = "send" /\ targets'[p] = {c \in Clients : open[c]}
        /\ \A q \in Publishers : q # p => pc'[q] = pc[q]
        /\ state' = state /\ UNCHANGED <<phase, open, queue, batch, seen, hydrated, lastId, view>>
    BY DEF CopySubscribers, Goto, Basics, TypeOK, InFlight
  <1>2. Only(p) /\ UpTo(p)  BY <1>1, Before
  <1>3. UpTo(p)'  BY <1>1, <1>2, AloneNext DEF Only
  <1>4. Top' = Top /\ Latest' = Latest
    <2>1. \A q \in Publishers : /\ pc'[q] = "add" <=> pc[q] = "add"
                                /\ pc'[q] = "sync" <=> pc[q] = "sync"
      BY <1>1
    <2> QED  BY <1>1, <2>1, SameLatest
  <1>5. \A c \in Clients : c \in Owed /\ (open[c] => c \in Owed')  BY <1>1, <1>2, <1>3 DEF UpTo
  <1>6. /\ \A q \in Publishers : pc'[q] # "idle" => pc[q] # "idle"
        /\ \A q \in Publishers : pc'[q] \in {"sync", "snapshot", "send"} => pc[q] \in {"sync", "snapshot", "send"}
    BY <1>1
  <1> QED  BY <1>1, <1>4, <1>5, <1>6, AllSteady

\* Who is evicted is not open any more.
LEMMA EvictSerial ==
    ASSUME Basics, Basics', Serial, NEW p \in Publishers, Evict(p)
    PROVE  Serial'
  <1>1. /\ pc[p] = "send" /\ InFlight(p) /\ nextId' = nextId /\ ring' = ring /\ evt' = evt /\ pc' = pc
        /\ targets'[p] = targets[p] \ full[p] /\ full'[p] = {}
        /\ \A c \in Clients : open'[c] <=> open[c] /\ c \notin full[p]
        /\ state' = state /\ UNCHANGED <<phase, queue, batch, seen, hydrated, lastId, view>>
    BY DEF Evict, Unsubscribe, Basics, TypeOK, InFlight
  <1>2. Only(p) /\ UpTo(p)  BY <1>1, Before
  <1>3. UpTo(p)'  BY <1>1, <1>2, AloneNext DEF Only
  <1>4. Top' = Top /\ Latest' = Latest  BY <1>1, SameLatest
  <1>5. \A c \in Clients : /\ c \in Owed' => c \in Owed
                           /\ open'[c] /\ c \in Owed => c \in Owed'
    BY <1>1, <1>2, <1>3 DEF UpTo
  <1> QED  BY <1>1, <1>4, <1>5, AllSteady

\* The publisher had nobody left to send to.
LEMMA PublishedSerial ==
    ASSUME Basics, Basics', Serial, NEW p \in Publishers, Published(p)
    PROVE  Serial'
  <1>1. /\ pc[p] = "send" /\ InFlight(p) /\ nextId' = nextId /\ ring' = ring /\ evt' = evt
        /\ pc'[p] = "idle" /\ targets[p] = {} /\ full[p] = {}
        /\ \A q \in Publishers : q # p => pc'[q] = pc[q]
        /\ state' = state /\ UNCHANGED <<phase, open, queue, batch, seen, hydrated, lastId, view>>
    BY DEF Published, Goto, Basics, TypeOK, InFlight
  <1>2. Only(p) /\ UpTo(p)  BY <1>1, Before
  <1>3. UpTo(p)'  BY <1>1, <1>2, AloneNext DEF Only
  <1>4. Top' = Top /\ Latest' = Latest
    <2>1. \A q \in Publishers : /\ pc'[q] = "add" <=> pc[q] = "add"
                                /\ pc'[q] = "sync" <=> pc[q] = "sync"
      BY <1>1
    <2> QED  BY <1>1, <2>1, SameLatest
  <1>5. \A c \in Clients : c \notin Owed /\ c \notin Owed'  BY <1>1, <1>2, <1>3 DEF UpTo
  <1>6. /\ \A q \in Publishers : pc'[q] # "idle" => pc[q] # "idle"
        /\ \A q \in Publishers : pc'[q] \in {"sync", "snapshot", "send"} => pc[q] \in {"sync", "snapshot", "send"}
    BY <1>1
  <1> QED  BY <1>1, <1>4, <1>5, <1>6, AllSteady

\* That entries expire changes nothing of it.
LEMMA ExpireSerial ==
    ASSUME Basics, Basics', Serial, Expire
    PROVE  Serial'
  <1>1. /\ UNCHANGED <<nextId, ring, evt, pc, state, targets, full>>
        /\ UNCHANGED <<phase, open, queue, batch, seen, hydrated, lastId, view>>
    BY DEF Expire
  <1>2. Top' = Top /\ Latest' = Latest  BY <1>1, SameLatest
  <1>3. Owed' = Owed  BY <1>1 DEF Owed
  <1> QED  BY <1>1, <1>2, <1>3, AllSteady

\* Nobody is open once the hub is closed.
LEMMA CloseSerial ==
    ASSUME Basics, Basics', Serial, Close
    PROVE  Serial'
  <1>1. /\ UNCHANGED <<nextId, ring, evt, pc, state, full>>
        /\ UNCHANGED <<phase, queue, batch, seen, hydrated, lastId, view>>
        /\ \A c \in Clients : ~open'[c]
        /\ \A q \in Publishers : targets'[q] \subseteq targets[q]
    BY DEF Close, Unsubscribe
  <1>2. Top' = Top /\ Latest' = Latest  BY <1>1, SameLatest
  <1>3. \A c \in Clients : c \in Owed' => c \in Owed  BY <1>1 DEF Owed
  <1> QED  BY <1>1, <1>2, <1>3, AllSteady

\* What a client has when the latest event is appended to its channel.
LEMMA SentClient ==
    ASSUME Basics, Basics', NEW c \in Clients, ClientInv(c), NEW e \in Event, Real(Latest, e),
           e.id = nextId - 1, Top = nextId - 1, c \in Owed, c \notin Owed', open[c],
           nextId' = nextId, ring' = ring, Top' = Top, Latest' = Latest,
           queue'[c] = Append(queue[c], e),
           phase'[c] = phase[c], batch'[c] = batch[c], seen'[c] = seen[c], open'[c] = open[c],
           hydrated'[c] = hydrated[c], lastId'[c] = lastId[c], view'[c] = view[c]
    PROVE  ClientInv(c)'
  <1>1. nextId \in Nat /\ e.id \in Nat /\ Sent[c] = nextId - 2 /\ Sent'[c] = nextId - 1
    BY Ranges DEF HubRanges, Event, Sent
  <1> DEFINE q == queue[c]  n == Len(queue[c])
  <1>2. /\ q \in Seq(Event) /\ n \in Nat /\ (q = <<>> <=> n = 0) /\ lastId[c] \in Nat /\ Len(batch[c]) \in Nat
        /\ \A i \in 1..n : q[i].id \in Nat
    BY Ranges DEF ClientRanges
  <1>3. /\ Len(queue'[c]) = n + 1 /\ queue'[c][n + 1] = e /\ queue'[c] # <<>>
        /\ \A i \in 1..n : queue'[c][i] = q[i]
    <2>1. /\ Len(Append(q, e)) = n + 1 /\ Append(q, e)[n + 1] = e /\ Append(q, e) \in Seq(Event)
          /\ \A i \in 1..n : Append(q, e)[i] = q[i]
      BY <1>2, Appended
    <2>2. Append(q, e) # <<>>  BY <1>2, <2>1, Empty
    <2> QED  BY <2>1, <2>2
  <1>4. /\ lastId[c] <= Top
        /\ \A i \in 1..n : Real(Latest, q[i]) /\ q[i].id <= nextId - 2 /\ q[i].id = (q[1].id - 1) + i
        /\ q # <<>> => q[n].id = nextId - 2
        /\ phase[c] = "subscribed" => \A i \in 1..n : q[i].id >= lastId[c]
    BY <1>1 DEF ClientInv, QueueInv
  <1> HIDE DEF q, n
  <1>5. queue'[c][1].id = IF n = 0 THEN nextId - 1 ELSE q[1].id  BY <1>2, <1>3
  <1>6. e.id = (queue'[c][1].id - 1) + (n + 1)
    <2>1. CASE n = 0  BY <1>1, <1>5, <2>1
    <2>2. CASE n # 0
      <3>1. n \in 1..n /\ 1 \in 1..n /\ q # <<>>  BY <1>2, <2>2
      <3>2. q[n].id = nextId - 2 /\ q[n].id = (q[1].id - 1) + n /\ q[1].id \in Nat  BY <1>2, <1>4, <3>1
      <3>3. queue'[c][1].id = q[1].id  BY <1>5, <2>2
      <3>4. \A x \in Nat : (x - 1) + (n + 1) = ((x - 1) + n) + 1  BY <1>2
      <3>5. (q[1].id - 1) + (n + 1) = q[n].id + 1  BY <3>2, <3>4
      <3>6. e.id = q[n].id + 1  BY <1>1, <3>2
      <3> QED  BY <3>3, <3>5, <3>6
    <2> QED  BY <2>1, <2>2
  <1>7. ASSUME NEW i \in 1..(n + 1)
        PROVE  /\ Real(Latest, queue'[c][i]) /\ queue'[c][i].id <= nextId - 1
               /\ queue'[c][i].id = (queue'[c][1].id - 1) + i
               /\ phase[c] = "subscribed" => queue'[c][i].id >= lastId[c]
    <2>1. CASE i = n + 1  BY <1>1, <1>2, <1>3, <1>4, <1>6, <2>1
    <2>2. CASE i # n + 1
      <3>1. i \in 1..n /\ queue'[c][i] = q[i] /\ n # 0  BY <1>2, <1>3, <2>2
      <3>2. queue'[c][1].id = q[1].id  BY <1>5, <3>1
      <3>3. /\ Real(Latest, q[i]) /\ q[i].id <= nextId - 2 /\ q[i].id = (q[1].id - 1) + i /\ q[i].id \in Nat
            /\ phase[c] = "subscribed" => q[i].id >= lastId[c]
        BY <1>2, <1>4, <3>1
      <3> QED  BY <1>1, <3>1, <3>2, <3>3
    <2> QED  BY <2>1, <2>2
  <1>8. QueueInv(c)'
    <2>1. lastId'[c] <= Top'  BY <1>4
    <2>2. \A i \in 1..Len(queue'[c]) :
            /\ Real(Latest', queue'[c][i]) /\ queue'[c][i].id <= Sent'[c]
            /\ queue'[c][i].id = (queue'[c][1].id - 1) + i
      BY <1>1, <1>3, <1>7
    <2>3. queue'[c][Len(queue'[c])].id = Sent'[c]  BY <1>1, <1>3
    <2>4. phase'[c] = "subscribed" => \A i \in 1..Len(queue'[c]) : queue'[c][i].id >= lastId'[c]
      BY <1>3, <1>7
    <2> QED  BY <2>1, <2>2, <2>3, <2>4 DEF QueueInv
  <1>9. FollowInv(c)'
    <2> SUFFICES ASSUME Following(c)  PROVE FollowInv(c)'
      BY DEF FollowInv, Following
    <2>1. /\ lastId[c] # 0 /\ End(c) <= Top
          /\ \A i \in 1..Len(batch[c]) : Real(Latest, batch[c][i]) /\ batch[c][i].id = lastId[c] + i
          /\ \A m \in seen[c] : m <= End(c)
          /\ \A i \in 1..n : q[i].id <= End(c) => q[i].id \in seen[c]
          /\ End(c) = nextId - 1 => nextId - 1 \in seen[c]
          /\ q # <<>> => q[1].id <= End(c) + 1
          /\ q = <<>> => End(c) >= nextId - 2
      BY <1>1 DEF ClientInv, FollowInv, q, n
    <2>2. End(c) \in Nat /\ End(c)' = End(c)  BY <1>2 DEF End
    <2>3. \A i \in 1..(n + 1) : queue'[c][i].id <= End(c) => queue'[c][i].id \in seen[c]
      <3> SUFFICES ASSUME NEW i \in 1..(n + 1), queue'[c][i].id <= End(c)
                   PROVE  queue'[c][i].id \in seen[c]
        OBVIOUS
      <3>1. CASE i = n + 1
        <4>1. queue'[c][i] = e  BY <1>3, <3>1
        <4>2. queue'[c][i].id = nextId - 1  BY <4>1
        <4>3. nextId - 1 <= End(c)  BY <4>2
        <4>4. End(c) <= nextId - 1  BY <2>1
        <4>5. End(c) = nextId - 1
          <5> HIDE DEF End
          <5> QED  BY <1>1, <2>2, <4>3, <4>4
        <4> QED  BY <2>1, <4>2, <4>5
      <3>2. CASE i # n + 1
        <4>1. i \in 1..n /\ queue'[c][i] = q[i]  BY <1>2, <1>3, <3>2
        <4> QED  BY <2>1, <4>1
      <3> QED  BY <3>1, <3>2
    <2>4. queue'[c][1].id <= End(c) + 1  BY <1>1, <1>2, <1>5, <2>1, <2>2
    <2> QED  BY <1>3, <2>1, <2>2, <2>3, <2>4 DEF FollowInv
  <1>10. ViewInv(c)'
    <2>1. c \in Known' <=> c \in Known  BY DEF Known
    <2> QED  BY <2>1 DEF ClientInv, ViewInv, Following
  <1>11. FreshInv(c)'
    <2> SUFFICES ASSUME Fresh(c)  PROVE FreshInv(c)'
      BY DEF FreshInv, Fresh, Following
    <2>1. ASSUME NEW k \in Keys, Latest[k] < queue'[c][1].id  PROVE Read(c, k, Latest[k])
      <3>1. Latest[k] \in Nat  BY Ranges DEF HubRanges
      <3>2. CASE n = 0
        <4>1. Latest[k] <= Sent[c] /\ queue[c] = <<>>  BY <1>1, <1>2, <1>5, <2>1, <3>1, <3>2 DEF q
        <4> QED  BY <4>1 DEF ClientInv, FreshInv
      <3>3. CASE n # 0
        <4>1. Latest[k] < queue[c][1].id /\ queue[c] # <<>>  BY <1>2, <1>5, <2>1, <3>3 DEF q
        <4> QED  BY <4>1 DEF ClientInv, FreshInv
      <3> QED  BY <3>2, <3>3
    <2>2. ASSUME NEW k \in Keys, Latest'[k] < queue'[c][1].id  PROVE Read(c, k, Latest[k])'
      BY <2>1, <2>2 DEF Read
    <2> QED  BY <1>3, <2>2 DEF ClientInv, FreshInv
  <1> QED  BY <1>8, <1>9, <1>10, <1>11 DEF ClientInv

\* An event follows the last one in the channel of a client, or finds it full.
LEMMA TrySendSerial ==
    ASSUME Basics, Basics', Serial, NEW p \in Publishers, NEW c \in Clients, TrySend(p, c)
    PROVE  Serial'
  <1>1. /\ pc[p] = "send" /\ InFlight(p) /\ full[p] = {} /\ c \in targets[p] /\ open[c]
        /\ UNCHANGED <<nextId, ring, evt, pc, state, phase, open, batch, seen, hydrated, lastId, view>>
        /\ targets'[p] = targets[p] \ {c}
    BY DEF TrySend, Basics, TypeOK, InFlight, SendInv
  <1>2. /\ Only(p) /\ UpTo(p) /\ evt[p] \in Event /\ evt[p].id = nextId - 1 /\ evt[p].key \in Keys
        /\ evt[p].id \in Nat
    BY <1>1, Before
  <1>3. UpTo(p)'  BY <1>1, <1>2, AloneNext DEF Only
  <1>4. Top' = Top /\ Latest' = Latest  BY <1>1, SameLatest
  <1>5. CASE Len(queue[c]) >= Buffer
    <2>1. queue' = queue /\ full'[p] = {c}
      BY <1>1, <1>5, Ranges DEF TrySend, ClientRanges, Basics, TypeOK
    <2>2. \A d \in Clients : d \in Owed' <=> d \in Owed  BY <1>1, <1>2, <1>3, <2>1 DEF UpTo
    <2> QED  BY <1>1, <1>4, <2>1, <2>2, AllSteady
  <1>6. CASE Len(queue[c]) < Buffer
    <2>1. /\ queue'[c] = Append(queue[c], evt[p]) /\ full' = full
          /\ \A d \in Clients : d # c => queue'[d] = queue[d]
      BY <1>6 DEF TrySend, Basics, TypeOK
    <2>2. /\ c \in Owed /\ c \notin Owed'
          /\ \A d \in Clients : d # c => (d \in Owed' <=> d \in Owed)
      BY <1>1, <1>2, <1>3, <2>1 DEF UpTo
    <2>3. HubInv'  BY <1>1, <1>4, HubSteady DEF Serial
    <2>4. ASSUME NEW d \in Clients, d # c  PROVE ClientInv(d)'
      <3>1. ClientInv(d) /\ queue'[d] = queue[d] /\ (d \in Owed' <=> d \in Owed)
        BY <2>1, <2>2, <2>4 DEF Serial
      <3> QED  BY <1>1, <1>4, <3>1, ClientSteady
    <2>5. ClientInv(c)'
      <3>1. ClientInv(c) /\ Real(Latest, evt[p])  BY <1>1 DEF Serial, HubInv
      <3>2. Top = nextId - 1  BY <1>1, <1>2 DEF UpTo
      <3>3. /\ phase'[c] = phase[c] /\ batch'[c] = batch[c] /\ seen'[c] = seen[c] /\ open'[c] = open[c]
            /\ hydrated'[c] = hydrated[c] /\ lastId'[c] = lastId[c] /\ view'[c] = view[c]
        BY <1>1
      <3> QED  BY <1>1, <1>2, <1>4, <2>1, <2>2, <3>1, <3>2, <3>3, SentClient
    <2> QED  BY <2>3, <2>4, <2>5 DEF Serial
  <1>7. Len(queue[c]) \in Nat  BY Ranges DEF ClientRanges
  <1> QED  BY <1>5, <1>6, <1>7

-----------------------------------------------------------------------------
(* The steps of a connection keep it.                                      *)

\* A step of c's connection leaves the hub and the other connections alone.
LEMMA OwnStep ==
    ASSUME Basics, Basics', Serial, NEW c \in Clients,
           UNCHANGED <<nextId, state, ring, pc, evt>>,
           \A p \in Publishers : targets'[p] \ {c} = targets[p] \ {c} /\ full'[p] \ {c} = full[p] \ {c},
           \A d \in Clients : d # c =>
              /\ phase'[d] = phase[d] /\ queue'[d] = queue[d] /\ batch'[d] = batch[d] /\ seen'[d] = seen[d]
              /\ hydrated'[d] = hydrated[d] /\ lastId'[d] = lastId[d] /\ view'[d] = view[d]
              /\ open'[d] = open[d],
           Top' = Top /\ Latest' = Latest => ClientInv(c)'
    PROVE  Serial'
  <1>1. Top' = Top /\ Latest' = Latest  BY SameLatest
  <1>2. HubInv'  BY <1>1, HubSteady DEF Serial
  <1>3. ASSUME NEW d \in Clients, d # c  PROVE ClientInv(d)'
    <2>1. \A p \in Publishers : d \in targets'[p] \cup full'[p] <=> d \in targets[p] \cup full[p]
      BY <1>3
    <2>2. d \in Owed' <=> d \in Owed  BY <2>1 DEF Owed
    <2>3. ClientInv(d)  BY DEF Serial
    <2>4. /\ phase'[d] = phase[d] /\ queue'[d] = queue[d] /\ batch'[d] = batch[d] /\ seen'[d] = seen[d]
          /\ hydrated'[d] = hydrated[d] /\ lastId'[d] = lastId[d] /\ view'[d] = view[d]
          /\ open'[d] = open[d]
      BY <1>3
    <2> QED  BY <1>1, <2>2, <2>3, <2>4, ClientSteady
  <1> QED  BY <1>1, <1>2, <1>3 DEF Serial

\* Whom c's step leaves what is sent to.
LEMMA SameSent ==
    ASSUME UNCHANGED <<nextId, pc, targets, full>>
    PROVE  Owed' = Owed /\ Sent' = Sent
  <1>1. Owed' = Owed  BY DEF Owed
  <1> QED  BY <1>1 DEF Sent

\* A connection that is gone: what it showed is as the last event says.
LEMMA Gone ==
    ASSUME Basics, NEW c \in Clients, ClientInv(c), Top' = Top, Latest' = Latest, ring' = ring,
           phase'[c] = "offline" \/ phase'[c] = "subscribed", queue'[c] = <<>>,
           lastId' = lastId, view' = view
    PROVE  ClientInv(c)'
  <1>1. ~Following(c)' /\ ~Fresh(c)'  BY DEF Following, Fresh
  <1>2. c \in Known' <=> c \in Known  BY DEF Known
  <1>3. \A i \in 1..Len(queue'[c]) : FALSE  BY Empty
  <1>4. QueueInv(c)'  BY <1>3 DEF ClientInv, QueueInv
  <1>5. ViewInv(c)'  BY <1>1, <1>2 DEF ClientInv, ViewInv
  <1> QED  BY <1>1, <1>4, <1>5 DEF ClientInv, FollowInv, FreshInv

\* A subscriber that has just been registered has nothing yet.
LEMMA ConnectSerial ==
    ASSUME Basics, Basics', Serial, NEW c \in Clients, Connect(c)
    PROVE  Serial'
  <1>1. /\ UNCHANGED <<nextId, state, ring, pc, evt, targets, full, batch, seen, hydrated, lastId, view>>
        /\ phase'[c] = "subscribed" /\ queue'[c] = <<>>
        /\ \A d \in Clients : d # c => phase'[d] = phase[d] /\ queue'[d] = queue[d] /\ open'[d] = open[d]
    BY DEF Connect, Basics, TypeOK
  <1>2. Top' = Top /\ Latest' = Latest => ClientInv(c)'
    BY <1>1, Gone DEF Serial
  <1> QED  BY <1>1, <1>2, OwnStep

\* A stream that has ended leaves the last id and the view.
LEMMA EndOfStreamSerial ==
    ASSUME Basics, Basics', Serial, NEW c \in Clients, EndOfStream(c)
    PROVE  Serial'
  <1>1. /\ UNCHANGED <<nextId, state, ring, pc, evt, targets, open, hydrated, lastId, view>>
        /\ phase'[c] = "offline" /\ queue'[c] = <<>>
        /\ \A p \in Publishers : full'[p] = full[p] \ {c}
        /\ \A d \in Clients : d # c => /\ phase'[d] = phase[d] /\ queue'[d] = queue[d]
                                       /\ batch'[d] = batch[d] /\ seen'[d] = seen[d]
    BY DEF EndOfStream, Drop, Forget
  <1>2. Top' = Top /\ Latest' = Latest => ClientInv(c)'
    BY <1>1, Gone DEF Serial
  <1> QED  BY <1>1, <1>2, OwnStep

\* So does one that was cut off.
LEMMA DisconnectSerial ==
    ASSUME Basics, Basics', Serial, NEW c \in Clients, Disconnect(c)
    PROVE  Serial'
  <1>1. /\ UNCHANGED <<nextId, state, ring, pc, evt, hydrated, lastId, view>>
        /\ phase'[c] = "offline" /\ queue'[c] = <<>>
        /\ \A p \in Publishers : full'[p] = full[p] \ {c} /\ targets'[p] = targets[p] \ {c}
        /\ \A d \in Clients : d # c => /\ phase'[d] = phase[d] /\ queue'[d] = queue[d]
                                       /\ batch'[d] = batch[d] /\ seen'[d] = seen[d]
    BY DEF Disconnect, Drop, Forget, Unsubscribe
  <1>2. \A d \in Clients : d # c => open'[d] = open[d]
    BY DEF Disconnect, Unsubscribe, Basics, TypeOK
  <1>3. Top' = Top /\ Latest' = Latest => ClientInv(c)'
    BY <1>1, Gone DEF Serial
  <1> QED  BY <1>1, <1>2, <1>3, OwnStep

\* A hydration begins with nothing read.
LEMMA HydrateSerial ==
    ASSUME Basics, Basics', Serial, NEW c \in Clients, Hydrate(c)
    PROVE  Serial'
  <1>1. /\ UNCHANGED <<nextId, state, ring, pc, evt, targets, full, open, queue, lastId, view>>
        /\ phase'[c] = "hydrating" /\ batch'[c] = <<>> /\ hydrated'[c] /\ seen'[c] = {}
        /\ \A d \in Clients : d # c => /\ phase'[d] = phase[d] /\ batch'[d] = batch[d]
                                       /\ seen'[d] = seen[d] /\ hydrated'[d] = hydrated[d]
    BY DEF Hydrate, Basics, TypeOK
  <1>2. ASSUME Top' = Top, Latest' = Latest  PROVE ClientInv(c)'
    <2>1. ClientInv(c) /\ Sent' = Sent  BY <1>1, SameSent DEF Serial
    <2>2. c \in Known' <=> c \in Known  BY <1>1 DEF Known
    <2>3. ~Following(c)'  BY <1>1 DEF Following
    <2>4. \A i \in 1..Len(batch'[c]) : FALSE  BY <1>1, Empty
    <2>5. QueueInv(c)'  BY <1>1, <1>2, <2>1 DEF ClientInv, QueueInv
    <2>6. ViewInv(c)'  BY <1>1, <1>2, <2>1, <2>2, <2>3 DEF ClientInv, ViewInv
    <2>7. \A k \in Keys : Read(c, k, Latest[k])'  BY <1>1, <2>4 DEF Read
    <2> QED  BY <2>3, <2>4, <2>5, <2>6, <2>7 DEF ClientInv, FollowInv, FreshInv
  <1> QED  BY <1>1, <1>2, OwnStep

\* A replay goes on after the last event received.
LEMMA ReplaySerial ==
    ASSUME Basics, Basics', Serial, NEW c \in Clients, Replay(c)
    PROVE  Serial'
  <1>1. /\ UNCHANGED <<nextId, state, ring, pc, evt, targets, full, open, queue, lastId, view>>
        /\ phase[c] = "subscribed" /\ phase'[c] = "streaming" /\ ~hydrated'[c]
        /\ \A d \in Clients : d # c => /\ phase'[d] = phase[d] /\ batch'[d] = batch[d]
                                       /\ seen'[d] = seen[d] /\ hydrated'[d] = hydrated[d]
    BY DEF Replay, Basics, TypeOK
  <1>2. ASSUME Top' = Top, Latest' = Latest  PROVE ClientInv(c)'
    <2>1. PICK i \in Found(lastId[c]) :
            LET replayed == SubSeq(ring, i + 1, Len(ring)) IN
            /\ batch' = [batch EXCEPT ![c] = replayed]
            /\ seen' = [seen EXCEPT ![c] = {lastId[c]} \cup {replayed[j].id : j \in DOMAIN replayed}]
      BY DEF Replay
    <2> DEFINE n == Len(ring)  r == SubSeq(ring, i + 1, n)
    <2>2. ring \in Seq(Event) /\ n \in Nat /\ i \in 1..n /\ ring[i].id = lastId[c]
      BY Empty DEF Basics, TypeOK, Found
    <2>3. r \in Seq(Event) /\ Len(r) = n - i /\ DOMAIN r = 1..(n - i) /\ \A j \in 1..(n - i) : r[j] = ring[i + j]
      <3>1. r \in Seq(Event) /\ Len(r) = n - i /\ \A j \in 1..(n - i) : r[j] = ring[i + j]
        BY <2>2, Rest
      <3> QED  BY <3>1, LenProperties
    <2>4. batch'[c] = r /\ seen'[c] = {lastId[c]} \cup {r[j].id : j \in 1..(n - i)}
      BY <2>1, <2>3 DEF Basics, TypeOK
    <2> HIDE DEF n, r
    <2>5. ClientInv(c) /\ Sent' = Sent /\ Owed' = Owed  BY <1>1, SameSent DEF Serial
    <2>6. /\ nextId \in Nat /\ Top \in Int /\ Top <= nextId - 1 /\ Sent[c] \in Int /\ Sent[c] <= Top
          /\ lastId[c] \in Nat /\ queue[c] \in Seq(Event) /\ Len(queue[c]) \in Nat
          /\ queue[c] = <<>> <=> Len(queue[c]) = 0
          /\ \A j \in 1..Len(queue[c]) : queue[c][j].id \in Nat
      BY Ranges DEF HubRanges, ClientRanges
    <2>7. /\ lastId[c] # 0 /\ lastId[c] = (Top - n) + i
          /\ \A j \in 1..(n - i) : Real(Latest, r[j]) /\ r[j].id = lastId[c] + j
      <3>1. \A j \in 1..n : Real(Latest, ring[j]) /\ ring[j].id = (Top - n) + j
        BY DEF Serial, HubInv, n
      <3>2. ring[i].id \in 1..(nextId - 1)  BY <2>2 DEF Basics, RingIds, n
      <3>3. ASSUME NEW j \in 1..(n - i)  PROVE Real(Latest, r[j]) /\ r[j].id = lastId[c] + j
        <4>1. i + j \in 1..n /\ r[j] = ring[i + j]  BY <2>2, <2>3
        <4>2. Real(Latest, ring[i + j]) /\ ring[i + j].id = (Top - n) + (i + j)  BY <3>1, <4>1
        <4>3. lastId[c] = (Top - n) + i  BY <2>2, <3>1
        <4> QED  BY <2>2, <2>6, <4>1, <4>2, <4>3
      <3> QED  BY <2>2, <2>6, <3>1, <3>2, <3>3
    <2>8. End(c)' = Top
      <3>1. End(c)' = lastId[c] + (n - i)  BY <1>1, <2>3, <2>4 DEF End
      <3> QED  BY <2>2, <2>6, <2>7, <3>1
    <2>9. \A m \in seen'[c] : m <= Top
      <3>1. ASSUME NEW j \in 1..(n - i)  PROVE r[j].id <= Top
        <4>1. r[j].id = lastId[c] + j  BY <2>7
        <4>2. lastId[c] = (Top - n) + i /\ i \in Int /\ n \in Int /\ j \in Int /\ j <= n - i  BY <2>2, <2>7
        <4>3. ((Top - n) + i) + j <= Top  BY <2>6, <4>2
        <4> QED  BY <4>1, <4>2, <4>3
      <3>2. lastId[c] <= Top  BY <2>5 DEF ClientInv, QueueInv
      <3> QED  BY <2>4, <3>1, <3>2
    <2>10. ASSUME NEW m \in Nat, lastId[c] <= m, m <= Top  PROVE m \in seen'[c]
      <3>1. CASE m = lastId[c]  BY <2>4, <3>1
      <3>2. CASE m # lastId[c]
        <4>1. m - lastId[c] \in 1..(n - i)
          <5>1. lastId[c] = (Top - n) + i /\ i \in Int /\ n \in Int  BY <2>2, <2>7
          <5>2. Top - lastId[c] = n - i  BY <2>6, <5>1
          <5> QED  BY <2>6, <2>10, <3>2, <5>1, <5>2
        <4>2. r[m - lastId[c]].id = m  BY <2>6, <2>7, <4>1
        <4> QED  BY <2>4, <4>1, <4>2
      <3> QED  BY <3>1, <3>2
    <2>11. QueueInv(c)'  BY <1>1, <1>2, <2>5 DEF ClientInv, QueueInv
    <2>12. FollowInv(c)'
      <3>1. \A j \in 1..Len(queue[c]) : queue[c][j].id \in seen'[c]
        <4> SUFFICES ASSUME NEW j \in 1..Len(queue[c])  PROVE queue[c][j].id \in seen'[c]
          OBVIOUS
        <4>1. queue[c][j].id >= lastId[c] /\ queue[c][j].id <= Sent[c] /\ queue[c][j].id \in Nat
          BY <1>1, <2>5, <2>6 DEF ClientInv, QueueInv
        <4> QED  BY <2>6, <2>10, <4>1
      <3>2. Top \in seen'[c]
        <4>1. lastId[c] <= Top  BY <2>5 DEF ClientInv, QueueInv
        <4> QED  BY <2>6, <2>10, <4>1
      <3>3. queue[c] # <<>> => queue[c][1].id <= Top + 1
        <4> SUFFICES ASSUME queue[c] # <<>>  PROVE queue[c][1].id <= Top + 1
          OBVIOUS
        <4>1. 1 \in 1..Len(queue[c])  BY <2>6
        <4>2. queue[c][1].id <= Sent[c] /\ queue[c][1].id \in Nat  BY <2>5, <2>6, <4>1 DEF ClientInv, QueueInv
        <4> QED  BY <2>6, <4>2
      <3>4. \A j \in 1..Len(batch'[c]) : Real(Latest', batch'[c][j]) /\ batch'[c][j].id = lastId'[c] + j
        BY <1>1, <1>2, <2>3, <2>4, <2>7
      <3> QED  BY <1>1, <1>2, <2>5, <2>6, <2>7, <2>8, <2>9, <3>1, <3>2, <3>3, <3>4 DEF FollowInv
    <2>13. ViewInv(c)'
      <3>1. c \in Known  BY <2>2 DEF Known, n
      <3> QED  BY <1>1, <1>2, <2>5, <3>1 DEF ClientInv, ViewInv
    <2>14. FreshInv(c)'  BY <1>1 DEF FreshInv, Fresh
    <2> QED  BY <2>11, <2>12, <2>13, <2>14 DEF ClientInv
  <1> QED  BY <1>1, <1>2, OwnStep

\* Once as many different keys have been read as there are, every key has been.
LEMMA AllRead ==
    ASSUME NEW s \in Seq(Event), Len(s) = Cardinality(Keys),
           \A i, j \in 1..Len(s) : s[i].key = s[j].key => i = j,
           NEW k \in Keys
    PROVE  ~Absent(s, k)
  <1> DEFINE f == [i \in 1..Len(s) |-> s[i].key]
  <1>1. Len(s) \in Nat /\ \A i \in 1..Len(s) : s[i].key \in Keys
    <2>1. Len(s) \in Nat /\ \A i \in 1..Len(s) : s[i] \in Event  BY Empty
    <2> QED  BY <2>1 DEF Event
  <1>2. f \in Injection(1..Len(s), Keys)
    <2>1. f \in [1..Len(s) -> Keys]  BY <1>1
    <2>2. \A i, j \in 1..Len(s) : f[i] = f[j] => i = j  OBVIOUS
    <2> QED  BY <2>1, <2>2 DEF Injection, IsInjective
  <1>3. Cardinality(1..Len(s)) = Len(s)  BY <1>1, FS_Interval
  <1>4. f \in Surjection(1..Len(s), Keys)
    <2> HIDE DEF f
    <2> QED  BY <1>2, <1>3, FS_Injection
  <1>5. \E i \in 1..Len(s) : f[i] = k  BY <1>4 DEF Surjection
  <1> QED  BY <1>5 DEF Absent

\* A connection begins to stream with every key read.
LEMMA HydratedAll ==
    ASSUME Basics, NEW c \in Clients, NEW k \in Keys, HydrateKey(c, k), NEW l \in Keys,
           phase'[c] = "streaming"
    PROVE  ~Absent(batch'[c], l)
  <1> DEFINE b == batch[c]  e == [id |-> 0, key |-> k, val |-> state[k]]
  <1>1. /\ phase[c] = "hydrating" /\ Len(b) + 1 = Cardinality(Keys) /\ batch'[c] = Append(b, e)
        /\ b \in Seq(Event) /\ Len(b) \in Nat
    BY Ranges DEF HydrateKey, Basics, TypeOK, ClientRanges
  <1>2. e \in Event /\ e.key = k  BY DEF Basics, TypeOK, Event
  <1> HIDE DEF e
  <1>3. /\ batch'[c] \in Seq(Event) /\ Len(batch'[c]) = Len(b) + 1 /\ batch'[c][Len(b) + 1] = e
        /\ \A i \in 1..Len(b) : batch'[c][i] = b[i]
    BY <1>1, <1>2, Appended
  <1>4. \A i \in 1..Len(b) : b[i].key # k
    <2>1. DOMAIN b = 1..Len(b)  BY <1>1, LenProperties
    <2> QED  BY <2>1 DEF HydrateKey
  <1>5. \A i, j \in 1..Len(b) : b[i].key = b[j].key => i = j
    BY <1>1 DEF Basics, HydrationInv
  <1>6. ASSUME NEW i \in 1..Len(batch'[c])
        PROVE  \/ i \in 1..Len(b) /\ batch'[c][i] = b[i] /\ b[i].key # k
               \/ i = Len(b) + 1 /\ batch'[c][i].key = k
    BY <1>1, <1>2, <1>3, <1>4
  <1>7. \A i, j \in 1..Len(batch'[c]) : batch'[c][i].key = batch'[c][j].key => i = j
    BY <1>5, <1>6
  <1> QED  BY <1>1, <1>3, <1>7, AllRead

\* What a client has read of the keys stays so when it reads another one.
LEMMA ReadMore ==
    ASSUME Basics, NEW c \in Clients, NEW k \in Keys, HydrateKey(c, k), NEW l \in Keys, NEW v,
           Read(c, l, v), l = k => v = state[k]
    PROVE  /\ \A i \in 1..Len(batch'[c]) : batch'[c][i].key = l => batch'[c][i].val = v
           /\ phase'[c] = "streaming" => ~Absent(batch'[c], l)
  <1> DEFINE b == batch[c]  e == [id |-> 0, key |-> k, val |-> state[k]]
  <1>1. batch'[c] = Append(b, e) /\ b \in Seq(Event) /\ Len(b) \in Nat
    BY Ranges DEF HydrateKey, Basics, TypeOK, ClientRanges
  <1>2. e \in Event /\ e.key = k /\ e.val = state[k]  BY DEF Basics, TypeOK, Event
  <1> HIDE DEF e
  <1>3. /\ Len(batch'[c]) = Len(b) + 1 /\ batch'[c][Len(b) + 1] = e
        /\ \A i \in 1..Len(b) : batch'[c][i] = b[i]
    BY <1>1, <1>2, Appended
  <1>4. ASSUME NEW i \in 1..Len(batch'[c]), batch'[c][i].key = l  PROVE batch'[c][i].val = v
    <2>1. CASE i = Len(b) + 1  BY <1>2, <1>3, <1>4, <2>1
    <2>2. CASE i # Len(b) + 1
      <3>1. i \in 1..Len(b) /\ batch'[c][i] = b[i]  BY <1>1, <1>3, <2>2
      <3> QED  BY <1>4, <3>1 DEF Read
    <2> QED  BY <2>1, <2>2
  <1> QED  BY <1>4, HydratedAll

\* A key that is read has the value of its last event, as far as the channel and
\* what has been sent go.
LEMMA HydrateKeySerial ==
    ASSUME Basics, Basics', Serial, NEW c \in Clients, NEW k \in Keys, HydrateKey(c, k)
    PROVE  Serial'
  <1> DEFINE e == [id |-> 0, key |-> k, val |-> state[k]]
  <1>1. /\ UNCHANGED <<nextId, state, ring, pc, evt, targets, full, open, queue, seen, hydrated, lastId, view>>
        /\ phase[c] = "hydrating" /\ phase'[c] \in {"hydrating", "streaming"}
        /\ phase'[c] = "streaming" => Len(batch[c]) + 1 = Cardinality(Keys)
        /\ batch'[c] = Append(batch[c], e)
        /\ \A d \in Clients : d # c => phase'[d] = phase[d] /\ batch'[d] = batch[d]
    BY DEF HydrateKey, Basics, TypeOK
  <1>2. e \in Event /\ e.id = 0 /\ e.key = k /\ e.val = state[k]
    BY DEF Basics, TypeOK, Event
  <1> HIDE DEF e
  <1>3. ASSUME Top' = Top, Latest' = Latest  PROVE ClientInv(c)'
    <2>1. ClientInv(c) /\ Sent' = Sent /\ Owed' = Owed  BY <1>1, SameSent DEF Serial
    <2>2. /\ nextId \in Nat /\ Sent[c] \in Int /\ Latest \in [Keys -> Nat] /\ Len(queue[c]) \in Nat
          /\ queue[c] = <<>> <=> Len(queue[c]) = 0
          /\ batch[c] \in Seq(Event) /\ Len(batch[c]) \in Nat
      BY Ranges DEF HubRanges, ClientRanges
    <2>3. /\ batch'[c] \in Seq(Event) /\ Len(batch'[c]) = Len(batch[c]) + 1 /\ batch'[c][Len(batch[c]) + 1] = e
          /\ \A i \in 1..Len(batch[c]) : batch'[c][i] = batch[c][i]
      BY <1>1, <1>2, <2>2, Appended
    <2>4. batch'[c] # <<>>  BY <2>2, <2>3, Empty
    <2>5. hydrated[c] /\ Fresh(c)  BY <1>1 DEF Basics, HydrationInv, Fresh, Following
    <2>6. ~Following(c)'  BY <1>1, <2>4, <2>5 DEF Following
    <2>7. QueueInv(c)'  BY <1>1, <1>3, <2>1 DEF ClientInv, QueueInv
    <2>8. ViewInv(c)'
      <3>1. c \in Known' <=> c \in Known  BY <1>1 DEF Known
      <3> QED  BY <1>1, <1>3, <2>1, <2>6, <3>1 DEF ClientInv, ViewInv
    <2>10. ASSUME NEW l \in Keys, Read(c, l, Latest[l]), l = k => Latest[k] = state[k]
           PROVE  Read(c, l, Latest[l])'
      <3>1. /\ \A i \in 1..Len(batch'[c]) : batch'[c][i].key = l => batch'[c][i].val = Latest[l]
            /\ phase'[c] = "streaming" => ~Absent(batch'[c], l)
        BY <2>10, ReadMore
      <3> QED  BY <1>3, <3>1 DEF Read
    <2>11. Latest[k] # state[k] => Latest[k] = nextId - 1 /\ c \in Owed
      BY DEF Latest, Syncing, Owed
    <2>12. FreshInv(c)'
      <3>1. \A i \in 1..Len(batch'[c]) : batch'[c][i].id = 0
        <4>1. \A i \in 1..Len(batch[c]) : batch[c][i].id = 0  BY <2>1, <2>5 DEF ClientInv, FreshInv
        <4>2. \A i \in 1..Len(batch'[c]) : i \in 1..Len(batch[c]) \/ i = Len(batch[c]) + 1  BY <2>2, <2>3
        <4> QED  BY <1>2, <2>3, <4>1, <4>2
      <3>2. ASSUME queue[c] # <<>>, NEW l \in Keys, Latest[l] < queue[c][1].id  PROVE Read(c, l, Latest[l])'
        <4>1. Read(c, l, Latest[l])  BY <2>1, <2>5, <3>2 DEF ClientInv, FreshInv
        <4>2. queue[c][1].id \in 1..(nextId - 1)
          <5>1. 1 \in 1..Len(queue[c])  BY <2>2, <3>2
          <5> QED  BY <5>1 DEF Basics, ClientIds
        <4>3. l = k => Latest[k] = state[k]  BY <2>2, <2>11, <3>2, <4>2
        <4> QED  BY <2>10, <4>1, <4>3
      <3>3. ASSUME open[c], queue[c] = <<>>, NEW l \in Keys, Latest[l] <= Sent[c]
            PROVE  Read(c, l, Latest[l])'
        <4>1. Read(c, l, Latest[l])  BY <2>1, <2>5, <3>3 DEF ClientInv, FreshInv
        <4>2. c \in Owed => Sent[c] = nextId - 2  BY DEF Sent
        <4>3. l = k => Latest[k] = state[k]  BY <2>2, <2>11, <3>3, <4>2
        <4> QED  BY <2>10, <4>1, <4>3
      <3> QED  BY <1>1, <1>3, <2>1, <3>1, <3>2, <3>3 DEF FreshInv
    <2> QED  BY <2>6, <2>7, <2>8, <2>12 DEF ClientInv, FollowInv
  <1> QED  BY <1>1, <1>3, OwnStep

\* A client that shows the state as of before an event, and receives it, shows
\* the state as of it.
LEMMA Shows ==
    ASSUME NEW l \in [Keys -> Nat], NEW v \in [Keys -> Nat], NEW e \in Event, Real(l, e),
           \A k \in Keys : l[k] < e.id => v[k] = l[k]
    PROVE  \A k \in Keys : l[k] <= e.id => [v EXCEPT ![e.key] = e.val][k] = l[k]
  <1> DEFINE w == [v EXCEPT ![e.key] = e.val]
  <1> SUFFICES ASSUME NEW k \in Keys, l[k] <= e.id  PROVE w[k] = l[k]
    OBVIOUS
  <1>1. e.key \in Keys /\ e.id \in Nat  BY DEF Event
  <1>2. CASE l[k] = e.id  BY <1>1, <1>2 DEF Real
  <1>3. CASE l[k] # e.id
    <2>1. k # e.key  BY <1>1, <1>3 DEF Real
    <2>2. v[k] = l[k]  BY <1>1, <1>3
    <2> QED  BY <1>1, <2>1, <2>2
  <1> QED  BY <1>2, <1>3

\* What a client has read of a key stays so when it receives it.
LEMMA ReadInitial ==
    ASSUME Basics, NEW c \in Clients, DeliverInitial(c), NEW k \in Keys, NEW v, Read(c, k, v)
    PROVE  /\ \A i \in 1..Len(batch'[c]) : batch'[c][i].key = k => batch'[c][i].val = v
           /\ Absent(batch'[c], k) => view'[c][k] = v
  <1> DEFINE b == batch[c]  e == Head(batch[c])
  <1>1. b \in Seq(Event) /\ b # <<>> /\ Len(b) \in Nat \ {0} /\ e = b[1] /\ e \in Event
        /\ Len(Tail(b)) = Len(b) - 1 /\ \A i \in 1..(Len(b) - 1) : Tail(b)[i] = b[i + 1]
    <2>1. b \in Seq(Event) /\ b # <<>>  BY DEF Basics, TypeOK, DeliverInitial
    <2> QED  BY <2>1, Tailed
  <1>2. e.key \in Keys  BY <1>1 DEF Event
  <1>3. /\ phase[c] = "streaming" /\ batch'[c] = Tail(b) /\ view[c] \in [Keys -> Nat]
        /\ view'[c] = [view[c] EXCEPT ![e.key] = e.val]
    BY DEF DeliverInitial, Receive, Basics, TypeOK
  <1> HIDE DEF b, e
  <1>4. /\ \A i \in 1..Len(b) : b[i].key = k => b[i].val = v
        /\ Absent(b, k) => view[c][k] = v
    BY <1>3 DEF Read, b
  <1>5. ASSUME NEW i \in 1..Len(batch'[c]), batch'[c][i].key = k  PROVE batch'[c][i].val = v
    <2>1. i + 1 \in 1..Len(b) /\ Tail(b)[i] = b[i + 1]  BY <1>1, <1>3
    <2> QED  BY <1>3, <1>4, <1>5, <2>1
  <1>6. ASSUME Absent(batch'[c], k)  PROVE view'[c][k] = v
    <2>1. CASE e.key = k
      <3>1. e.val = v  BY <1>1, <1>4, <2>1
      <3> QED  BY <1>3, <2>1, <3>1
    <2>2. CASE e.key # k
      <3>1. ASSUME NEW i \in 1..Len(b)  PROVE b[i].key # k
        <4>1. CASE i = 1  BY <1>1, <2>2, <4>1
        <4>2. CASE i # 1
          <5>1. i - 1 \in 1..(Len(b) - 1) /\ (i - 1) + 1 = i  BY <1>1, <4>2
          <5>2. Tail(b)[i - 1] = b[i]  BY <1>1, <5>1
          <5>3. \A j \in 1..Len(Tail(b)) : Tail(b)[j].key # k  BY <1>3, <1>6 DEF Absent
          <5>4. Tail(b)[i - 1].key # k  BY <1>1, <5>1, <5>3
          <5> QED  BY <5>2, <5>4
        <4> QED  BY <4>1, <4>2
      <3>2. view[c][k] = v  BY <1>4, <3>1 DEF Absent
      <3> QED  BY <1>3, <2>2, <3>2
    <2> QED  BY <2>1, <2>2
  <1> QED  BY <1>5, <1>6

\* An event of the replay is the next one; what was read has no id.
LEMMA DeliverInitialSerial ==
    ASSUME Basics, Basics', Serial, NEW c \in Clients, DeliverInitial(c)
    PROVE  Serial'
  <1> DEFINE b == batch[c]  e == Head(batch[c])
  <1>1. b \in Seq(Event) /\ b # <<>> /\ Len(b) \in Nat \ {0} /\ e = b[1] /\ e \in Event
        /\ Len(Tail(b)) = Len(b) - 1 /\ \A i \in 1..(Len(b) - 1) : Tail(b)[i] = b[i + 1]
    <2>1. b \in Seq(Event) /\ b # <<>>  BY DEF Basics, TypeOK, DeliverInitial
    <2> QED  BY <2>1, Tailed
  <1>2. e.key \in Keys /\ e.id \in Nat /\ e.val \in Nat  BY <1>1 DEF Event
  <1>3. /\ UNCHANGED <<nextId, state, ring, pc, evt, targets, full, open, queue, seen, hydrated, phase>>
        /\ phase[c] = "streaming" /\ batch'[c] = Tail(b) /\ lastId'[c] = e.id
        /\ \A d \in Clients : d # c => batch'[d] = batch[d] /\ lastId'[d] = lastId[d] /\ view'[d] = view[d]
    BY DEF DeliverInitial, Receive, Basics, TypeOK
  <1>4. view'[c] = [view[c] EXCEPT ![e.key] = e.val]
    BY DEF DeliverInitial, Receive, Basics, TypeOK
  <1> HIDE DEF b, e
  <1>5. ASSUME Top' = Top, Latest' = Latest  PROVE ClientInv(c)'
    <2>1. ClientInv(c) /\ Sent' = Sent /\ Owed' = Owed  BY <1>3, SameSent DEF Serial
    <2>2. /\ nextId \in Nat /\ Sent[c] \in Int /\ Top \in Int /\ Sent[c] <= Top /\ Latest \in [Keys -> Nat]
          /\ lastId[c] \in Nat /\ view[c] \in [Keys -> Nat]
      BY Ranges DEF HubRanges, ClientRanges
    <2>3. CASE ~hydrated[c]
      <3>1. Following(c) /\ Following(c)' /\ ~Fresh(c)'  BY <1>3, <2>3 DEF Following, Fresh
      <3>2. /\ lastId[c] # 0 /\ End(c) <= Top
            /\ \A i \in 1..Len(b) : Real(Latest, b[i]) /\ b[i].id = lastId[c] + i
            /\ \A n \in seen[c] : n <= End(c)
            /\ \A i \in 1..Len(queue[c]) : queue[c][i].id <= End(c) => queue[c][i].id \in seen[c]
            /\ c \in Owed /\ End(c) = nextId - 1 => nextId - 1 \in seen[c]
            /\ queue[c] # <<>> => queue[c][1].id <= End(c) + 1
            /\ open[c] /\ queue[c] = <<>> => End(c) >= Sent[c]
        BY <2>1, <3>1 DEF ClientInv, FollowInv, b
      <3>3. e.id = lastId[c] + 1 /\ Real(Latest, e)  BY <1>1, <3>2
      <3>4. End(c) = lastId[c] + Len(b) /\ End(c)' = End(c)
        <4>1. End(c) = lastId[c] + Len(b)  BY DEF End, b
        <4>2. End(c)' = e.id + (Len(b) - 1)  BY <1>1, <1>3 DEF End
        <4> QED  BY <1>1, <2>2, <3>3, <4>1, <4>2
      <3>5. QueueInv(c)'
        <4>1. lastId'[c] <= Top'  BY <1>1, <1>3, <1>5, <2>2, <3>2, <3>3, <3>4
        <4> QED  BY <1>3, <1>5, <2>1, <4>1 DEF ClientInv, QueueInv
      <3>6. FollowInv(c)'
        <4>1. \A i \in 1..Len(batch'[c]) : Real(Latest', batch'[c][i]) /\ batch'[c][i].id = lastId'[c] + i
          <5> SUFFICES ASSUME NEW i \in 1..(Len(b) - 1)
                       PROVE  Real(Latest, Tail(b)[i]) /\ Tail(b)[i].id = e.id + i
            BY <1>1, <1>3, <1>5
          <5>1. i + 1 \in 1..Len(b) /\ Tail(b)[i] = b[i + 1]  BY <1>1
          <5>2. Real(Latest, b[i + 1]) /\ b[i + 1].id = lastId[c] + (i + 1)  BY <3>2, <5>1
          <5>3. i \in Int  OBVIOUS
          <5>4. lastId[c] + (i + 1) = e.id + i  BY <2>2, <3>3, <5>3
          <5> QED  BY <5>1, <5>2, <5>4
        <4>2. lastId'[c] # 0  BY <1>3, <2>2, <3>3
        <4> QED  BY <1>3, <1>5, <2>1, <3>2, <3>4, <4>1, <4>2 DEF FollowInv
      <3>7. ViewInv(c)'
        <4>1. \A k \in Keys : Latest[k] <= lastId[c] => view[c][k] = Latest[k]
          BY <2>1, <3>1 DEF ClientInv, ViewInv
        <4>2. \A k \in Keys : Latest[k] <= e.id => view'[c][k] = Latest[k]
          <5>1. \A k \in Keys : Latest[k] <= e.id => [view[c] EXCEPT ![e.key] = e.val][k] = Latest[k]
            <6>1. e \in Event /\ Latest \in [Keys -> Nat] /\ view[c] \in [Keys -> Nat]
              BY <1>1, <2>2
            <6>2. \A k \in Keys : Latest[k] < e.id => view[c][k] = Latest[k]
              BY <2>2, <3>3, <4>1
            <6> QED  BY <3>3, <6>1, <6>2, Shows
          <5> QED  BY <1>4, <5>1
        <4> QED  BY <1>3, <1>5, <4>2 DEF ViewInv
      <3> QED  BY <3>1, <3>5, <3>6, <3>7 DEF ClientInv, FreshInv
    <2>4. CASE hydrated[c]
      <3>1. Fresh(c)  BY <1>1, <1>3, <2>4 DEF Following, Fresh, b
      <3>2. \A i \in 1..Len(b) : b[i].id = 0  BY <2>1, <3>1 DEF ClientInv, FreshInv, b
      <3>3. e.id = 0  BY <1>1, <3>2
      <3>4. ~Following(c)'  BY <1>3, <2>4, <3>3 DEF Following
      <3>5. c \notin Known'
        <4>1. \A i \in 1..Len(ring) : ring[i].id # 0  BY <2>2 DEF Basics, RingIds
        <4> QED  BY <1>3, <3>3, <4>1 DEF Known
      <3>6. QueueInv(c)'
        <4>1. Latest[e.key] \in 0..Top  BY <1>2 DEF Serial, HubInv
        <4>2. lastId'[c] <= Top'  BY <1>3, <1>5, <2>2, <3>3, <4>1
        <4> QED  BY <1>3, <1>5, <2>1, <4>2 DEF ClientInv, QueueInv
      <3>7. ASSUME NEW k \in Keys, Read(c, k, Latest[k])  PROVE Read(c, k, Latest[k])'
        <4>1. /\ \A i \in 1..Len(batch'[c]) : batch'[c][i].key = k => batch'[c][i].val = Latest[k]
              /\ Absent(batch'[c], k) => view'[c][k] = Latest[k]
          BY <3>7, ReadInitial
        <4> QED  BY <1>5, <4>1 DEF Read
      <3>8. FreshInv(c)'
        <4>1. \A i \in 1..Len(batch'[c]) : batch'[c][i].id = 0
          <5> SUFFICES ASSUME NEW i \in 1..(Len(b) - 1)  PROVE Tail(b)[i].id = 0
            BY <1>1, <1>3
          <5>1. i + 1 \in 1..Len(b) /\ Tail(b)[i] = b[i + 1]  BY <1>1
          <5> QED  BY <3>2, <5>1
        <4>2. queue[c] # <<>> => \A k \in Keys : Latest[k] < queue[c][1].id => Read(c, k, Latest[k])'
          BY <2>1, <3>1, <3>7 DEF ClientInv, FreshInv
        <4>3. open[c] /\ queue[c] = <<>> => \A k \in Keys : Latest[k] <= Sent[c] => Read(c, k, Latest[k])'
          BY <2>1, <3>1, <3>7 DEF ClientInv, FreshInv
        <4> QED  BY <1>3, <1>5, <2>1, <4>1, <4>2, <4>3 DEF FreshInv
      <3>9. FollowInv(c)' /\ ViewInv(c)'  BY <3>4, <3>5 DEF FollowInv, ViewInv
      <3> QED  BY <3>6, <3>8, <3>9 DEF ClientInv
    <2> QED  BY <2>3, <2>4
  <1> QED  BY <1>3, <1>5, OwnStep

\* An event of the channel was in the replay, or is the next one.
LEMMA DeliverLiveSerial ==
    ASSUME Basics, Basics', Serial, NEW c \in Clients, DeliverLive(c)
    PROVE  Serial'
  <1> DEFINE q == queue[c]  e == Head(queue[c])
  <1>1. q \in Seq(Event) /\ q # <<>> /\ Len(q) \in Nat \ {0} /\ e = q[1] /\ e \in Event
        /\ Tail(q) \in Seq(Event) /\ Len(Tail(q)) = Len(q) - 1
        /\ \A i \in 1..(Len(q) - 1) : Tail(q)[i] = q[i + 1]
    <2>1. q \in Seq(Event) /\ q # <<>>  BY DEF Basics, TypeOK, DeliverLive
    <2> QED  BY <2>1, Tailed
  <1>2. e.key \in Keys /\ e.id \in Nat /\ e.val \in Nat  BY <1>1 DEF Event
  <1>3. /\ UNCHANGED <<nextId, state, ring, pc, evt, targets, full, open, batch, hydrated, phase>>
        /\ phase[c] = "streaming" /\ batch[c] = <<>> /\ queue'[c] = Tail(q)
        /\ \A d \in Clients : d # c => /\ queue'[d] = queue[d] /\ seen'[d] = seen[d]
                                       /\ lastId'[d] = lastId[d] /\ view'[d] = view[d]
    BY DEF DeliverLive, Receive, Basics, TypeOK
  <1>4. \/ e.id \in seen[c] /\ seen' = seen /\ lastId' = lastId /\ view' = view
        \/ /\ e.id \notin seen[c] /\ seen'[c] = {} /\ lastId'[c] = e.id
           /\ view'[c] = [view[c] EXCEPT ![e.key] = e.val]
    <2>1. CASE e.id \in seen[c]  BY <2>1 DEF DeliverLive
    <2>2. CASE e.id \notin seen[c]
      <3>1. seen' = [seen EXCEPT ![c] = {}] /\ Receive(c, e)  BY <2>2 DEF DeliverLive
      <3>2. seen'[c] = {}  BY <3>1 DEF Basics, TypeOK
      <3>3. lastId'[c] = e.id /\ view'[c] = [view[c] EXCEPT ![e.key] = e.val]
        BY <3>1 DEF Receive, Basics, TypeOK
      <3> QED  BY <2>2, <3>2, <3>3
    <2> QED  BY <2>1, <2>2
  <1>5. /\ nextId \in Nat /\ Sent[c] \in Int /\ Top \in Int /\ Sent[c] <= Top /\ Latest \in [Keys -> Nat]
        /\ lastId[c] \in Nat /\ view[c] \in [Keys -> Nat] /\ Len(batch[c]) = 0
        /\ \A i \in 1..Len(q) : q[i].id \in Nat \ {0}
    <2>1. Len(batch[c]) = 0  BY <1>3, Empty
    <2> QED  BY <2>1, Ranges DEF HubRanges, ClientRanges
  <1> HIDE DEF q, e
  <1>6. ASSUME Top' = Top, Latest' = Latest  PROVE ClientInv(c)'
    <2>1. ClientInv(c) /\ Sent' = Sent /\ Owed' = Owed  BY <1>3, SameSent DEF Serial
    <2>2. /\ lastId[c] <= Top
          /\ \A i \in 1..Len(q) : Real(Latest, q[i]) /\ q[i].id <= Sent[c] /\ q[i].id = (q[1].id - 1) + i
          /\ open[c] => q[Len(q)].id = Sent[c]
      BY <1>1, <2>1 DEF ClientInv, QueueInv, q
    <2>3. 1 \in 1..Len(q) /\ e.id = q[1].id /\ e.id >= 1 /\ e.id <= Sent[c] /\ Real(Latest, e)
      BY <1>1, <1>5, <2>2
    <2>4. ASSUME NEW i \in 1..(Len(q) - 1)
          PROVE  /\ i + 1 \in 1..Len(q) /\ Tail(q)[i] = q[i + 1] /\ i \in Int
                 /\ Real(Latest, Tail(q)[i]) /\ Tail(q)[i].id <= Sent[c] /\ Tail(q)[i].id = e.id + i
      <3>1. i + 1 \in 1..Len(q) /\ Tail(q)[i] = q[i + 1] /\ i \in Int  BY <1>1
      <3>2. Real(Latest, q[i + 1]) /\ q[i + 1].id <= Sent[c] /\ q[i + 1].id = (q[1].id - 1) + (i + 1)
        BY <2>2, <3>1
      <3>3. (q[1].id - 1) + (i + 1) = e.id + i  BY <1>2, <2>3, <3>1
      <3> QED  BY <3>1, <3>2, <3>3
    <2>5. Tail(q) = <<>> => Len(q) = 1
      <3>1. Tail(q) = <<>> => Len(Tail(q)) = 0  BY Empty
      <3> QED  BY <1>1, <3>1
    <2>6. Tail(q) # <<>> => 1 \in 1..(Len(q) - 1) /\ Len(q) - 1 \in 1..(Len(q) - 1)  BY <1>1, Empty
    <2>7. QueueInv(c)'
      <3>1. lastId'[c] <= Top'  BY <1>4, <1>5, <1>6, <1>2, <2>2, <2>3
      <3>2. \A i \in 1..Len(queue'[c]) :
              /\ Real(Latest', queue'[c][i]) /\ queue'[c][i].id <= Sent'[c]
              /\ queue'[c][i].id = (queue'[c][1].id - 1) + i
        <4> SUFFICES ASSUME NEW i \in 1..(Len(q) - 1)
                     PROVE  /\ Real(Latest, Tail(q)[i]) /\ Tail(q)[i].id <= Sent[c]
                            /\ Tail(q)[i].id = (Tail(q)[1].id - 1) + i
          BY <1>1, <1>3, <1>6, <2>1
        <4>1. 1 \in 1..(Len(q) - 1)  BY <1>1
        <4>2. Tail(q)[1].id = e.id + 1  BY <2>4, <4>1
        <4>3. i \in Int /\ Tail(q)[i].id = e.id + i  BY <2>4
        <4>4. Tail(q)[i].id = (Tail(q)[1].id - 1) + i  BY <1>2, <4>2, <4>3
        <4> QED  BY <2>4, <4>4
      <3>3. open'[c] /\ queue'[c] # <<>> => queue'[c][Len(queue'[c])].id = Sent'[c]
        <4> SUFFICES ASSUME open[c], Tail(q) # <<>>  PROVE Tail(q)[Len(q) - 1].id = Sent[c]
          BY <1>1, <1>3, <2>1
        <4>1. Tail(q)[Len(q) - 1] = q[(Len(q) - 1) + 1]  BY <1>1, <2>6
        <4>2. (Len(q) - 1) + 1 = Len(q)  BY <1>1
        <4> QED  BY <2>2, <4>1, <4>2
      <3> QED  BY <1>3, <3>1, <3>2, <3>3 DEF QueueInv
    <2>8. CASE e.id \in seen[c]
      <3>1. seen' = seen /\ lastId' = lastId /\ view' = view  BY <1>4, <2>8
      <3>2. ~hydrated[c]  BY <1>3, <2>8 DEF Basics, HydrationInv
      <3>3. Following(c) /\ Following(c)' /\ ~Fresh(c)'  BY <1>3, <3>2 DEF Following, Fresh
      <3>4. End(c) = lastId[c] /\ End(c)' = End(c)  BY <1>3, <1>5, <3>1 DEF End
      <3>5. /\ lastId[c] # 0 /\ End(c) <= Top
            /\ \A n \in seen[c] : n <= End(c)
            /\ \A i \in 1..Len(q) : q[i].id <= End(c) => q[i].id \in seen[c]
            /\ c \in Owed /\ End(c) = nextId - 1 => nextId - 1 \in seen[c]
        BY <2>1, <3>3 DEF ClientInv, FollowInv, q
      <3>6. e.id <= End(c)  BY <2>8, <3>5
      <3>7. \A i \in 1..Len(queue'[c]) : queue'[c][i].id <= End(c) => queue'[c][i].id \in seen[c]
        BY <1>1, <1>3, <2>4, <3>5
      <3>8. queue'[c] # <<>> => queue'[c][1].id <= End(c) + 1
        <4> SUFFICES ASSUME Tail(q) # <<>>  PROVE Tail(q)[1].id <= End(c) + 1
          BY <1>3
        <4>1. Tail(q)[1].id = e.id + 1  BY <2>4, <2>6
        <4> QED  BY <1>2, <1>5, <3>4, <3>6, <4>1
      <3>9. open[c] /\ queue'[c] = <<>> => End(c) >= Sent[c]
        <4> SUFFICES ASSUME open[c], Tail(q) = <<>>  PROVE End(c) >= Sent[c]
          BY <1>3
        <4>1. e.id = Sent[c]  BY <2>2, <2>3, <2>5
        <4> QED  BY <1>2, <1>5, <3>4, <3>6, <4>1
      <3>10. FollowInv(c)'
        <4>1. \A i \in 1..Len(batch'[c]) : FALSE  BY <1>3, <1>5
        <4> QED  BY <1>3, <1>6, <2>1, <3>1, <3>4, <3>5, <3>7, <3>8, <3>9, <4>1 DEF FollowInv
      <3>11. ViewInv(c)'  BY <1>6, <2>1, <3>1, <3>3 DEF ClientInv, ViewInv
      <3> QED  BY <2>7, <3>3, <3>10, <3>11 DEF ClientInv, FreshInv
    <2>9. CASE e.id \notin seen[c]
      <3>1. seen'[c] = {} /\ lastId'[c] = e.id /\ view'[c] = [view[c] EXCEPT ![e.key] = e.val]
        BY <1>4, <2>9
      <3>2. Following(c)' /\ ~Fresh(c)'  BY <1>3, <2>3, <3>1 DEF Following, Fresh
      <3>3. End(c)' = e.id  BY <1>2, <1>3, <1>5, <3>1 DEF End
      <3>4. \A i \in 1..Len(queue'[c]) : queue'[c][i].id > e.id
        <4> SUFFICES ASSUME NEW i \in 1..(Len(q) - 1)  PROVE Tail(q)[i].id > e.id
          BY <1>1, <1>3
        <4>1. Tail(q)[i].id = e.id + i /\ i \in Int /\ i >= 1  BY <2>4
        <4> QED  BY <1>2, <4>1
      <3>5. ~(c \in Owed /\ e.id = nextId - 1)
        <4>1. c \in Owed => Sent[c] = nextId - 2  BY DEF Sent
        <4> QED  BY <1>2, <1>5, <2>3, <4>1
      <3>6. queue'[c] # <<>> => queue'[c][1].id <= e.id + 1
        <4> SUFFICES ASSUME Tail(q) # <<>>  PROVE Tail(q)[1].id <= e.id + 1
          BY <1>3
        <4>1. Tail(q)[1].id = e.id + 1  BY <2>4, <2>6
        <4> QED  BY <1>2, <4>1
      <3>7. open[c] /\ queue'[c] = <<>> => e.id >= Sent[c]
        <4> SUFFICES ASSUME open[c], Tail(q) = <<>>  PROVE e.id >= Sent[c]
          BY <1>3
        <4>1. e.id = Sent[c]  BY <2>2, <2>3, <2>5
        <4> QED  BY <1>2, <4>1
      <3>8. FollowInv(c)'
        <4>1. \A i \in 1..Len(batch'[c]) : FALSE  BY <1>3, <1>5
        <4>2. e.id <= Top /\ e.id # 0  BY <1>2, <1>5, <2>3
        <4>3. \A i \in 1..Len(queue'[c]) : ~(queue'[c][i].id <= e.id)
          <5> SUFFICES ASSUME NEW i \in 1..(Len(q) - 1)  PROVE ~(Tail(q)[i].id <= e.id)
            BY <1>1, <1>3
          <5>1. Tail(q)[i].id = e.id + i /\ i \in Int /\ i >= 1  BY <2>4
          <5> QED  BY <1>2, <5>1
        <4> QED  BY <1>3, <1>6, <2>1, <3>1, <3>3, <3>5, <3>6, <3>7, <4>1, <4>2, <4>3 DEF FollowInv
      <3>9. \A k \in Keys : Latest[k] < e.id => view[c][k] = Latest[k]
        <4>1. CASE Following(c)
          <5>1. End(c) = lastId[c]  BY <1>5 DEF End
          <5>2. /\ \A i \in 1..Len(q) : q[i].id <= End(c) => q[i].id \in seen[c]
                /\ q[1].id <= End(c) + 1
            BY <1>1, <2>1, <4>1 DEF ClientInv, FollowInv, q
          <5>3. e.id <= lastId[c] + 1  BY <2>3, <5>1, <5>2
          <5>4. \A k \in Keys : Latest[k] <= lastId[c] => view[c][k] = Latest[k]
            BY <2>1, <4>1 DEF ClientInv, ViewInv
          <5> QED  BY <1>2, <1>5, <5>3, <5>4
        <4>2. CASE ~Following(c)
          <5>1. Fresh(c)  BY <1>3, <4>2 DEF Fresh, Following
          <5> SUFFICES ASSUME NEW k \in Keys, Latest[k] < e.id  PROVE view[c][k] = Latest[k]
            OBVIOUS
          <5>2. Read(c, k, Latest[k])  BY <1>1, <2>1, <2>3, <5>1 DEF ClientInv, FreshInv, q
          <5>3. Absent(batch[c], k)  BY <1>5 DEF Absent
          <5> QED  BY <1>3, <5>2, <5>3 DEF Read
        <4> QED  BY <4>1, <4>2
      <3>10. ViewInv(c)'
        <4>1. \A k \in Keys : Latest[k] <= e.id => [view[c] EXCEPT ![e.key] = e.val][k] = Latest[k]
          <5>1. e \in Event /\ Latest \in [Keys -> Nat] /\ view[c] \in [Keys -> Nat] /\ Real(Latest, e)
            BY <1>1, <1>5, <2>3
          <5> QED  BY <3>9, <5>1, Shows
        <4> QED  BY <1>6, <3>1, <4>1 DEF ViewInv
      <3> QED  BY <2>7, <3>2, <3>8, <3>10 DEF ClientInv, FreshInv
    <2> QED  BY <2>8, <2>9
  <1> QED  BY <1>3, <1>6, OwnStep

\* The server as it starts, with nobody connected.
AtStart ==
    /\ ring = <<>> /\ \A k \in Keys : state[k] = 0
    /\ \A p \in Publishers : pc[p] = "idle"
    /\ \A c \in Clients : phase[c] = "offline" /\ queue[c] = <<>>

\* Nothing is owed to anybody then.
LEMMA Anew == Basics /\ AtStart => Serial
  <1> SUFFICES ASSUME Basics, AtStart  PROVE Serial
    OBVIOUS
  <1>1. ~Adding /\ Top = nextId - 1 /\ nextId \in Nat \ {0}  BY DEF AtStart, Adding, Top, Basics, TypeOK
  <1>2. \A k \in Keys : Latest[k] = 0  BY DEF AtStart, Latest, Syncing
  <1>3. \A i \in 1..Len(ring) : FALSE  BY Empty DEF AtStart
  <1>4. HubInv  BY <1>1, <1>2, <1>3 DEF AtStart, HubInv, InFlight
  <1>5. ASSUME NEW c \in Clients  PROVE ClientInv(c)
    <2>1. \A i \in 1..Len(queue[c]) : FALSE  BY Empty DEF AtStart
    <2>2. lastId[c] <= Top  BY <1>1 DEF Basics, ClientIds, TypeOK
    <2>3. ~Following(c) /\ ~Fresh(c) /\ c \notin Known  BY <1>3 DEF AtStart, Following, Fresh, Known
    <2>4. queue[c] = <<>> /\ phase[c] = "offline"  BY DEF AtStart
    <2> QED  BY <2>1, <2>2, <2>3, <2>4 DEF ClientInv, QueueInv, FollowInv, ViewInv, FreshInv
  <1> QED  BY <1>4, <1>5 DEF Serial

\* The same of the next state.
LEMMA AnewNext == Basics' /\ AtStart' => Serial'
  BY Anew, PTL

\* After a restart the hub begins anew.
LEMMA RestartSerial ==
    ASSUME Basics', Restart
    PROVE  Serial'
  <1>1. AtStart'  BY DEF Restart, Drop, AtStart
  <1> QED  BY <1>1, AnewNext

-----------------------------------------------------------------------------
(* The invariant for connections that began with a hydration, whatever     *)
(* overlaps.                                                               *)

\* The keys of which an event is under way that is still to be sent to a client.
Due == [c \in Clients |-> {k \in Keys : \E p \in Publishers :
          /\ evt[p].key = k
          /\ \/ pc[p] \in {"add", "sync", "snapshot"}
             \/ pc[p] = "send" /\ c \in targets[p] \cup full[p]}]

\* The last event of key k in s, if there is one, has the value v.
Ends(s, k, v) ==
    \A i \in 1..Len(s) :
      s[i].key = k /\ (\A j \in 1..Len(s) : j > i => s[j].key # k) => s[i].val = v

Hydrating(c) == hydrated[c] /\ phase[c] \in {"hydrating", "streaming"}

\* Two publications of one key that are both under way make it a raced one;
\* of any other key, the state has what is being sent.
SyncedInv ==
    /\ \A p, q \in Publishers :
         p # q /\ InFlight(p) /\ InFlight(q) /\ evt[p].key = evt[q].key => evt[p].key \in raced
    /\ \A p \in Publishers :
         pc[p] \in {"snapshot", "send"} /\ evt[p].key \notin raced => state[evt[p].key] = evt[p].val

\* What c has of key k, in its channel or before it, is the state's value.
KeyInv(c, k) ==
    open[c] /\ k \notin Due[c] /\ k \notin raced =>
      /\ Ends(queue[c], k, state[k])
      /\ Hydrating(c) /\ Absent(queue[c], k) => Read(c, k, state[k])

KeysInv == SyncedInv /\ \A c \in Clients, k \in Keys : KeyInv(c, k)

\* A connection that does nothing itself keeps it while the state is the same,
\* or an event is still to be sent to it.
LEMMA KeyFrame ==
    ASSUME NEW c \in Clients, NEW k \in Keys, KeyInv(c, k),
           phase'[c] = phase[c], queue'[c] = queue[c], batch'[c] = batch[c],
           hydrated'[c] = hydrated[c], view'[c] = view[c],
           open'[c] => \/ k \in Due'[c]
                       \/ open[c] /\ state'[k] = state[k] /\ k \notin Due[c] /\ (k \in raced' <=> k \in raced)
    PROVE  KeyInv(c, k)'
  <1> SUFFICES ASSUME open'[c], k \notin Due'[c], k \notin raced'
               PROVE  /\ Ends(queue[c], k, state[k])
                      /\ Hydrating(c) /\ Absent(queue[c], k) => Read(c, k, state[k])'
    BY DEF KeyInv, Hydrating
  <1>1. open[c] /\ k \notin Due[c] /\ k \notin raced /\ state'[k] = state[k]  OBVIOUS
  <1>2. /\ Ends(queue[c], k, state[k])
        /\ Hydrating(c) /\ Absent(queue[c], k) => Read(c, k, state[k])
    BY <1>1 DEF KeyInv
  <1>3. Read(c, k, state[k]) => Read(c, k, state[k])'  BY <1>1 DEF Read
  <1> QED  BY <1>2, <1>3

\* The same for a step that concerns no connection at all.
LEMMA KeysFrame ==
    ASSUME KeysInv, UNCHANGED <<phase, queue, batch, hydrated, view>>, SyncedInv',
           \A c \in Clients, k \in Keys :
              open'[c] => \/ k \in Due'[c]
                          \/ open[c] /\ state'[k] = state[k] /\ k \notin Due[c] /\ (k \in raced' <=> k \in raced)
    PROVE  KeysInv'
  <1>1. ASSUME NEW c \in Clients, NEW k \in Keys  PROVE KeyInv(c, k)'
    <2>1. KeyInv(c, k)  BY DEF KeysInv
    <2>2. open'[c] => \/ k \in Due'[c]
                      \/ open[c] /\ state'[k] = state[k] /\ k \notin Due[c] /\ (k \in raced' <=> k \in raced)
      OBVIOUS
    <2>3. /\ phase'[c] = phase[c] /\ queue'[c] = queue[c] /\ batch'[c] = batch[c]
          /\ hydrated'[c] = hydrated[c] /\ view'[c] = view[c]
      OBVIOUS
    <2> QED  BY <2>1, <2>2, <2>3, KeyFrame
  <1> QED  BY <1>1 DEF KeysInv

\* Who is due what, client by client.
LEMMA DueDef ==
    \A c \in Clients, k \in Keys :
      k \in Due[c] <=> \E p \in Publishers :
                         /\ evt[p].key = k
                         /\ \/ pc[p] \in {"add", "sync", "snapshot"}
                            \/ pc[p] = "send" /\ c \in targets[p] \cup full[p]
  BY DEF Due

\* The same of the next state.
LEMMA DueNext ==
    \A c \in Clients, k \in Keys :
      k \in Due'[c] <=> \E p \in Publishers :
                          /\ evt'[p].key = k
                          /\ \/ pc'[p] \in {"add", "sync", "snapshot"}
                             \/ pc'[p] = "send" /\ c \in targets'[p] \cup full'[p]
  BY DEF Due

\* A publication begins: its event is due to everybody, and its key is raced
\* from now on exactly if another one of it is under way.
LEMMA PublishKeys ==
    ASSUME Basics, KeysInv, NEW p \in Publishers, NEW k \in Keys, Publish(p, k)
    PROVE  KeysInv'
  <1>1. /\ pc[p] = "idle" /\ pc'[p] = "add" /\ evt'[p].key = k /\ UNCHANGED <<state, targets, full, clientVars>>
        /\ \A q \in Publishers : q # p => pc'[q] = pc[q] /\ evt'[q] = evt[q]
        /\ raced' = IF Settled(k) THEN raced \ {k} ELSE raced \cup {k}
    BY DEF Publish, Goto, Basics, TypeOK
  <1>2. \A c \in Clients, l \in Keys : l # k => (l \in Due'[c] <=> l \in Due[c])
    BY <1>1, DueDef, DueNext
  <1>3. \A c \in Clients : k \in Due'[c]
    BY <1>1, DueNext
  <1>4. \A q \in Publishers : q # p /\ InFlight(q) /\ evt[q].key = k => k \in raced'
    BY <1>1 DEF Settled, InFlight
  <1>5. \A l \in Keys : l # k => (l \in raced' <=> l \in raced)
    BY <1>1
  <1>6. \A q \in Publishers : q # p /\ InFlight(q) => evt[q].key \in Keys
    BY DEF Basics, PubIds, Event
  <1>7. SyncedInv'
    <2>1. ASSUME NEW q \in Publishers, NEW r \in Publishers, q # r, InFlight(q)', InFlight(r)', evt'[q].key = evt'[r].key
          PROVE  evt'[q].key \in raced'
      <3>1. CASE evt'[q].key = k
        <4>1. PICK x \in {q, r} : x # p  BY <2>1
        <4>2. InFlight(x) /\ evt[x].key = k  BY <1>1, <2>1, <3>1, <4>1 DEF InFlight
        <4> QED  BY <1>4, <3>1, <4>1, <4>2
      <3>2. CASE evt'[q].key # k
        <4>1. q # p /\ r # p  BY <1>1, <2>1, <3>2
        <4>2. InFlight(q) /\ InFlight(r) /\ evt[q].key = evt[r].key /\ evt[q].key = evt'[q].key
          BY <1>1, <2>1, <4>1 DEF InFlight
        <4>3. evt[q].key \in raced  BY <2>1, <4>2 DEF KeysInv, SyncedInv
        <4> QED  BY <1>5, <1>6, <3>2, <4>1, <4>2, <4>3
      <3> QED  BY <3>1, <3>2
    <2>2. ASSUME NEW q \in Publishers, pc'[q] \in {"snapshot", "send"}, evt'[q].key \notin raced'
          PROVE  state'[evt'[q].key] = evt'[q].val
      <3>1. q # p /\ pc[q] \in {"snapshot", "send"} /\ evt'[q] = evt[q] /\ InFlight(q)
        BY <1>1, <2>2 DEF InFlight
      <3>2. evt[q].key # k  BY <1>4, <2>2, <3>1
      <3>3. evt[q].key \notin raced  BY <1>5, <1>6, <2>2, <3>1, <3>2
      <3> QED  BY <1>1, <3>1, <3>3 DEF KeysInv, SyncedInv
    <2> QED  BY <2>1, <2>2 DEF SyncedInv
  <1> QED  BY <1>1, <1>2, <1>3, <1>5, <1>7, KeysFrame

\* The ring is not the state.
LEMMA RingAddKeys ==
    ASSUME Basics, KeysInv, NEW p \in Publishers, RingAdd(p)
    PROVE  KeysInv'
  <1>1. /\ pc[p] = "add" /\ pc'[p] = "sync" /\ UNCHANGED <<raced, state, evt, targets, full, clientVars>>
        /\ \A q \in Publishers : q # p => pc'[q] = pc[q]
    BY DEF RingAdd, Goto, Basics, TypeOK
  <1>2. \A c \in Clients, l \in Keys : l \in Due'[c] <=> l \in Due[c]
    BY <1>1, DueDef, DueNext
  <1>3. SyncedInv'  BY <1>1 DEF KeysInv, SyncedInv, InFlight
  <1> QED  BY <1>1, <1>2, <1>3, KeysFrame

\* No other publication of a key that is not raced is under way.
LEMMA SyncStateKeys ==
    ASSUME Basics, KeysInv, NEW p \in Publishers, SyncState(p)
    PROVE  KeysInv'
  <1>1. /\ pc[p] = "sync" /\ pc'[p] = "snapshot" /\ UNCHANGED <<raced, evt, targets, full, clientVars>>
        /\ \A q \in Publishers : q # p => pc'[q] = pc[q]
        /\ state' = [state EXCEPT ![evt[p].key] = evt[p].val] /\ state \in [Keys -> Nat]
    BY DEF SyncState, Goto, Basics, TypeOK
  <1>2. InFlight(p) /\ evt[p].key \in Keys  BY <1>1 DEF Basics, PubIds, InFlight, Event
  <1>3. SyncedInv'
    <2>1. \A q \in Publishers : InFlight(q)' <=> InFlight(q)  BY <1>1 DEF InFlight
    <2>2. ASSUME NEW q \in Publishers, pc'[q] \in {"snapshot", "send"}, evt[q].key \notin raced
          PROVE  state'[evt[q].key] = evt[q].val
      <3>1. CASE q = p  BY <1>1, <1>2, <3>1
      <3>2. CASE q # p
        <4>1. InFlight(q) /\ pc[q] \in {"snapshot", "send"}  BY <1>1, <2>2, <3>2 DEF InFlight
        <4>2. evt[q].key # evt[p].key  BY <1>2, <2>2, <3>2, <4>1 DEF KeysInv, SyncedInv
        <4>3. evt[q].key \in Keys  BY <4>1 DEF Basics, PubIds, Event
        <4>4. state[evt[q].key] = evt[q].val  BY <2>2, <4>1 DEF KeysInv, SyncedInv
        <4> QED  BY <1>1, <1>2, <4>2, <4>3, <4>4
      <3> QED  BY <3>1, <3>2
    <2> QED  BY <1>1, <2>1, <2>2 DEF KeysInv, SyncedInv
  <1>4. ASSUME NEW c \in Clients, NEW k \in Keys
        PROVE  k \in Due'[c] \/ (state'[k] = state[k] /\ k \notin Due[c]) \/ (k \in Due[c] /\ k \in Due'[c])
    <2>1. CASE k = evt[p].key  BY <1>1, <2>1, DueNext
    <2>2. CASE k # evt[p].key
      <3>1. k \in Due'[c] <=> k \in Due[c]  BY <1>1, <2>2, DueDef, DueNext
      <3> QED  BY <1>1, <1>2, <2>2, <3>1
    <2> QED  BY <2>1, <2>2
  <1> QED  BY <1>1, <1>3, <1>4, KeysFrame

\* Whoever is open is in the copy.
LEMMA CopySubscribersKeys ==
    ASSUME Basics, KeysInv, NEW p \in Publishers, CopySubscribers(p)
    PROVE  KeysInv'
  <1>1. /\ pc[p] = "snapshot" /\ pc'[p] = "send" /\ UNCHANGED <<raced, state, evt, full, clientVars>>
        /\ targets'[p] = {c \in Clients : open[c]}
        /\ \A q \in Publishers : q # p => pc'[q] = pc[q] /\ targets'[q] = targets[q]
    BY DEF CopySubscribers, Goto, Basics, TypeOK
  <1>2. SyncedInv'  BY <1>1 DEF KeysInv, SyncedInv, InFlight
  <1>3. \A c \in Clients, k \in Keys : open[c] => (k \in Due'[c] <=> k \in Due[c])
    BY <1>1, DueDef, DueNext
  <1> QED  BY <1>1, <1>2, <1>3, KeysFrame

\* Who is evicted is not open any more.
LEMMA EvictKeys ==
    ASSUME Basics, KeysInv, NEW p \in Publishers, Evict(p)
    PROVE  KeysInv'
  <1>1. /\ UNCHANGED <<raced, pc, state, evt, phase, queue, batch, hydrated, view>>
        /\ \A c \in Clients : open'[c] <=> open[c] /\ c \notin full[p]
        /\ \A q \in Publishers : targets'[q] = targets[q] \ full[p]
        /\ \A q \in Publishers : q # p => full'[q] = full[q]
        /\ full'[p] = {}
    BY DEF Evict, Unsubscribe, Basics, TypeOK
  <1>2. SyncedInv'  BY <1>1 DEF KeysInv, SyncedInv, InFlight
  <1>3. ASSUME NEW c \in Clients, NEW k \in Keys, c \notin full[p]  PROVE k \in Due'[c] <=> k \in Due[c]
    <2>1. \A q \in Publishers : c \in targets'[q] \cup full'[q] <=> c \in targets[q] \cup full[q]
      BY <1>1, <1>3
    <2> QED  BY <1>1, <2>1, DueDef, DueNext
  <1> QED  BY <1>1, <1>2, <1>3, KeysFrame

\* There was nobody left to send to.
LEMMA PublishedKeys ==
    ASSUME Basics, KeysInv, NEW p \in Publishers, Published(p)
    PROVE  KeysInv'
  <1>1. /\ pc[p] = "send" /\ pc'[p] = "idle" /\ targets[p] = {} /\ full[p] = {}
        /\ UNCHANGED <<raced, state, evt, targets, full, clientVars>>
        /\ \A q \in Publishers : q # p => pc'[q] = pc[q]
    BY DEF Published, Goto, Basics, TypeOK
  <1>2. SyncedInv'  BY <1>1 DEF KeysInv, SyncedInv, InFlight
  <1>3. \A c \in Clients, k \in Keys : k \in Due'[c] <=> k \in Due[c]
    BY <1>1, DueDef, DueNext
  <1> QED  BY <1>1, <1>2, <1>3, KeysFrame

\* Neither is what expires.
LEMMA ExpireKeys ==
    ASSUME KeysInv, Expire
    PROVE  KeysInv'
  <1>1. UNCHANGED <<raced, state, pc, evt, targets, full, clientVars>>  BY DEF Expire
  <1>2. SyncedInv' /\ Due' = Due  BY <1>1 DEF KeysInv, SyncedInv, InFlight, Due
  <1> QED  BY <1>1, <1>2, KeysFrame

\* A closed hub has no open subscriber.
LEMMA CloseKeys ==
    ASSUME KeysInv, Close
    PROVE  KeysInv'
  <1>1. UNCHANGED <<raced, state, pc, evt, phase, queue, batch, hydrated, view>> /\ \A c \in Clients : ~open'[c]
    BY DEF Close, Unsubscribe
  <1>2. SyncedInv'  BY <1>1 DEF KeysInv, SyncedInv, InFlight
  <1> QED  BY <1>1, <1>2, KeysFrame

\* Neither has one that starts.
LEMMA RestartKeys ==
    ASSUME Restart
    PROVE  KeysInv'
  <1>1. \A p \in Publishers : pc'[p] = "idle"  BY DEF Restart
  <1>2. \A c \in Clients : ~open'[c]  BY DEF Restart, Unsubscribe
  <1> QED  BY <1>1, <1>2 DEF KeysInv, SyncedInv, KeyInv, InFlight

\* The event that is sent becomes the last of its key in the channel, and is
\* what the state has.
LEMMA TrySendKeys ==
    ASSUME Basics, KeysInv, NEW p \in Publishers, NEW c \in Clients, TrySend(p, c)
    PROVE  KeysInv'
  <1>1. /\ pc[p] = "send" /\ full[p] = {} /\ c \in targets[p]
        /\ UNCHANGED <<raced, state, pc, evt, phase, open, batch, hydrated, view>>
        /\ targets'[p] = targets[p] \ {c} /\ \A q \in Publishers : q # p => targets'[q] = targets[q]
        /\ \A q \in Publishers : q # p => full'[q] = full[q]
    BY DEF TrySend, Basics, TypeOK
  <1>2. SyncedInv'  BY <1>1 DEF KeysInv, SyncedInv, InFlight
  <1>3. \A d \in Clients, k \in Keys : d # c => (k \in Due'[d] <=> k \in Due[d])
    <2>1. full'[p] \in {full[p], {c}}  BY DEF TrySend, Basics, TypeOK
    <2>2. \A q \in Publishers, d \in Clients :
            d # c => (d \in targets'[q] \cup full'[q] <=> d \in targets[q] \cup full[q])
      BY <1>1, <2>1
    <2> QED  BY <1>1, <2>2, DueDef, DueNext
  <1>4. CASE ~(Len(queue[c]) < Buffer)
    <2>1. queue' = queue /\ full'[p] = {c}  BY <1>4 DEF TrySend, Basics, TypeOK
    <2>2. \A q \in Publishers, d \in Clients : d \in targets'[q] \cup full'[q] <=> d \in targets[q] \cup full[q]
      BY <1>1, <2>1
    <2>3. \A d \in Clients, k \in Keys : k \in Due'[d] <=> k \in Due[d]
      BY <1>1, <2>2, DueDef, DueNext
    <2> QED  BY <1>1, <1>2, <2>1, <2>3, KeysFrame
  <1>5. CASE Len(queue[c]) < Buffer
    <2> DEFINE q == queue[c]  n == Len(queue[c])  e == evt[p]
    <2>1. /\ queue'[c] = Append(q, e) /\ full'[p] = {} /\ e \in Event
          /\ \A d \in Clients : d # c => queue'[d] = queue[d]
      BY <1>1, <1>5 DEF TrySend, Basics, TypeOK, PubIds, InFlight
    <2>2. /\ n \in Nat /\ Len(queue'[c]) = n + 1 /\ queue'[c][n + 1] = e
          /\ \A i \in 1..n : queue'[c][i] = q[i]
      <3>1. q \in Seq(Event) /\ n \in Nat  BY Ranges DEF ClientRanges
      <3> QED  BY <2>1, <3>1, Appended
    <2> HIDE DEF q, n, e
    <2>3. ASSUME NEW d \in Clients, NEW k \in Keys, d # c  PROVE KeyInv(d, k)'
      <3>1. KeyInv(d, k) /\ queue'[d] = queue[d] /\ (k \in Due'[d] <=> k \in Due[d])
        BY <1>3, <2>1, <2>3 DEF KeysInv
      <3>2. /\ phase'[d] = phase[d] /\ batch'[d] = batch[d] /\ state'[k] = state[k] /\ open'[d] = open[d]
            /\ hydrated'[d] = hydrated[d] /\ view'[d] = view[d] /\ raced' = raced
        BY <1>1
      <3> HIDE DEF KeyInv
      <3>3. CASE k \in Due[d]
        BY <3>1, <3>3 DEF KeyInv
      <3>4. CASE k \notin Due[d]
        BY <3>1, <3>2, <3>4, KeyFrame
      <3> QED  BY <3>3, <3>4
    <2>a. ASSUME NEW k \in Keys, k \in raced  PROVE KeyInv(c, k)'
      BY <1>1, <2>a DEF KeyInv
    <2>4. ASSUME NEW k \in Keys, k = e.key, k \notin raced  PROVE KeyInv(c, k)'
      <3>1. ~Absent(queue'[c], k)
        <4>1. n + 1 \in 1..Len(queue'[c])  BY <2>2
        <4> QED  BY <2>2, <2>4, <4>1 DEF Absent
      <3>2. Ends(queue'[c], k, state[k])
        <4> SUFFICES ASSUME NEW i \in 1..(n + 1), queue'[c][i].key = k,
                            \A j \in 1..(n + 1) : j > i => queue'[c][j].key # k
                     PROVE  queue'[c][i].val = state[k]
          BY <2>2 DEF Ends
        <4>1. n + 1 \in 1..(n + 1) /\ queue'[c][n + 1].key = k  BY <2>2, <2>4
        <4>2. i = n + 1  BY <2>2, <4>1
        <4>3. e.val = state[k]  BY <1>1, <2>4 DEF KeysInv, SyncedInv, e
        <4> QED  BY <2>2, <4>2, <4>3
      <3> QED  BY <1>1, <3>1, <3>2 DEF KeyInv
    <2>5. ASSUME NEW k \in Keys, k # e.key  PROVE KeyInv(c, k)'
      <3>1. k \in Due'[c] <=> k \in Due[c]
        <4>1. \A r \in Publishers : r # p => (c \in targets'[r] \cup full'[r] <=> c \in targets[r] \cup full[r])
          BY <1>1
        <4> QED  BY <1>1, <2>5, <4>1, DueDef, DueNext DEF e
      <3>2. Absent(queue'[c], k) => Absent(q, k)
        <4> SUFFICES ASSUME Absent(queue'[c], k), NEW i \in 1..n  PROVE q[i].key # k
          BY DEF Absent, n, q
        <4>1. i \in 1..Len(queue'[c])  BY <2>2
        <4> QED  BY <2>2, <4>1 DEF Absent
      <3>3. Ends(q, k, state[k]) => Ends(queue'[c], k, state[k])
        <4> SUFFICES ASSUME Ends(q, k, state[k]),
                            NEW i \in 1..(n + 1), queue'[c][i].key = k,
                            \A j \in 1..(n + 1) : j > i => queue'[c][j].key # k
                     PROVE  queue'[c][i].val = state[k]
          BY <2>2 DEF Ends
        <4>1. i # n + 1  BY <2>2, <2>5
        <4>2. i \in 1..n /\ queue'[c][i] = q[i]  BY <2>2, <4>1
        <4>3. \A j \in 1..n : j > i => q[j].key # k
          <5> SUFFICES ASSUME NEW j \in 1..n, j > i  PROVE q[j].key # k
            OBVIOUS
          <5>1. j \in 1..(n + 1) /\ queue'[c][j] = q[j]  BY <2>2
          <5> QED  BY <5>1
        <4> QED  BY <4>2, <4>3 DEF Ends, q, n
      <3>4. KeyInv(c, k)  BY DEF KeysInv
      <3>5. Read(c, k, state[k])' <=> Read(c, k, state[k])  BY <1>1 DEF Read
      <3>6. Hydrating(c)' <=> Hydrating(c)  BY <1>1 DEF Hydrating
      <3> QED  BY <1>1, <3>1, <3>2, <3>3, <3>4, <3>5, <3>6 DEF KeyInv, q
    <2> QED  BY <1>2, <2>a, <2>3, <2>4, <2>5 DEF KeysInv
  <1> QED  BY <1>4, <1>5

\* A step of c's connection concerns no other client.
LEMMA OwnKeyStep ==
    ASSUME KeysInv, NEW c \in Clients, UNCHANGED <<raced, state, pc, evt>>,
           \A p \in Publishers : targets'[p] \ {c} = targets[p] \ {c} /\ full'[p] \ {c} = full[p] \ {c},
           \A d \in Clients : d # c =>
              /\ phase'[d] = phase[d] /\ queue'[d] = queue[d] /\ batch'[d] = batch[d]
              /\ hydrated'[d] = hydrated[d] /\ view'[d] = view[d] /\ open'[d] = open[d],
           \A k \in Keys : KeyInv(c, k)'
    PROVE  KeysInv'
  <1>1. SyncedInv'  BY DEF KeysInv, SyncedInv, InFlight
  <1>2. ASSUME NEW d \in Clients, NEW k \in Keys, d # c  PROVE KeyInv(d, k)'
    <2>1. \A p \in Publishers : d \in targets'[p] \cup full'[p] <=> d \in targets[p] \cup full[p]
      BY <1>2
    <2>2. k \in Due'[d] <=> k \in Due[d]  BY <2>1, DueDef, DueNext
    <2>3. KeyInv(d, k)  BY DEF KeysInv
    <2>4. /\ phase'[d] = phase[d] /\ queue'[d] = queue[d] /\ batch'[d] = batch[d]
          /\ hydrated'[d] = hydrated[d] /\ view'[d] = view[d] /\ open'[d] = open[d]
      BY <1>2
    <2>5. CASE k \in Due[d]  BY <2>2, <2>5 DEF KeyInv
    <2>6. CASE k \notin Due[d]  BY <2>2, <2>3, <2>4, <2>6, KeyFrame
    <2> QED  BY <2>5, <2>6
  <1> QED  BY <1>1, <1>2 DEF KeysInv

\* An empty channel has no last event.
LEMMA ConnectKeys ==
    ASSUME Basics, KeysInv, NEW c \in Clients, Connect(c)
    PROVE  KeysInv'
  <1>1. /\ UNCHANGED <<raced, state, pc, evt, targets, full, batch, hydrated, view>>
        /\ phase'[c] = "subscribed" /\ queue'[c] = <<>>
        /\ \A d \in Clients : d # c => phase'[d] = phase[d] /\ queue'[d] = queue[d] /\ open'[d] = open[d]
    BY DEF Connect, Basics, TypeOK
  <1>2. ASSUME NEW k \in Keys  PROVE KeyInv(c, k)'
    <2>1. ~Hydrating(c)'  BY <1>1 DEF Hydrating
    <2>2. Ends(queue'[c], k, state'[k])  BY <1>1, Empty DEF Ends
    <2> QED  BY <2>1, <2>2 DEF KeyInv
  <1> QED  BY <1>1, <1>2, OwnKeyStep

\* A replay makes the connection one that did not begin with a hydration.
LEMMA ReplayKeys ==
    ASSUME Basics, KeysInv, NEW c \in Clients, Replay(c)
    PROVE  KeysInv'
  <1>1. /\ UNCHANGED <<raced, state, pc, evt, targets, full, open, queue, view>> /\ ~hydrated'[c]
        /\ \A d \in Clients : d # c => /\ phase'[d] = phase[d] /\ batch'[d] = batch[d]
                                       /\ hydrated'[d] = hydrated[d]
    BY DEF Replay, Basics, TypeOK
  <1>2. ASSUME NEW k \in Keys  PROVE KeyInv(c, k)'
    <2>1. ~Hydrating(c)'  BY <1>1 DEF Hydrating
    <2>2. Due' = Due  BY <1>1 DEF Due
    <2> QED  BY <1>1, <2>1, <2>2 DEF KeysInv, KeyInv
  <1> QED  BY <1>1, <1>2, OwnKeyStep

\* A hydration begins with nothing read.
LEMMA HydrateKeys ==
    ASSUME Basics, KeysInv, NEW c \in Clients, Hydrate(c)
    PROVE  KeysInv'
  <1>1. /\ UNCHANGED <<raced, state, pc, evt, targets, full, open, queue, view>>
        /\ phase'[c] = "hydrating" /\ batch'[c] = <<>>
        /\ \A d \in Clients : d # c => /\ phase'[d] = phase[d] /\ batch'[d] = batch[d]
                                       /\ hydrated'[d] = hydrated[d]
    BY DEF Hydrate, Basics, TypeOK
  <1>2. ASSUME NEW k \in Keys  PROVE KeyInv(c, k)'
    <2>1. Read(c, k, state[k])'  BY <1>1, Empty DEF Read
    <2>2. Due' = Due  BY <1>1 DEF Due
    <2> QED  BY <1>1, <2>1, <2>2 DEF KeysInv, KeyInv
  <1> QED  BY <1>1, <1>2, OwnKeyStep

\* A key is read as the state has it.
LEMMA HydrateKeyKeys ==
    ASSUME Basics, KeysInv, NEW c \in Clients, NEW k \in Keys, HydrateKey(c, k)
    PROVE  KeysInv'
  <1>1. /\ UNCHANGED <<raced, state, pc, evt, targets, full, open, queue, hydrated, view>>
        /\ phase[c] = "hydrating" /\ phase'[c] \in {"hydrating", "streaming"}
        /\ \A d \in Clients : d # c => phase'[d] = phase[d] /\ batch'[d] = batch[d]
    BY DEF HydrateKey, Basics, TypeOK
  <1>2. ASSUME NEW l \in Keys  PROVE KeyInv(c, l)'
    <2>1. Due' = Due  BY <1>1 DEF Due
    <2>2. Hydrating(c) <=> hydrated[c]  BY <1>1 DEF Hydrating
    <2>3. ASSUME Read(c, l, state[l])  PROVE Read(c, l, state[l])'
      <3>1. /\ \A i \in 1..Len(batch'[c]) : batch'[c][i].key = l => batch'[c][i].val = state[l]
            /\ phase'[c] = "streaming" => ~Absent(batch'[c], l)
        BY <2>3, ReadMore
      <3> QED  BY <1>1, <3>1 DEF Read
    <2>4. KeyInv(c, l)  BY DEF KeysInv
    <2> QED  BY <1>1, <2>1, <2>2, <2>3, <2>4 DEF KeyInv, Hydrating
  <1> QED  BY <1>1, <1>2, OwnKeyStep

\* What was read is shown.
LEMMA DeliverInitialKeys ==
    ASSUME Basics, KeysInv, NEW c \in Clients, DeliverInitial(c)
    PROVE  KeysInv'
  <1>1. /\ UNCHANGED <<raced, state, pc, evt, targets, full, open, queue, hydrated, phase>>
        /\ \A d \in Clients : d # c => batch'[d] = batch[d] /\ view'[d] = view[d]
    BY DEF DeliverInitial, Receive, Basics, TypeOK
  <1>2. ASSUME NEW k \in Keys  PROVE KeyInv(c, k)'
    <2>1. Due' = Due  BY <1>1 DEF Due
    <2>2. ASSUME Read(c, k, state[k])  PROVE Read(c, k, state[k])'
      <3>1. /\ \A i \in 1..Len(batch'[c]) : batch'[c][i].key = k => batch'[c][i].val = state[k]
            /\ Absent(batch'[c], k) => view'[c][k] = state[k]
        BY <2>2, ReadInitial
      <3> QED  BY <1>1, <3>1 DEF Read
    <2>3. KeyInv(c, k)  BY DEF KeysInv
    <2> QED  BY <1>1, <2>1, <2>2, <2>3 DEF KeyInv, Hydrating
  <1> QED  BY <1>1, <1>2, OwnKeyStep

\* A hydrated connection skips nothing: once the last event of a key has been
\* received the client shows it.
LEMMA DeliverLiveKeys ==
    ASSUME Basics, KeysInv, NEW c \in Clients, DeliverLive(c)
    PROVE  KeysInv'
  <1> DEFINE q == queue[c]  e == Head(queue[c])
  <1>1. q \in Seq(Event) /\ q # <<>> /\ Len(q) \in Nat \ {0} /\ e = q[1] /\ e \in Event
        /\ Len(Tail(q)) = Len(q) - 1 /\ \A i \in 1..(Len(q) - 1) : Tail(q)[i] = q[i + 1]
    <2>1. q \in Seq(Event) /\ q # <<>>  BY DEF Basics, TypeOK, DeliverLive
    <2> QED  BY <2>1, Tailed
  <1>2. e.key \in Keys  BY <1>1 DEF Event
  <1>3. /\ UNCHANGED <<raced, state, pc, evt, targets, full, open, batch, hydrated, phase>>
        /\ phase[c] = "streaming" /\ batch[c] = <<>> /\ queue'[c] = Tail(q) /\ view[c] \in [Keys -> Nat]
        /\ \A d \in Clients : d # c => queue'[d] = queue[d] /\ view'[d] = view[d]
    BY DEF DeliverLive, Receive, Basics, TypeOK
  <1>4. hydrated[c] => view'[c] = [view[c] EXCEPT ![e.key] = e.val]
    <2> SUFFICES ASSUME hydrated[c]  PROVE view'[c] = [view[c] EXCEPT ![e.key] = e.val]
      OBVIOUS
    <2>1. seen[c] = {}  BY <1>3 DEF Basics, HydrationInv
    <2> QED  BY <2>1 DEF DeliverLive, Receive, Basics, TypeOK
  <1> HIDE DEF q, e
  <1>5. ASSUME NEW i \in 1..(Len(q) - 1)
        PROVE  i + 1 \in 1..Len(q) /\ Tail(q)[i] = q[i + 1]
    BY <1>1
  <1>6. ASSUME NEW i \in 1..Len(q), i # 1
        PROVE  i - 1 \in 1..(Len(q) - 1) /\ Tail(q)[i - 1] = q[i]
    <2>1. i - 1 \in 1..(Len(q) - 1) /\ (i - 1) + 1 = i  BY <1>1, <1>6
    <2> QED  BY <1>1, <2>1
  <1>7. ASSUME NEW k \in Keys  PROVE KeyInv(c, k)'
    <2> SUFFICES ASSUME open[c], k \notin Due[c], k \notin raced
                 PROVE  /\ Ends(Tail(q), k, state[k])
                        /\ Hydrating(c) /\ Absent(Tail(q), k) => Read(c, k, state[k])'
      <3>1. Due' = Due  BY <1>3 DEF Due
      <3>2. Hydrating(c)' <=> Hydrating(c)  BY <1>3 DEF Hydrating
      <3> QED  BY <1>3, <3>1, <3>2 DEF KeyInv
    <2>1. /\ Ends(q, k, state[k])
          /\ Hydrating(c) /\ Absent(q, k) => Read(c, k, state[k])
      BY DEF KeysInv, KeyInv, q
    <2>2. Ends(Tail(q), k, state[k])
      <3> SUFFICES ASSUME NEW i \in 1..(Len(q) - 1), Tail(q)[i].key = k,
                          \A j \in 1..(Len(q) - 1) : j > i => Tail(q)[j].key # k
                   PROVE  Tail(q)[i].val = state[k]
        BY <1>1 DEF Ends
      <3>1. i + 1 \in 1..Len(q) /\ Tail(q)[i] = q[i + 1] /\ i \in Nat  BY <1>5
      <3>2. ASSUME NEW j \in 1..Len(q), j > i + 1  PROVE q[j].key # k
        <4>1. j # 1 /\ j - 1 > i  BY <3>1, <3>2
        <4>2. j - 1 \in 1..(Len(q) - 1) /\ Tail(q)[j - 1] = q[j]  BY <1>6, <4>1
        <4> QED  BY <4>1, <4>2
      <3> QED  BY <2>1, <3>1, <3>2 DEF Ends
    <2>3. ASSUME Hydrating(c), Absent(Tail(q), k)  PROVE Read(c, k, state[k])'
      <3>1. \A i \in 1..Len(q) : i # 1 => q[i].key # k  BY <1>1, <1>6, <2>3 DEF Absent
      <3>2. view'[c][k] = state[k]
        <4>1. CASE e.key = k
          <5>1. 1 \in 1..Len(q) /\ q[1].key = k /\ \A j \in 1..Len(q) : j > 1 => q[j].key # k
            BY <1>1, <3>1, <4>1
          <5>2. e.val = state[k]  BY <1>1, <2>1, <5>1 DEF Ends
          <5> QED  BY <1>3, <1>4, <2>3, <4>1, <5>2 DEF Hydrating
        <4>2. CASE e.key # k
          <5>1. Absent(q, k)  BY <1>1, <3>1, <4>2 DEF Absent
          <5>2. Absent(batch[c], k)  BY <1>3, Empty DEF Absent
          <5>3. view[c][k] = state[k]  BY <1>3, <2>1, <2>3, <5>1, <5>2 DEF Read
          <5> QED  BY <1>2, <1>3, <1>4, <2>3, <4>2, <5>3 DEF Hydrating
        <4> QED  BY <4>1, <4>2
      <3>3. \A i \in 1..Len(batch'[c]) : FALSE  BY <1>3, Empty
      <3> QED  BY <1>3, <3>2, <3>3 DEF Read
    <2> QED  BY <2>2, <2>3
  <1> QED  BY <1>3, <1>7, OwnKeyStep

\* A stream ends when it is not open.
LEMMA EndOfStreamKeys ==
    ASSUME Basics, KeysInv, NEW c \in Clients, EndOfStream(c)
    PROVE  KeysInv'
  <1>1. /\ UNCHANGED <<raced, state, pc, evt, targets, open, hydrated, view>> /\ ~open[c]
        /\ \A p \in Publishers : full'[p] = full[p] \ {c}
        /\ \A d \in Clients : d # c => /\ phase'[d] = phase[d] /\ queue'[d] = queue[d] /\ batch'[d] = batch[d]
    BY DEF EndOfStream, Drop, Forget
  <1>2. \A k \in Keys : KeyInv(c, k)'  BY <1>1 DEF KeyInv
  <1> QED  BY <1>1, <1>2, OwnKeyStep

\* A disconnected client is not open.
LEMMA DisconnectKeys ==
    ASSUME Basics, KeysInv, NEW c \in Clients, Disconnect(c)
    PROVE  KeysInv'
  <1>1. /\ UNCHANGED <<raced, state, pc, evt, hydrated, view>>
        /\ \A p \in Publishers : full'[p] = full[p] \ {c} /\ targets'[p] = targets[p] \ {c}
        /\ \A d \in Clients : d # c => /\ phase'[d] = phase[d] /\ queue'[d] = queue[d] /\ batch'[d] = batch[d]
    BY DEF Disconnect, Drop, Forget, Unsubscribe
  <1>2. ~open'[c] /\ \A d \in Clients : d # c => open'[d] = open[d]
    BY DEF Disconnect, Unsubscribe, Basics, TypeOK
  <1>3. \A k \in Keys : KeyInv(c, k)'  BY <1>2 DEF KeyInv
  <1> QED  BY <1>1, <1>2, <1>3, OwnKeyStep

-----------------------------------------------------------------------------
(* The theorems.                                                           *)

Inv == Basics /\ (~overlapped => Serial) /\ KeysInv

\* The invariant holds when the server starts for the first time.
LEMMA InitInv == Init => Inv
  <1> SUFFICES ASSUME Init  PROVE Inv
    OBVIOUS
  <1>1. Basics  BY InitBasics
  <1>2. AtStart  BY DEF Init, AtStart
  <1>3. KeysInv  BY DEF Init, KeysInv, SyncedInv, KeyInv, InFlight
  <1> QED  BY <1>1, <1>2, <1>3, Anew DEF Inv

\* Every step keeps it: what is said of the serial case only while no two
\* publications overlap, what is said of the keys whatever overlaps.
LEMMA NextInv == Inv /\ [Next]_vars => Inv'
  <1> SUFFICES ASSUME Inv, [Next]_vars  PROVE Inv'
    OBVIOUS
  <1>0. Basics  BY DEF Inv
  <1>1. ASSUME NEW p \in Publishers, NEW k \in Keys, Publish(p, k)  PROVE Inv'
    <2>1. Basics'  BY <1>0, <1>1, PublishBasics
    <2>2. ~overlapped' => Serial'  BY <1>0, <1>1, <2>1, PublishSerial DEF Inv
    <2>3. KeysInv'  BY <1>0, <1>1, PublishKeys DEF Inv
    <2> QED  BY <2>1, <2>2, <2>3 DEF Inv
  <1>2. ASSUME NEW p \in Publishers, RingAdd(p)  PROVE Inv'
    <2>1. Basics'  BY <1>0, <1>2, RingAddBasics
    <2>2. overlapped' = overlapped  BY <1>2 DEF RingAdd
    <2>3. Serial => Serial'  BY <1>0, <1>2, <2>1, RingAddSerial
    <2>4. KeysInv'  BY <1>0, <1>2, RingAddKeys DEF Inv
    <2> QED  BY <2>1, <2>2, <2>3, <2>4 DEF Inv
  <1>3. ASSUME NEW p \in Publishers, SyncState(p)  PROVE Inv'
    <2>1. Basics'  BY <1>0, <1>3, SyncStateBasics
    <2>2. overlapped' = overlapped  BY <1>3 DEF SyncState
    <2>3. Serial => Serial'  BY <1>0, <1>3, <2>1, SyncStateSerial
    <2>4. KeysInv'  BY <1>0, <1>3, SyncStateKeys DEF Inv
    <2> QED  BY <2>1, <2>2, <2>3, <2>4 DEF Inv
  <1>4. ASSUME NEW p \in Publishers, CopySubscribers(p)  PROVE Inv'
    <2>1. Basics'  BY <1>0, <1>4, CopySubscribersBasics
    <2>2. overlapped' = overlapped  BY <1>4 DEF CopySubscribers
    <2>3. Serial => Serial'  BY <1>0, <1>4, <2>1, CopySubscribersSerial
    <2>4. KeysInv'  BY <1>0, <1>4, CopySubscribersKeys DEF Inv
    <2> QED  BY <2>1, <2>2, <2>3, <2>4 DEF Inv
  <1>5. ASSUME NEW p \in Publishers, NEW c \in Clients, TrySend(p, c)  PROVE Inv'
    <2>1. Basics'  BY <1>0, <1>5, TrySendBasics
    <2>2. overlapped' = overlapped  BY <1>5 DEF TrySend
    <2>3. Serial => Serial'  BY <1>0, <1>5, <2>1, TrySendSerial
    <2>4. KeysInv'  BY <1>0, <1>5, TrySendKeys DEF Inv
    <2> QED  BY <2>1, <2>2, <2>3, <2>4 DEF Inv
  <1>6. ASSUME NEW p \in Publishers, Evict(p)  PROVE Inv'
    <2>1. Basics'  BY <1>0, <1>6, EvictBasics
    <2>2. overlapped' = overlapped  BY <1>6 DEF Evict
    <2>3. Serial => Serial'  BY <1>0, <1>6, <2>1, EvictSerial
    <2>4. KeysInv'  BY <1>0, <1>6, EvictKeys DEF Inv
    <2> QED  BY <2>1, <2>2, <2>3, <2>4 DEF Inv
  <1>7. ASSUME NEW p \in Publishers, Published(p)  PROVE Inv'
    <2>1. Basics'  BY <1>0, <1>7, PublishedBasics
    <2>2. overlapped' = overlapped  BY <1>7 DEF Published
    <2>3. Serial => Serial'  BY <1>0, <1>7, <2>1, PublishedSerial
    <2>4. KeysInv'  BY <1>0, <1>7, PublishedKeys DEF Inv
    <2> QED  BY <2>1, <2>2, <2>3, <2>4 DEF Inv
  <1>8. ASSUME Expire  PROVE Inv'
    <2>1. Basics'  BY <1>0, <1>8, ExpireBasics
    <2>2. overlapped' = overlapped  BY <1>8 DEF Expire
    <2>3. Serial => Serial'  BY <1>0, <1>8, <2>1, ExpireSerial
    <2>4. KeysInv'  BY <1>0, <1>8, ExpireKeys DEF Inv
    <2> QED  BY <2>1, <2>2, <2>3, <2>4 DEF Inv
  <1>9. ASSUME Close  PROVE Inv'
    <2>1. Basics'  BY <1>0, <1>9, CloseBasics
    <2>2. overlapped' = overlapped  BY <1>9 DEF Close
    <2>3. Serial => Serial'  BY <1>0, <1>9, <2>1, CloseSerial
    <2>4. KeysInv'  BY <1>0, <1>9, CloseKeys DEF Inv
    <2> QED  BY <2>1, <2>2, <2>3, <2>4 DEF Inv
  <1>10. ASSUME NEW c \in Clients, Connect(c)  PROVE Inv'
    <2>1. Basics'  BY <1>0, <1>10, ConnectBasics
    <2>2. overlapped' = overlapped  BY <1>10 DEF Connect
    <2>3. Serial => Serial'  BY <1>0, <1>10, <2>1, ConnectSerial
    <2>4. KeysInv'  BY <1>0, <1>10, ConnectKeys DEF Inv
    <2> QED  BY <2>1, <2>2, <2>3, <2>4 DEF Inv
  <1>11. ASSUME NEW c \in Clients, Replay(c)  PROVE Inv'
    <2>1. Basics'  BY <1>0, <1>11, ReplayBasics
    <2>2. overlapped' = overlapped  BY <1>11 DEF Replay
    <2>3. Serial => Serial'  BY <1>0, <1>11, <2>1, ReplaySerial
    <2>4. KeysInv'  BY <1>0, <1>11, ReplayKeys DEF Inv
    <2> QED  BY <2>1, <2>2, <2>3, <2>4 DEF Inv
  <1>12. ASSUME NEW c \in Clients, Hydrate(c)  PROVE Inv'
    <2>1. Basics'  BY <1>0, <1>12, HydrateBasics
    <2>2. overlapped' = overlapped  BY <1>12 DEF Hydrate
    <2>3. Serial => Serial'  BY <1>0, <1>12, <2>1, HydrateSerial
    <2>4. KeysInv'  BY <1>0, <1>12, HydrateKeys DEF Inv
    <2> QED  BY <2>1, <2>2, <2>3, <2>4 DEF Inv
  <1>13. ASSUME NEW c \in Clients, NEW k \in Keys, HydrateKey(c, k)  PROVE Inv'
    <2>1. Basics'  BY <1>0, <1>13, HydrateKeyBasics
    <2>2. overlapped' = overlapped  BY <1>13 DEF HydrateKey
    <2>3. Serial => Serial'  BY <1>0, <1>13, <2>1, HydrateKeySerial
    <2>4. KeysInv'  BY <1>0, <1>13, HydrateKeyKeys DEF Inv
    <2> QED  BY <2>1, <2>2, <2>3, <2>4 DEF Inv
  <1>14. ASSUME NEW c \in Clients, DeliverInitial(c)  PROVE Inv'
    <2>1. Basics'  BY <1>0, <1>14, DeliverInitialBasics
    <2>2. overlapped' = overlapped  BY <1>14 DEF DeliverInitial
    <2>3. Serial => Serial'  BY <1>0, <1>14, <2>1, DeliverInitialSerial
    <2>4. KeysInv'  BY <1>0, <1>14, DeliverInitialKeys DEF Inv
    <2> QED  BY <2>1, <2>2, <2>3, <2>4 DEF Inv
  <1>15. ASSUME NEW c \in Clients, DeliverLive(c)  PROVE Inv'
    <2>1. Basics'  BY <1>0, <1>15, DeliverLiveBasics
    <2>2. overlapped' = overlapped  BY <1>15 DEF DeliverLive
    <2>3. Serial => Serial'  BY <1>0, <1>15, <2>1, DeliverLiveSerial
    <2>4. KeysInv'  BY <1>0, <1>15, DeliverLiveKeys DEF Inv
    <2> QED  BY <2>1, <2>2, <2>3, <2>4 DEF Inv
  <1>16. ASSUME NEW c \in Clients, EndOfStream(c)  PROVE Inv'
    <2>1. Basics'  BY <1>0, <1>16, EndOfStreamBasics
    <2>2. overlapped' = overlapped  BY <1>16 DEF EndOfStream
    <2>3. Serial => Serial'  BY <1>0, <1>16, <2>1, EndOfStreamSerial
    <2>4. KeysInv'  BY <1>0, <1>16, EndOfStreamKeys DEF Inv
    <2> QED  BY <2>1, <2>2, <2>3, <2>4 DEF Inv
  <1>17. ASSUME NEW c \in Clients, Disconnect(c)  PROVE Inv'
    <2>1. Basics'  BY <1>0, <1>17, DisconnectBasics
    <2>2. overlapped' = overlapped  BY <1>17 DEF Disconnect
    <2>3. Serial => Serial'  BY <1>0, <1>17, <2>1, DisconnectSerial
    <2>4. KeysInv'  BY <1>0, <1>17, DisconnectKeys DEF Inv
    <2> QED  BY <2>1, <2>2, <2>3, <2>4 DEF Inv
  <1>18. ASSUME Restart  PROVE Inv'
    <2>1. Basics'  BY <1>0, <1>18, RestartBasics
    <2>2. Serial' /\ KeysInv'  BY <1>18, <2>1, RestartSerial, RestartKeys
    <2> QED  BY <2>1, <2>2 DEF Inv
  <1>19. CASE UNCHANGED vars
    <2>1. UNCHANGED <<hubVars, pubVars, clientVars>>  BY <1>19 DEF vars
    <2>2. Basics'
      <3>1. TypeOK'  BY <1>0, <2>1 DEF Basics, TypeOK
      <3>2. PubIds' /\ RingIds' /\ ClientIds'  BY <1>0, <2>1 DEF Basics, PubIds, InFlight, RingIds, ClientIds
      <3>3. SendInv' /\ HydrationInv'  BY <1>0, <2>1 DEF Basics, SendInv, HydrationInv
      <3> QED  BY <3>1, <3>2, <3>3 DEF Basics
    <2>3. Serial => Serial'
      <3>1. Top' = Top /\ Latest' = Latest  BY <2>1, SameLatest
      <3>2. Owed' = Owed  BY <2>1 DEF Owed
      <3> QED  BY <1>0, <2>1, <2>2, <3>1, <3>2, AllSteady
    <2>4. KeysInv'
      <3>1. Due' = Due  BY <2>1 DEF Due
      <3>2. KeysInv  BY DEF Inv
      <3>3. SyncedInv'  BY <2>1, <3>2 DEF KeysInv, SyncedInv, InFlight
      <3> QED  BY <2>1, <3>1, <3>2, <3>3, KeysFrame
    <2> QED  BY <2>1, <2>2, <2>3, <2>4 DEF Inv
  <1>20. CASE Next
    BY <1>1, <1>2, <1>3, <1>4, <1>5, <1>6, <1>7, <1>8, <1>9, <1>10, <1>11, <1>12, <1>13, <1>14, <1>15,
       <1>16, <1>17, <1>18, <1>20 DEF Next, PublishStep, ServeStep
  <1> QED  BY <1>19, <1>20

\* The invariant is one, from the assumptions on the constants alone.
THEOREM Invariance == Spec => []Inv
  BY InitInv, NextInv, PTL DEF Spec

\* The ring and every subscriber channel stay within their capacity, and every
\* variable within its type, whatever publishes, connects and restarts.
THEOREM Typing == Spec => []TypeOK
  <1>1. Inv => TypeOK  BY DEF Inv, Basics
  <1> QED  BY <1>1, Invariance, PTL

\* A client that has read everything while nothing is being published.
LEMMA SerialView ==
    ASSUME Basics, Serial, Quiet, NEW c \in Clients, CaughtUp(c)
    PROVE  view[c] = state
  <1>1. \A p \in Publishers : pc[p] = "idle"  BY DEF Quiet
  <1>2. Top = nextId - 1 /\ Sent[c] = nextId - 1 /\ nextId \in Nat
    BY <1>1 DEF Top, Adding, Sent, Owed, Basics, TypeOK
  <1>3. \A k \in Keys : Latest[k] = state[k]  BY <1>1 DEF Latest, Syncing
  <1>4. \A k \in Keys : state[k] \in 0..(nextId - 1)  BY <1>2, <1>3 DEF Serial, HubInv
  <1>5. ClientInv(c)  BY DEF Serial
  <1>6. phase[c] = "streaming" /\ open[c] /\ batch[c] = <<>> /\ queue[c] = <<>>  BY DEF CaughtUp
  <1>7. Len(batch[c]) = 0 /\ lastId[c] \in Nat  BY <1>6, Empty DEF Basics, TypeOK
  <1>8. \A k \in Keys : view[c][k] = state[k]
    <2> SUFFICES ASSUME NEW k \in Keys  PROVE view[c][k] = state[k]
      OBVIOUS
    <2>1. CASE Following(c)
      <3>1. End(c) >= Sent[c] /\ End(c) = lastId[c]
        BY <1>5, <1>6, <1>7, <2>1 DEF ClientInv, FollowInv, End
      <3>2. Latest[k] <= lastId[c]  BY <1>2, <1>3, <1>4, <1>7, <3>1
      <3> QED  BY <1>3, <1>5, <2>1, <3>2 DEF ClientInv, ViewInv
    <2>2. CASE ~Following(c)
      <3>1. Fresh(c)  BY <1>6, <2>2 DEF Fresh, Following
      <3>2. Latest[k] <= Sent[c]  BY <1>2, <1>3, <1>4
      <3>3. Read(c, k, Latest[k])  BY <1>5, <1>6, <3>1, <3>2 DEF ClientInv, FreshInv
      <3>4. Absent(batch[c], k)  BY <1>7 DEF Absent
      <3> QED  BY <1>3, <1>6, <3>3, <3>4 DEF Read
    <2> QED  BY <2>1, <2>2
  <1>9. view[c] \in [Keys -> Nat] /\ state \in [Keys -> Nat]  BY DEF Basics, TypeOK
  <1> QED  BY <1>8, <1>9

\* The same, key by key, of a connection that began with a hydration.
LEMMA HydratedView ==
    ASSUME Basics, KeysInv, NEW c \in Clients, CaughtUp(c), hydrated[c],
           NEW k \in Keys, k \notin raced, Settled(k)
    PROVE  view[c][k] = state[k]
  <1>1. phase[c] = "streaming" /\ open[c] /\ batch[c] = <<>> /\ queue[c] = <<>>  BY DEF CaughtUp
  <1>2. k \notin Due[c]  BY DueDef DEF Settled
  <1>3. Absent(queue[c], k) /\ Absent(batch[c], k)  BY <1>1, Empty DEF Absent
  <1>4. Read(c, k, state[k])  BY <1>1, <1>2, <1>3 DEF KeysInv, KeyInv, Hydrating
  <1> QED  BY <1>1, <1>3, <1>4 DEF Read

\* A client that has read everything shows the server's state once nothing is
\* being published (subscribing before the snapshot or the replay leaves no
\* window): while no two publications have overlapped, resuming and hydrating
\* clients alike; whatever overlaps and whoever publishes which key, a connection
\* that began with a hydration, for every key but those whose last publication
\* began while another one of the key was under way.
THEOREM ViewsCurrent == Spec => []ViewCurrent
  <1>1. Inv => ViewCurrent
    <2> SUFFICES ASSUME Inv, NEW c \in Clients, CaughtUp(c)
                 PROVE  /\ Quiet /\ ~overlapped => view[c] = state
                        /\ hydrated[c] => \A k \in Keys \ raced : Settled(k) => view[c][k] = state[k]
      BY DEF ViewCurrent
    <2>1. Quiet /\ ~overlapped => view[c] = state  BY SerialView DEF Inv
    <2>2. hydrated[c] => \A k \in Keys \ raced : Settled(k) => view[c][k] = state[k]
      BY HydratedView DEF Inv
    <2> QED  BY <2>1, <2>2
  <1> QED  BY <1>1, Invariance, PTL

\* No event is written twice or after a later one: whatever the replay and the
\* channel have in common is skipped, and nothing else.
THEOREM NoRepeats == Spec => NoRepeat
  <1>1. ASSUME Inv, NEW c \in Clients, DeliverLive(c), ~overlapped, Head(queue[c]).id \notin seen[c]
        PROVE  Head(queue[c]).id > lastId[c]
    <2>1. Basics /\ ClientInv(c)  BY <1>1 DEF Inv, Serial
    <2>2. phase[c] = "streaming" /\ batch[c] = <<>> /\ queue[c] # <<>>  BY <1>1 DEF DeliverLive
    <2>3. /\ queue[c] \in Seq(Event) /\ lastId[c] \in Nat /\ Len(batch[c]) = 0
          /\ \A i \in 1..Len(queue[c]) : queue[c][i].id \in Nat \ {0}
      BY <2>1, <2>2, Ranges DEF ClientRanges
    <2>4. Head(queue[c]) = queue[c][1] /\ 1 \in 1..Len(queue[c])  BY <2>2, <2>3, Tailed
    <2>5. CASE Following(c)
      <3>1. \A i \in 1..Len(queue[c]) : queue[c][i].id <= End(c) => queue[c][i].id \in seen[c]
        BY <2>1, <2>5 DEF ClientInv, FollowInv
      <3>2. End(c) = lastId[c]  BY <2>3 DEF End
      <3> QED  BY <1>1, <2>3, <2>4, <3>1, <3>2
    <2>6. CASE ~Following(c)
      <3>1. lastId[c] = 0  BY <2>2, <2>6 DEF Following
      <3> QED  BY <2>3, <2>4, <3>1
    <2> QED  BY <2>5, <2>6
  <1> DEFINE Order == \A c \in Clients :
                DeliverLive(c) /\ ~overlapped /\ Head(queue[c]).id \notin seen[c]
                  => Head(queue[c]).id > lastId[c]
  <1>2. Inv => Order  BY <1>1
  <1>3. Inv /\ [Next]_vars => [Order]_vars
    <2> HIDE DEF Order
    <2> QED  BY <1>2
  <1>4. Spec => [][Order]_vars
    <2> HIDE DEF Order
    <2> QED  BY <1>3, Invariance, PTL DEF Spec
  <1> QED  BY <1>4 DEF NoRepeat
=============================================================================
