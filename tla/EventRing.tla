----------------------------- MODULE EventRing ------------------------------
(***************************************************************************)
(* RingBuffer of internal/events/ring.go: a circular array with a write    *)
(* index and a count, searched from the oldest entry on.                   *)
(***************************************************************************)
EXTENDS Integers, Sequences

CONSTANTS
    Ids,       \* event ids
    Capacity,  \* length of the array
    TTL,       \* ttl
    Miss,      \* the result (nil, false)
    NoEntry,   \* the zero ringEntry
    MaxTime    \* bound: clock readings of one behaviour

ASSUME CapacityAssumption == Capacity \in Nat \ {0}
ASSUME TTLAssumption == TTL \in Nat /\ MaxTime \in Nat

VARIABLES
    entries, head, count,
    now,       \* nowFunc()
    added      \* history: ids that were published

vars == <<entries, head, count, now, added>>

Init ==
    /\ entries = [i \in 0..(Capacity - 1) |-> NoEntry]
    /\ head = 0
    /\ count = 0
    /\ now = 0
    /\ added = {}

\* Fault: a full ring writes to one slot only.
Add_HeadStays(id) ==
    /\ id \notin added
    /\ added' = added \cup {id}
    /\ entries' = [entries EXCEPT ![head] = [id |-> id, createdAt |-> now]]
    /\ head' = IF count < Capacity THEN (head + 1) % Capacity ELSE head
    /\ count' = IF count < Capacity THEN count + 1 ELSE count
    /\ UNCHANGED now

\* Add: createdAt is read under the lock.
Add(id) ==
    /\ id \notin added
    /\ added' = added \cup {id}
    /\ entries' = [entries EXCEPT ![head] = [id |-> id, createdAt |-> now]]
    /\ head' = (head + 1) % Capacity
    /\ count' = IF count < Capacity THEN count + 1 ELSE count
    /\ UNCHANGED now

Tick ==
    /\ now < MaxTime
    /\ now' = now + 1
    /\ UNCHANGED <<entries, head, count, added>>

Next == Tick \/ \E id \in Ids : Add(id)

Spec == Init /\ [][Next]_vars

-----------------------------------------------------------------------------
(* ReplaySince.                                                            *)

startIdx == (head - count + Capacity) % Capacity
At(i) == entries[(startIdx + i) % Capacity]
WithinTTL(entry) == now - entry.createdAt >= 0 /\ now - entry.createdAt <= TTL

\* The offset of the first entry with the id, -1 if there is none.
foundIdx(id) ==
    LET hits == {i \in 0..(count - 1) : At(i).id = id} IN
    IF hits = {} THEN -1 ELSE CHOOSE i \in hits : \A j \in hits : i <= j

\* The loop that collects the events after an offset, by the number of
\* entries looked at; expired ones would be skipped.
result(found) ==
    LET upTo[n \in 0..(count - 1 - found)] ==
            IF n = 0 THEN <<>>
            ELSE IF WithinTTL(At(found + n)) THEN Append(upTo[n - 1], At(found + n).id)
            ELSE upTo[n - 1]
    IN  upTo[count - 1 - found]

\* Fault: the event the client already has is sent again.
ReplaySince_Inclusive(id) ==
    IF foundIdx(id) = -1 \/ ~WithinTTL(At(foundIdx(id))) THEN Miss
    ELSE result(foundIdx(id) - 1)

\* ReplaySince: a miss without the entry or with an expired one.
ReplaySince(id) ==
    IF foundIdx(id) = -1 \/ ~WithinTTL(At(foundIdx(id))) THEN Miss
    ELSE result(foundIdx(id))

-----------------------------------------------------------------------------
(* Properties.                                                             *)

Entry == [id: Ids, createdAt: Nat]

\* The types of the ring buffer's fields.
TypeOK ==
    /\ entries \in [0..(Capacity - 1) -> Entry \cup {NoEntry}]
    /\ head \in 0..(Capacity - 1)
    /\ count \in 0..Capacity
    /\ now \in Nat
    /\ added \subseteq Ids

Log == INSTANCE EventLog WITH log <- [i \in 1..count |-> At(i - 1)]

\* The circular array is the log of the last Capacity events, across every
\* wrap of the write index.
ImplementsLog == Log!Spec

\* A client that names an event the server still remembers gets exactly the
\* events after it, with no gap, and any other client a miss.
ReplayExact == \A id \in Ids : ReplaySince(id) = Log!EventsAfter(id)
=============================================================================
