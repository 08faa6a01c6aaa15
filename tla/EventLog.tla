------------------------------ MODULE EventLog ------------------------------
(***************************************************************************)
(* What the replay buffer promises: the last Capacity events in the order  *)
(* they were added, each with the time it was added, and for a known event *)
(* everything that came after it.                                          *)
(***************************************************************************)
EXTENDS Integers, Sequences

CONSTANTS
    Ids,       \* event ids
    Capacity,  \* events kept
    TTL,       \* how long an event can be resumed from
    Miss       \* the answer to a client that has to be hydrated

VARIABLES log, now

Entry == [id: Ids, createdAt: Nat]

Init == log = <<>> /\ now = 0

Add(id) ==
    /\ log' = Append(IF Len(log) = Capacity THEN Tail(log) ELSE log, [id |-> id, createdAt |-> now])
    /\ UNCHANGED now

Tick == now' = now + 1 /\ UNCHANGED log

Next == Tick \/ \E id \in Ids : Add(id)

Spec == Init /\ [][Next]_<<log, now>>

-----------------------------------------------------------------------------
Fresh(entry) == now - entry.createdAt <= TTL

\* Everything after the event, if it is still there and fresh.  Time does not
\* run backwards, so whatever is after it is fresh too.
EventsAfter(id) ==
    LET at == {i \in DOMAIN log : log[i].id = id /\ Fresh(log[i])} IN
    IF at = {} THEN Miss
    ELSE LET i == CHOOSE i \in at : TRUE IN [j \in 1..(Len(log) - i) |-> log[i + j].id]
=============================================================================
