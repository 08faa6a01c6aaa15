--------------------------- MODULE EventRingProofs --------------------------
(***************************************************************************)
(* Proofs about the replay buffer: for every capacity, every set of event  *)
(* ids and every time to live, the circular array implements the log of    *)
(* module EventLog, and ReplaySince answers from it exactly what the log   *)
(* says.                                                                   *)
(***************************************************************************)
EXTENDS EventRing, SequenceTheorems, WellFoundedInduction, TLAPS

(* The index arithmetic.                                                   *)

\* Less than twice the capacity, a remainder is the number itself or one
\* capacity less.
LEMMA ModTwice ==
    ASSUME NEW x \in Nat, x < 2 * Capacity
    PROVE  x % Capacity = IF x < Capacity THEN x ELSE x - Capacity
  BY CapacityAssumption

\* The array index of the i-th oldest of c entries before the write index h,
\* without remainders.
Slot(h, c, i) ==
    LET first == IF c <= h THEN h - c ELSE h - c + Capacity
    IN  IF first + i < Capacity THEN first + i ELSE first + i - Capacity

\* startIdx and the loop index of ReplaySince lead to that slot.
LEMMA SlotIndex ==
    ASSUME NEW h \in 0..(Capacity - 1), NEW c \in 0..Capacity, NEW i \in 0..(Capacity - 1)
    PROVE  /\ (((h - c + Capacity) % Capacity) + i) % Capacity = Slot(h, c, i)
           /\ Slot(h, c, i) \in 0..(Capacity - 1)
<1> DEFINE x == h - c + Capacity
           s == x % Capacity
           y == s + i
           r == y % Capacity
<1> HIDE DEF s
<1>1. x \in Nat /\ x < 2 * Capacity
  BY CapacityAssumption
<1>2. s = IF c <= h THEN h - c ELSE h - c + Capacity
  BY <1>1, ModTwice, CapacityAssumption DEF s
<1>3. s \in 0..(Capacity - 1)
  BY <1>2, CapacityAssumption
<1>4. y \in Nat /\ y < 2 * Capacity
  BY <1>3, CapacityAssumption
<1> HIDE DEF y, r
<1>5. r = IF y < Capacity THEN y ELSE y - Capacity
  BY <1>4, ModTwice DEF r
<1>6. r = Slot(h, c, i)
  BY <1>2, <1>5, CapacityAssumption DEF Slot, y
<1>7. Slot(h, c, i) \in 0..(Capacity - 1)
  BY <1>4, <1>5, <1>6, CapacityAssumption
<1> QED
  BY <1>6, <1>7 DEF s, y, r

-----------------------------------------------------------------------------
(* Types.                                                                  *)

\* The fields keep their types; in particular the write index never leaves
\* the array.
LEMMA TypeStep == TypeOK /\ [Next]_vars => TypeOK'
<1> SUFFICES ASSUME TypeOK, [Next]_vars PROVE TypeOK'
  OBVIOUS
<1>1. CASE Tick
  BY <1>1 DEF Tick, TypeOK
<1>2. ASSUME NEW id \in Ids, Add(id) PROVE TypeOK'
  <2>1. head' \in 0..(Capacity - 1)
    BY <1>2, ModTwice, CapacityAssumption DEF Add, TypeOK
  <2>2. [id |-> id, createdAt |-> now] \in Entry
    BY DEF TypeOK, Entry
  <2> QED
    BY <1>2, <2>1, <2>2, CapacityAssumption DEF Add, TypeOK
<1>3. CASE UNCHANGED vars
  BY <1>3 DEF vars, TypeOK
<1> QED
  BY <1>1, <1>2, <1>3 DEF Next

\* Throughout every behaviour the fields keep their types.
THEOREM Typing == Spec => []TypeOK
<1>1. Init => TypeOK
  BY CapacityAssumption DEF Init, TypeOK
<1> QED
  BY <1>1, TypeStep, PTL DEF Spec

-----------------------------------------------------------------------------
(* The refinement.                                                         *)

\* The log the array stands for.
ringLog == [i \in 1..count |-> At(i - 1)]

\* The log as a function of the slots.
LEMMA RingLogSlots ==
    ASSUME TypeOK
    PROVE  /\ ringLog = [i \in 1..count |-> entries[Slot(head, count, i - 1)]]
           /\ ringLog \in Seq(Entry \cup {NoEntry})
           /\ Len(ringLog) = count
<1>1. ASSUME NEW i \in 1..count
      PROVE  /\ At(i - 1) = entries[Slot(head, count, i - 1)]
             /\ At(i - 1) \in Entry \cup {NoEntry}
  <2>1. i - 1 \in 0..(Capacity - 1)
    BY CapacityAssumption DEF TypeOK
  <2> QED
    BY <2>1, SlotIndex DEF At, startIdx, TypeOK
<1> QED
  BY <1>1 DEF ringLog, TypeOK

\* The write index moves on by one, around the end of the array.
LEMMA HeadStep ==
    ASSUME TypeOK, NEW id \in Ids, Add(id)
    PROVE  head' = IF head + 1 < Capacity THEN head + 1 ELSE 0
<1> DEFINE x == head + 1
<1>1. x \in Nat /\ x < 2 * Capacity /\ head < Capacity
  BY CapacityAssumption DEF TypeOK
<1>2. head' = x % Capacity
  BY DEF Add
<1> HIDE DEF x
<1>3. head' = IF x < Capacity THEN x ELSE x - Capacity
  BY <1>1, <1>2, ModTwice
<1> QED
  BY <1>1, <1>3, CapacityAssumption DEF x, TypeOK

\* Add appends to the log and, when the array is full, drops its oldest entry.
LEMMA AddAppends ==
    ASSUME TypeOK, TypeOK', NEW id \in Ids, Add(id)
    PROVE  ringLog' = Append(IF Len(ringLog) = Capacity THEN Tail(ringLog) ELSE ringLog,
                             [id |-> id, createdAt |-> now])
<1> DEFINE E == Entry \cup {NoEntry}
           new == [id |-> id, createdAt |-> now]
           kept == IF Len(ringLog) = Capacity THEN Tail(ringLog) ELSE ringLog
           slot(i) == Slot(head', count', i - 1)
<1>0. head' = IF head + 1 < Capacity THEN head + 1 ELSE 0
  BY HeadStep
<1>1. /\ ringLog = [i \in 1..count |-> entries[Slot(head, count, i - 1)]]
      /\ ringLog \in Seq(E) /\ Len(ringLog) = count
  BY RingLogSlots
<1>2. ASSUME NEW i \in 1..count'
      PROVE  /\ ringLog'[i] = entries'[slot(i)]
             /\ ringLog'[i] \in E
  <2>1. i - 1 \in 0..(Capacity - 1)
    BY CapacityAssumption DEF TypeOK
  <2>2. At(i - 1)' = entries'[slot(i)] /\ slot(i) \in 0..(Capacity - 1)
    BY <2>1, SlotIndex DEF At, startIdx, TypeOK
  <2> QED
    BY <2>2 DEF ringLog, TypeOK
<1>3. ringLog' \in Seq(E) /\ Len(ringLog') = count'
  BY <1>2 DEF ringLog, TypeOK
<1>4. new \in E
  BY DEF Entry, TypeOK
<1>5. kept \in Seq(E) /\ Append(kept, new) = ringLog'
  <2>1. CASE count < Capacity
    <3>1. count' = count + 1
      BY <2>1 DEF Add
    <3>2. kept = ringLog
      BY <1>1, <2>1, CapacityAssumption DEF TypeOK
    <3>3. \A i \in 1..count : slot(i) = Slot(head, count, i - 1) /\ slot(i) # head /\ slot(i) \in 0..(Capacity - 1)
      BY <1>0, <2>1, <3>1, CapacityAssumption DEF Slot, TypeOK
    <3>4. slot(count + 1) = head
      BY <1>0, <2>1, <3>1, CapacityAssumption DEF Slot, TypeOK
    <3>5. \A i \in 1..count : ringLog'[i] = ringLog[i]
      BY <1>1, <1>2, <3>1, <3>3 DEF Add, TypeOK
    <3>6. ringLog'[count + 1] = new
      BY <1>2, <3>1, <3>4 DEF Add, TypeOK
    <3>7. \A i \in 1..(count + 1) : Append(ringLog, new)[i] = ringLog'[i]
      BY <1>1, <1>4, <3>5, <3>6, AppendProperties DEF TypeOK
    <3>8. Append(ringLog, new) \in Seq(E) /\ Len(Append(ringLog, new)) = count + 1
      <4>1. ringLog \in Seq(E) /\ Len(ringLog) = count
        BY <1>1
      <4> HIDE DEF E, new
      <4> QED
        BY <1>4, <4>1, AppendProperties
    <3>9. Append(ringLog, new) = ringLog'
      BY <1>3, <3>1, <3>7, <3>8, SeqEqual
    <3> QED
      BY <1>1, <3>2, <3>9
  <2>2. CASE count = Capacity
    <3>1. count' = count
      BY <2>2 DEF Add, TypeOK
    <3>2. kept = Tail(ringLog)
      BY <1>1, <2>2
    <3>3. \A i \in 1..(count - 1) : slot(i) = Slot(head, count, i) /\ slot(i) # head /\ slot(i) \in 0..(Capacity - 1)
      BY <1>0, <2>2, <3>1, CapacityAssumption DEF Slot, TypeOK
    <3>4. slot(count) = head
      BY <1>0, <2>2, <3>1, CapacityAssumption DEF Slot, TypeOK
    <3>5. \A i \in 1..(count - 1) : ringLog'[i] = ringLog[i + 1]
      BY <1>1, <1>2, <3>1, <3>3, CapacityAssumption DEF Add, TypeOK
    <3>6. ringLog'[count] = new
      BY <1>2, <2>2, <3>1, <3>4, CapacityAssumption DEF Add, TypeOK
    <3>7. ringLog # <<>>
      BY <1>1, <2>2, CapacityAssumption
    <3> HIDE DEF kept
    <3>8. kept \in Seq(E) /\ Len(kept) = count - 1 /\ \A i \in 1..(count - 1) : kept[i] = ringLog[i + 1]
      BY <1>1, <3>2, <3>7, HeadTailProperties
    <3>9. \A i \in 1..count : Append(kept, new)[i] = ringLog'[i]
      BY <1>4, <3>5, <3>6, <3>8, AppendProperties DEF TypeOK
    <3>10. Append(kept, new) \in Seq(E) /\ Len(Append(kept, new)) = count
      BY <1>4, <3>8, AppendProperties DEF TypeOK
    <3> QED
      BY <1>3, <3>1, <3>8, <3>9, <3>10, SeqEqual
  <2>3. count < Capacity \/ count = Capacity
    BY CapacityAssumption DEF TypeOK
  <2> QED
    BY <2>1, <2>2, <2>3
<1> QED
  BY <1>5

\* Every behaviour of the circular array is one of the log: its empty array is
\* the empty log, Add is the log's Add across every wrap of the write index,
\* and time is the log's time.
THEOREM Refinement == Spec => ImplementsLog
<1>1. Init => Log!Init
  BY DEF Init, Log!Init
<1>2. TypeOK /\ TypeOK' /\ [Next]_vars => [Log!Next]_<<ringLog, now>>
  <2> SUFFICES ASSUME TypeOK, TypeOK', [Next]_vars
               PROVE  [Log!Next]_<<ringLog, now>>
    OBVIOUS
  <2>1. CASE Tick
    BY <2>1 DEF Tick, Log!Next, Log!Tick, ringLog, At, startIdx
  <2>2. ASSUME NEW id \in Ids, Add(id) PROVE Log!Add(id)
    <3>1. now' = now
      BY <2>2 DEF Add
    <3>2. ringLog' = Append(IF Len(ringLog) = Capacity THEN Tail(ringLog) ELSE ringLog,
                            [id |-> id, createdAt |-> now])
      BY <2>2, AddAppends
    <3> QED
      BY <3>1, <3>2 DEF Log!Add, ringLog
  <2>3. CASE UNCHANGED vars
    BY <2>3 DEF vars, ringLog, At, startIdx
  <2> QED
    BY <2>1, <2>2, <2>3 DEF Next, Log!Next
<1>3. Spec => []TypeOK
  BY Typing
<1> QED
  BY <1>1, <1>2, <1>3, PTL DEF Spec, ImplementsLog, Log!Spec, ringLog

-----------------------------------------------------------------------------
(* ReplaySince.                                                            *)

\* What makes the answer exact: everything counted was added, no id twice,
\* and in the order of time.
Chronicle ==
    /\ ringLog \in Seq(Entry)
    /\ \A i \in 1..count : ringLog[i].id \in added /\ ringLog[i].createdAt <= now
    /\ \A i, j \in 1..count : i < j => /\ ringLog[i].id # ringLog[j].id
                                     /\ ringLog[i].createdAt <= ringLog[j].createdAt

\* Chronicle holds in every state.
LEMMA ChronicleStep == TypeOK /\ TypeOK' /\ Chronicle /\ [Next]_vars => Chronicle'
<1> SUFFICES ASSUME TypeOK, TypeOK', Chronicle, [Next]_vars PROVE Chronicle'
  OBVIOUS
<1>0. Len(ringLog) = count
  BY RingLogSlots
<1>a. \A i \in 1..count : ringLog[i].createdAt \in Nat
  <2>1. \A i \in 1..count : ringLog[i] \in Entry
    BY <1>0, ElementOfSeq DEF Chronicle
  <2> QED
    BY <2>1 DEF Entry
<1>1. CASE Tick
  <2>1. ringLog' = ringLog /\ count' = count /\ added' = added /\ now' = now + 1
    BY <1>1 DEF Tick, ringLog, At, startIdx
  <2>2. now \in Nat
    BY DEF TypeOK
  <2>3. \A i \in 1..count : ringLog[i].id \in added /\ ringLog[i].createdAt <= now
    BY DEF Chronicle
  <2>4. \A i \in 1..count : ringLog[i].createdAt <= now'
    BY <1>a, <2>1, <2>2, <2>3
  <2>5. /\ ringLog' \in Seq(Entry)
        /\ \A i \in 1..count' : ringLog'[i].id \in added' /\ ringLog'[i].createdAt <= now'
        /\ \A i, j \in 1..count' : i < j => /\ ringLog'[i].id # ringLog'[j].id
                                           /\ ringLog'[i].createdAt <= ringLog'[j].createdAt
    BY <2>1, <2>3, <2>4, Zenon DEF Chronicle
  <2> QED
    BY <2>5 DEF Chronicle
<1>2. ASSUME NEW id \in Ids, Add(id) PROVE Chronicle'
  <2> DEFINE new == [id |-> id, createdAt |-> now]
             kept == IF Len(ringLog) = Capacity THEN Tail(ringLog) ELSE ringLog
  <2>1. ringLog' = Append(kept, new)
    BY <1>2, AddAppends
  <2>2. new \in Entry /\ new.id = id /\ new.createdAt = now
    BY DEF Entry, TypeOK
  <2>3. id \notin added /\ added' = added \cup {id} /\ now' = now
    BY <1>2 DEF Add
  <2>4. ringLog \in Seq(Entry)
    BY DEF Chronicle
  <2>5. PICK d \in {0, 1} : /\ kept \in Seq(Entry) /\ Len(kept) = count - d
                            /\ \A i \in 1..Len(kept) : kept[i] = ringLog[i + d]
    <3>1. CASE count = Capacity
      <4>1. ringLog # <<>> /\ kept = Tail(ringLog)
        BY <1>0, <3>1, CapacityAssumption
      <4> QED
        BY <1>0, <2>4, <4>1, HeadTailProperties
    <3>2. CASE count # Capacity
      <4>1. kept = ringLog
        BY <1>0, <3>2
      <4>2. Len(kept) = count - 0 /\ \A i \in 1..Len(kept) : kept[i] = ringLog[i + 0]
        BY <1>0, <4>1 DEF TypeOK
      <4> QED
        BY <2>4, <4>1, <4>2
    <3> QED
      BY <3>1, <3>2
  <2> DEFINE n == count - d
  <2>6. n \in Nat
    BY <2>5
  <2> HIDE DEF new, kept
  <2>7. count' = n + 1
    <3>1. Len(ringLog') = n + 1
      BY <2>1, <2>2, <2>5, AppendProperties
    <3>2. Len(ringLog') = count'
      BY DEF ringLog, TypeOK
    <3> QED
      BY <3>1, <3>2
  <2>8. /\ ringLog' \in Seq(Entry)
        /\ \A i \in 1..n : ringLog'[i] = ringLog[i + d] /\ i + d \in 1..count
        /\ ringLog'[n + 1] = new
    BY <2>1, <2>2, <2>5, AppendProperties DEF TypeOK
  <2>9. \A i \in 1..(n + 1) : i \in 1..n \/ i = n + 1
    BY <2>6
  <2>11. \A i \in 1..(n + 1) : ringLog'[i].id \in added' /\ ringLog'[i].createdAt <= now'
    <3>1. ASSUME NEW i \in 1..n PROVE ringLog'[i].id \in added' /\ ringLog'[i].createdAt <= now'
      BY <2>3, <2>8 DEF Chronicle
    <3>2. ringLog'[n + 1].id \in added' /\ ringLog'[n + 1].createdAt <= now'
      BY <2>2, <2>3, <2>8 DEF TypeOK
    <3> QED
      BY <2>9, <3>1, <3>2
  <2>12. ASSUME NEW i \in 1..(n + 1), NEW j \in 1..(n + 1), i < j
         PROVE  /\ ringLog'[i].id # ringLog'[j].id
                /\ ringLog'[i].createdAt <= ringLog'[j].createdAt
    <3>1. i \in 1..n
      BY <2>6, <2>12
    <3>2. CASE j = n + 1
      BY <2>2, <2>3, <2>8, <3>1, <3>2 DEF Chronicle
    <3>3. CASE j \in 1..n
      <4>1. i + d < j + d
        BY <2>12
      <4>2. /\ ringLog'[i] = ringLog[i + d] /\ i + d \in 1..count
            /\ ringLog'[j] = ringLog[j + d] /\ j + d \in 1..count
        BY <2>8, <3>1, <3>3
      <4>3. /\ ringLog[i + d].id # ringLog[j + d].id
            /\ ringLog[i + d].createdAt <= ringLog[j + d].createdAt
        BY <4>1, <4>2 DEF Chronicle
      <4> QED
        BY <4>2, <4>3
    <3> QED
      BY <2>9, <3>2, <3>3
  <2> QED
    BY <2>7, <2>8, <2>11, <2>12 DEF Chronicle
<1>3. CASE UNCHANGED vars
  BY <1>3 DEF vars, Chronicle, ringLog, At, startIdx
<1> QED
  BY <1>1, <1>2, <1>3 DEF Next

\* In every state the counted entries are those that were added last, without
\* duplicates and in the order of time.
THEOREM Chronology == Spec => [](TypeOK /\ Chronicle)
<1>1. Init => Chronicle
  BY DEF Init, Chronicle, ringLog
<1> QED
  BY <1>1, ChronicleStep, Typing, PTL DEF Spec

\* A set of natural numbers with an element has a least one; used for
\* induction on the loop of ReplaySince.
LEMMA LeastElement ==
    ASSUME NEW T \in SUBSET Nat, T # {}
    PROVE  \E x \in T : \A y \in T : x <= y
<1>1. PICK x \in T : \A y \in T : ~(<<y, x>> \in OpToRel(<, Nat))
  BY NatLessThanWellFounded, WFMin, Zenon
<1>2. \A y \in T : ~(y < x)
  BY <1>1 DEF OpToRel
<1> QED
  BY <1>2

\* A loop that appends an element in each round has copied all of them in the
\* end.
LEMMA AppendLoop ==
    ASSUME NEW n \in Nat, NEW S, NEW v \in Seq(S), Len(v) = n, NEW g,
           g = [m \in 0..n |-> IF m = 0 THEN <<>> ELSE Append(g[m - 1], v[m])]
    PROVE  g[n] = v
<1> DEFINE good(m) == g[m] \in Seq(S) /\ Len(g[m]) = m /\ \A i \in 1..m : g[m][i] = v[i]
           Bad == {m \in 0..n : ~good(m)}
<1>1. Bad = {}
  <2> SUFFICES ASSUME Bad # {} PROVE FALSE
    OBVIOUS
  <2>1. PICK m \in Bad : \A k \in Bad : m <= k
    <3> HIDE DEF good
    <3>1. Bad \in SUBSET Nat
      OBVIOUS
    <3> HIDE DEF Bad
    <3> QED
      BY <3>1, LeastElement
  <2>2. m # 0
    <3>1. g[0] = <<>>
      OBVIOUS
    <3>2. good(0)
      BY <3>1
    <3> QED
      BY <3>2
  <2>3. m - 1 \in 0..n /\ m \in 1..n
    BY <2>2
  <2>4. g[m] = Append(g[m - 1], v[m]) /\ v[m] \in S
    BY <2>2, <2>3, ElementOfSeq
  <2>5. good(m - 1)
    <3> HIDE DEF good
    <3>1. m - 1 \notin Bad
      BY <2>1, <2>3
    <3> QED
      BY <2>3, <3>1
  <2>6. good(m)
    <3> DEFINE s == g[m - 1]
               t == g[m]
    <3>1. s \in Seq(S) /\ Len(s) = m - 1 /\ \A i \in 1..(m - 1) : s[i] = v[i]
      BY <2>5
    <3>2. t = Append(s, v[m])
      BY <2>4
    <3>4. m \in 1..Len(v)
      BY <2>3
    <3> HIDE DEF s, t
    <3>3. t \in Seq(S) /\ Len(t) = m /\ \A i \in 1..m : t[i] = v[i]
      <4> DEFINE e == v[m]
      <4>1. e \in S /\ t = Append(s, e) /\ s \in Seq(S) /\ Len(s) = m - 1
        BY <2>4, <3>1, <3>2
      <4> HIDE DEF e
      <4>2. /\ t \in Seq(S) /\ Len(t) = Len(s) + 1 /\ t[Len(s) + 1] = e
            /\ \A i \in 1..Len(s) : t[i] = s[i]
        BY <4>1, AppendProperties
      <4>3. m \in Nat /\ Len(s) + 1 = m /\ \A i \in 1..m : i \in 1..(m - 1) \/ i = m
        BY <3>4, <4>1
      <4>4. \A i \in 1..m : t[i] = v[i]
        BY <3>1, <4>1, <4>2, <4>3 DEF e
      <4> QED
        BY <4>2, <4>3, <4>4
    <3> QED
      BY <3>3 DEF t
  <2> QED
    BY <2>6
<1>2. good(n)
  <2> HIDE DEF good
  <2>1. n \in 0..n
    OBVIOUS
  <2> QED
    BY <1>1, <2>1
<1> QED
  <2> DEFINE last == g[n]
  <2> HIDE DEF last
  <2>1. last \in Seq(S) /\ Len(last) = Len(v) /\ \A i \in 1..Len(last) : last[i] = v[i]
    BY <1>2 DEF last
  <2>2. last = v
    BY <2>1, SeqEqual
  <2> QED
    BY <2>2 DEF last

\* The loop of ReplaySince over entries that are all within their time to live
\* returns the ids of all of them, in order.
LEMMA ResultIsAll ==
    ASSUME TypeOK, Chronicle, NEW f \in 0..(count - 1),
           \A m \in 1..(count - 1 - f) : WithinTTL(At(f + m))
    PROVE  result(f) = [j \in 1..(count - 1 - f) |-> ringLog[f + 1 + j].id]
<1> DEFINE n == count - 1 - f
           v == [j \in 1..n |-> ringLog[f + 1 + j].id]
           body(g) == [m \in 0..n |-> IF m = 0 THEN <<>>
                                      ELSE IF WithinTTL(At(f + m)) THEN Append(g[m - 1], At(f + m).id)
                                      ELSE g[m - 1]]
           plain(g) == [m \in 0..n |-> IF m = 0 THEN <<>> ELSE Append(g[m - 1], v[m])]
           prefixes == [m \in 0..n |-> [j \in 1..m |-> v[j]]]
           upTo == CHOOSE g : g = body(g)
<1>1. n \in Nat
  BY DEF TypeOK
<1>2. v \in Seq(Ids) /\ Len(v) = n
  <2>1. \A i \in 1..count : ringLog[i] \in Entry
    BY RingLogSlots, ElementOfSeq DEF Chronicle
  <2>2. \A j \in 1..n : f + 1 + j \in 1..count
    BY DEF TypeOK
  <2>3. \A j \in 1..n : ringLog[f + 1 + j].id \in Ids
    BY <2>1, <2>2 DEF Entry
  <2> QED
    BY <1>1, <2>3
<1>3. \A m \in 1..n : At(f + m) = ringLog[f + 1 + m]
  BY DEF ringLog, TypeOK
<1>4. \A g : body(g) = plain(g)
  <2>1. \A m \in 1..n : WithinTTL(At(f + m)) /\ At(f + m).id = v[m]
    BY <1>3
  <2> HIDE DEF v
  <2> QED
    BY <1>1, <2>1
<1>5. result(f) = upTo[n]
  BY Zenon DEF result
<1> HIDE DEF n, v
<1>6. prefixes = plain(prefixes)
  <2>1. ASSUME NEW m \in 1..n
        PROVE  [j \in 1..m |-> v[j]] = Append([j \in 1..(m - 1) |-> v[j]], v[m])
    OBVIOUS
  <2>2. prefixes[0] = <<>>
    BY <1>1
  <2> QED
    BY <1>1, <2>1
<1>7. upTo = plain(upTo)
  BY <1>4, <1>6, Zenon
<1>8. upTo[n] = v
  <2>1. upTo = [m \in 0..n |-> IF m = 0 THEN <<>> ELSE Append(upTo[m - 1], v[m])]
    BY <1>7
  <2> HIDE DEF upTo
  <2> QED
    BY <1>1, <1>2, <2>1, AppendLoop, Zenon
<1> QED
  BY <1>5, <1>8 DEF n, v

\* The search of ReplaySince finds the entry of an event, if there is one.
LEMMA FoundEntry ==
    ASSUME TypeOK, Chronicle, NEW id
    PROVE  \/ foundIdx(id) = -1 /\ \A i \in 1..count : ringLog[i].id # id
           \/ /\ foundIdx(id) \in 0..(count - 1)
              /\ \A i \in 1..count : ringLog[i].id = id <=> i = foundIdx(id) + 1
<1> DEFINE hits == {i \in 0..(count - 1) : At(i).id = id}
<1>1. \A i \in 0..(count - 1) : At(i) = ringLog[i + 1]
  BY DEF ringLog, TypeOK
<1>2. \A i \in 1..count : i - 1 \in 0..(count - 1)
  BY DEF TypeOK
<1>3. CASE hits = {}
  <2>1. foundIdx(id) = -1
    BY <1>3 DEF foundIdx
  <2>2. ASSUME NEW i \in 1..count PROVE ringLog[i].id # id
    <3>1. i - 1 \in 0..(count - 1) /\ i = (i - 1) + 1
      BY <1>2
    <3>2. At(i - 1) = ringLog[i] /\ At(i - 1).id # id
      BY <1>1, <1>3, <3>1
    <3> QED
      BY <3>2
  <2> QED
    BY <2>1, <2>2
<1>4. ASSUME NEW f \in hits PROVE
             /\ foundIdx(id) = f /\ f \in 0..(count - 1)
             /\ \A i \in 1..count : ringLog[i].id = id <=> i = f + 1
  <2>1. f \in 0..(count - 1) /\ ringLog[f + 1].id = id /\ f + 1 \in 1..count
    BY <1>1 DEF TypeOK
  <2>2. \A i \in 1..count : ringLog[i].id = id => i = f + 1
    BY <2>1 DEF Chronicle, TypeOK
  <2>3. hits = {f}
    <3>1. ASSUME NEW i \in hits PROVE i = f
      <4>1. i + 1 \in 1..count /\ ringLog[i + 1].id = id
        BY <1>1 DEF TypeOK
      <4> QED
        BY <2>2, <4>1 DEF TypeOK
    <3> QED
      BY <3>1
  <2>4. foundIdx(id) = CHOOSE i \in hits : \A j \in hits : i <= j
    BY <2>3 DEF foundIdx
  <2> HIDE DEF hits
  <2>5. foundIdx(id) = f
    BY <2>1, <2>3, <2>4
  <2> QED
    BY <2>1, <2>2, <2>5
<1> QED
  BY <1>3, <1>4

\* The answer in a state with the invariant.
LEMMA ReplayAnswer ==
    ASSUME TypeOK, Chronicle, NEW id \in Ids
    PROVE  ReplaySince(id) = Log!EventsAfter(id)
<1> DEFINE f == foundIdx(id)
           at == {i \in DOMAIN ringLog : ringLog[i].id = id /\ Log!Fresh(ringLog[i])}
<1>0. DOMAIN ringLog = 1..count /\ Len(ringLog) = count
  BY RingLogSlots DEF ringLog, TypeOK
<1>1. \A i \in 1..count : WithinTTL(ringLog[i]) <=> Log!Fresh(ringLog[i])
  <2>1. \A i \in 1..count : ringLog[i] \in Entry /\ ringLog[i].createdAt <= now
    BY <1>0, ElementOfSeq DEF Chronicle
  <2>2. \A i \in 1..count : ringLog[i].createdAt \in Nat
    BY <2>1 DEF Entry
  <2> QED
    BY <2>1, <2>2 DEF WithinTTL, Log!Fresh, TypeOK
<1>2. Log!EventsAfter(id) =
        IF at = {} THEN Miss
        ELSE LET i == CHOOSE i \in at : TRUE IN [j \in 1..(Len(ringLog) - i) |-> ringLog[i + j].id]
  BY Zenon DEF Log!EventsAfter, ringLog
<1>3. CASE f = -1 /\ \A i \in 1..count : ringLog[i].id # id
  <2>1. at = {}
    BY <1>0, <1>3
  <2> QED
    BY <1>2, <1>3, <2>1 DEF ReplaySince
<1>4. CASE f \in 0..(count - 1) /\ \A i \in 1..count : ringLog[i].id = id <=> i = f + 1
  <2>1. f + 1 \in 1..count /\ f # -1 /\ At(f) = ringLog[f + 1]
    BY <1>4 DEF ringLog, TypeOK
  <2> HIDE DEF f
  <2>2. CASE ~WithinTTL(At(f))
    <3>1. at = {}
      BY <1>0, <1>1, <1>4, <2>1, <2>2
    <3> QED
      BY <1>2, <2>2, <3>1 DEF ReplaySince, f
  <2>3. CASE WithinTTL(At(f))
    <3>1. at = {f + 1}
      BY <1>0, <1>1, <1>4, <2>1, <2>3
    <3>2. (CHOOSE i \in at : TRUE) = f + 1
      BY <3>1
    <3>3. Log!EventsAfter(id) = [j \in 1..(count - 1 - f) |-> ringLog[f + 1 + j].id]
      <4>1. count - (f + 1) = count - 1 - f
        BY <1>4 DEF TypeOK
      <4> HIDE DEF at
      <4> QED
        BY <1>0, <1>2, <3>1, <3>2, <4>1
    <3>4. ASSUME NEW m \in 1..(count - 1 - f) PROVE WithinTTL(At(f + m))
      <4>1. f + 1 + m \in 1..count /\ f + 1 < f + 1 + m /\ f + m \in 0..(count - 1)
        BY <1>4 DEF TypeOK
      <4>2. At(f + m) = ringLog[f + 1 + m]
        BY <1>4, <4>1 DEF ringLog, TypeOK
      <4>3. /\ ringLog[f + 1] \in Entry /\ ringLog[f + 1 + m] \in Entry
            /\ ringLog[f + 1].createdAt <= ringLog[f + 1 + m].createdAt
            /\ ringLog[f + 1 + m].createdAt <= now
        BY <1>0, <2>1, <4>1, ElementOfSeq DEF Chronicle
      <4>4. ringLog[f + 1].createdAt \in Nat /\ ringLog[f + 1 + m].createdAt \in Nat
        BY <4>3 DEF Entry
      <4>5. now - ringLog[f + 1].createdAt <= TTL
        BY <2>1, <2>3 DEF WithinTTL
      <4>6. /\ now - ringLog[f + 1 + m].createdAt >= 0
            /\ now - ringLog[f + 1 + m].createdAt <= TTL
        BY <4>3, <4>4, <4>5, TTLAssumption DEF TypeOK
      <4> QED
        BY <4>2, <4>6 DEF WithinTTL
    <3>5. ReplaySince(id) = result(f)
      BY <2>1, <2>3 DEF ReplaySince, f
    <3> QED
      BY <1>4, <3>3, <3>4, <3>5, ResultIsAll
  <2> QED
    BY <2>2, <2>3
<1> QED
  BY <1>3, <1>4, FoundEntry

\* A client that names an event the server still remembers gets exactly the
\* events after it, in order and with no gap, and any other client a miss.
THEOREM Exactness == Spec => []ReplayExact
<1>1. TypeOK /\ Chronicle => ReplayExact
  BY ReplayAnswer DEF ReplayExact
<1> QED
  BY <1>1, Chronology, PTL
=============================================================================
