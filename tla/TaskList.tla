------------------------------ MODULE TaskList ------------------------------
(***************************************************************************)
(* From the pages an upstream service returns to the list on the screen:   *)
(* internal/tasks/model.go and the ordering of the two adapters            *)
(* (internal/tasks/adapters/gtasks.go, todoist.go).                        *)
(*                                                                         *)
(* An entry is [id, st] where st is "open" or "done"; ids are numbered in  *)
(* the order of the positions upstream gives to siblings.                  *)
(***************************************************************************)
EXTENDS Integers, Sequences, SequencesExt, FiniteSets

CONSTANTS
  NumItems,       \* items are numbered from 1
  Parent,         \* the item an item is a subtask of, 0 for none
  ShowCompleted   \* how many completed items are shown

ASSUME ItemsAssumption == NumItems \in Nat

Items == 1..NumItems

\* The services keep a tree: every subtask has a depth below its parent's.
ASSUME ParentAssumption ==
  /\ Parent \in [Items -> Items \cup {0}]
  /\ \E depth \in [Items -> 0..NumItems] :
       \A i \in Items : Parent[i] # 0 => depth[Parent[i]] < depth[i]
ASSUME ShowCompletedAssumption == ShowCompleted \in Nat

Statuses == {"open", "done"}
Entry == [id : Items, st : Statuses]

IdsOf(s) == {e.id : e \in ToSet(s)}

\* The elements of s at the places in K, gathered in a loop.
Pick(s, K) ==
  LET upTo[n \in 0..Len(s)] ==
        IF n = 0 THEN <<>> ELSE IF n \in K THEN Append(upTo[n - 1], s[n]) ELSE upTo[n - 1]
  IN  upTo[Len(s)]

Only(s, st) == Pick(s, {k \in DOMAIN s : s[k].st = st})

\* Where an item stands in the tree of the items S: its ancestors among them, from the
\* top, and itself.  An item whose parent is not in the list is at the top level.
Path(S) ==
  LET path[i \in S] == IF Parent[i] \in S THEN Append(path[Parent[i]], i) ELSE <<i>>
  IN  path

\* The order of a walk that visits an item, then its subtasks by position.
Before(p, q) ==
  \/ IsStrictPrefix(p, q)
  \/ \E k \in DOMAIN p \cap DOMAIN q : p[k] < q[k] /\ SubSeq(p, 1, k - 1) = SubSeq(q, 1, k - 1)

\* Fault: the walk does not remember which items it has visited.
FirstVisits_All(s) == DOMAIN s

\* The walk goes past an item it has visited.
FirstVisits(s) == {k \in DOMAIN s : \A j \in DOMAIN s : s[j].id = s[k].id => k <= j}

\* The places of s in the order in which the walk visits them.
Walks(s) ==
  LET path == Path(IdsOf(s))
      places == FirstVisits(s)
  IN  {walk \in Bijection(1..Cardinality(places), places) :
         \A m, n \in DOMAIN walk : m < n => ~Before(path[s[walk[n]].id], path[s[walk[m]].id])}

\* Every item is followed by its subtasks, each once: the result, in a set.
OrderTasks(s) ==
  IF Len(s) <= 1 THEN {s} ELSE {[n \in DOMAIN walk |-> s[walk[n]]] : walk \in Walks(s)}

\* The completed items of Todoist come from a list of their own; an item seen among
\* the open ones stays open.
Merge(open, completed) ==
  open \o Pick(completed, {k \in DOMAIN completed : completed[k].id \notin IdsOf(open)})

\* The snapshots BuildSnapshot can return: open items in their order, then the
\* ShowCompleted most recently completed ones (times are left out: any of them).
BuildSnapshot(s) ==
  LET completed == {e \in ToSet(s) : e.st = "done"}
      kept == {S \in SUBSET completed :
                 Cardinality(S) = IF Cardinality(completed) > ShowCompleted
                                  THEN ShowCompleted ELSE Cardinality(completed)}
  IN  {Only(s, "open") \o Pick(s, {k \in DOMAIN s : s[k] \in S}) : S \in kept}
=============================================================================
