------------------------------ MODULE PhotoDeck ------------------------------
(***************************************************************************)
(* The dealing of photos by the photo-carousel provider                    *)
(* (internal/provider/photos.go, reconcilePhotoDeck, selectAlbumWindow and *)
(* peekWindow).  The deck holds one photo for every slot, a slot being one *)
(* day of one album; a window of at most Limit photos is dealt from the    *)
(* cursor on and the deck is reshuffled when it is used up.                *)
(*                                                                         *)
(* An item is a photo as one album knows it: [key, day, album].  The random *)
(* choices of the code (r.Shuffle, r.Intn) are nondeterministic here: an   *)
(* operator returns the set of the outcomes it may have.                   *)
(***************************************************************************)
EXTENDS Integers, Sequences, FiniteSets, SequencesExt, FiniteSetsExt

CONSTANTS AlbumSeq,     \* the configured albums, in their order
          Limit         \* defaultPhotoPreloadCount

ASSUME DeckAssumption == /\ IsInjective(AlbumSeq)
                         /\ Limit \in Nat \ {0}

Keys(items) == {x.key : x \in items}

\* photoSlotKey: the day and the album of an item.
Slot(x) == <<x.day, x.album>>

Slots(items) == {Slot(x) : x \in items}

\* extractExistingDeckState: the items of the old deck that are still there, as they are now.
Surviving(deck, items) ==
  LET there == SelectSeq(deck, LAMBDA x : x.key \in Keys(items))
  IN  [i \in DOMAIN there |-> CHOOSE x \in items : x.key = there[i].key]

\* The first of several survivors of one slot keeps the slot.
FirstOfSlot(kept, s) == kept[Min({i \in DOMAIN kept : Slot(kept[i]) = s})]

DistinctDays(kept) ==
  LET isFirst(i) == \A j \in 1..(i - 1) : kept[j].day # kept[i].day
      first == SelectSeq([i \in DOMAIN kept |-> i], isFirst)
  IN  [n \in DOMAIN first |-> kept[first[n]].day]

\* The slots of the given days, day by day and in the order of the albums.
SlotOrder(days, items) ==
  LET n == Len(AlbumSeq)
      all == [i \in 1..(Len(days) * n) |->
                <<days[((i - 1) \div n) + 1], AlbumSeq[((i - 1) % n) + 1]>>]
  IN  SelectSeq(all, LAMBDA s : s \in Slots(items))

\* Fault: every reconciliation starts the deck from its beginning.
MovedCursor_Rewinds(old, cursor, new) ==
  LET gone == {i \in 1..Min({cursor, Len(old)}) : old[i].key \notin Keys(Range(new))}
  IN  Min({0, Cardinality(gone)})

\* The cursor moves back by one for each photo before it that is no longer in the deck.
MovedCursor(old, cursor, new) ==
  LET gone == {i \in 1..Min({cursor, Len(old)}) : old[i].key \notin Keys(Range(new))}
  IN  Max({0, Min({cursor - Cardinality(gone), Len(new)})})

\* One photo for every slot: the one the deck has kept, or any one of a new slot.
Picks(kept, items) ==
  {pick \in SUBSET items :
     /\ Cardinality(Slots(pick)) = Cardinality(pick)
     /\ Slots(pick) = Slots(items)
     /\ \A s \in Slots(Range(kept)) : FirstOfSlot(kept, s) \in pick}

\* The days already dealt from in their order, the new ones after them in any order.
DayOrders(kept, items) ==
  {DistinctDays(kept) \o shuffled :
     shuffled \in SetToSeqs({x.day : x \in items} \ {x.day : x \in Range(kept)})}

Arranged(order, pick) ==
  [i \in DOMAIN order |-> CHOOSE x \in pick : Slot(x) = order[i]]

\* reconcilePhotoDeck: days already dealt from keep their order and their photos, new days
\* follow in a random order, a new slot draws one of its photos.
Reconciled(deck, cursor, items) ==
  LET decks(kept) == {Arranged(order, pick) :
                        order \in {SlotOrder(days, items) : days \in DayOrders(kept, items)},
                        pick \in Picks(kept, items)}
  IN  {[deck |-> d, cursor |-> MovedCursor(deck, cursor, d)] :
         d \in UNION {decks(kept) : kept \in {Surviving(deck, items)}}}

\* The fresh deck after a window that ends exactly with the old one must not begin with the
\* photo that was shown last.
Reshuffled(d, tail) ==
  IF Len(d) > 1 /\ Head(d).key = Last(tail).key
    THEN [d EXCEPT ![1] = Last(d), ![Len(d)] = Head(d)] ELSE d

\* Fault: the fresh deck is appended with the slots the window already shows.
Refilled_Repeats(d, tail) == tail \o d

\* A window that runs past the end of the deck goes on with a fresh deck without the slots
\* it already shows.
Refilled(d, tail) == tail \o SelectSeq(d, LAMBDA x : Slot(x) \notin Slots(Range(tail)))

\* selectAlbumWindowLocked on a deck that has just been reconciled.
Dealt(deck, start, items) ==
  LET limit == Min({Len(deck), Limit})
      tails == {SubSeq(deck, start + 1, Len(deck))}
      fresh == {r.deck : r \in Reconciled(<<>>, 0, items)}
  IN  IF limit = Len(deck)
        THEN {[deck |-> deck, cursor |-> 0, window |-> deck]}
      ELSE IF start + limit < Len(deck)
        THEN {[deck |-> deck, cursor |-> start + limit,
               window |-> SubSeq(deck, start + 1, start + limit)]}
      ELSE IF start + limit = Len(deck)
        THEN {[deck |-> Reshuffled(d, tail), cursor |-> 0, window |-> tail] :
                d \in fresh, tail \in tails}
      ELSE {[deck |-> next, cursor |-> limit, window |-> SubSeq(next, 1, limit)] :
              next \in {Refilled(d, tail) : d \in fresh, tail \in tails}}

\* dealWindowLocked.
Deal(deck, cursor, items) ==
  IF Cardinality(items) <= 1
    THEN {[deck |-> <<>>, cursor |-> 0, window |-> SetToSeq(items)]}
    ELSE UNION {Dealt(r.deck, IF r.cursor >= Len(r.deck) THEN 0 ELSE r.cursor, items) :
                  r \in Reconciled(deck, cursor, items)}

\* peekWindowLocked: the window the next deal would begin with, without dealing it.
Peek(deck, cursor, items) ==
  LET from  == IF deck = <<>> THEN SetToSeq(items) ELSE deck
      start == IF cursor >= Len(deck) THEN 0 ELSE cursor
  IN  SubSeq(from \o from, start + 1, start + Min({Len(from), Limit}))
=============================================================================
