--------------------------- MODULE PhotosProvider ---------------------------
(***************************************************************************)
(* The photo-carousel provider (internal/provider/photos.go,               *)
(* photos_cache.go): albums that are scraped from a share link and cached  *)
(* on disk, albums that are pushed to the server, and the deck the windows *)
(* of the screen are dealt from.                                           *)
(*                                                                         *)
(* Two threads use the provider: the coordinator's worker calls Fetch, the *)
(* goroutine of Subscribe synchronises with upstream on a ticker.  Sync    *)
(* runs under syncMu and takes mu only for short sections, so a step of    *)
(* this model is one section under mu, one request or one file write.      *)
(*                                                                         *)
(* Photos are numbers, a larger one being newer; upstream lists the newest *)
(* first, PageSize to a page.  A scraped photo has the day Day[p]; a pushed *)
(* one has no timestamp and is a day of its own.                           *)
(***************************************************************************)
EXTENDS PhotoDeck

CONSTANTS Share,          \* the share_url albums; the others are ember_bridge albums
          AlbumPhotos,    \* the photos upstream may have, per share album
          Initially,      \* the photos it has at first
          Pushable,       \* the lists of photos that may be pushed
          Day,            \* the day each photo was taken
          PageSize,       \* photos on a page of upstream
          MaxPages,       \* the page limit of paginateSnAcKc
          BatchSize,      \* photos in a request of enrichPhotoLocations
          MaxChanges,     \* bound on changes of upstream
          MaxFaults,      \* bound on failing requests and writes
          MaxRestarts,    \* bound on restarts of the server
          MaxPushes       \* bound on pushes

NoToken == 0              \* there is no further page

Free == "free"            \* syncMu is not held

Threads == {"fetch", "sub"}

Ember == Range(AlbumSeq) \ Share

ASSUME PhotosAssumption ==
  /\ Share \subseteq Range(AlbumSeq) /\ Share # {} /\ Cardinality(Ember) <= 1
  /\ \A a \in Share : Initially[a] \subseteq AlbumPhotos[a] /\ AlbumPhotos[a] \subseteq Nat \ {0}
  /\ {PageSize, MaxPages, BatchSize} \subseteq Nat \ {0}

VARIABLES albums,     \* the albums in memory
          deck, cursor,
          window,     \* the photos of the last payload, what the screen shows
          disk,       \* the cache file of each share album
          upstream,   \* the photos of each share album at Google
          pc,         \* where each thread is
          wants,      \* whether the Sync a thread has asked for is a full one
          sync,       \* the Sync that holds syncMu
          warm,       \* wasWarmBoot
          changes, faults, restarts, pushes,
          outdated    \* history: albums whose last write of the cache failed

mem == <<albums, deck, cursor, window, pc, wants, sync, warm>>
env == <<upstream, changes, restarts, pushes>>
files == <<disk, outdated>>
vars == <<mem, env, files, faults>>

EmptyAlbum == [photos |-> {}, checked |-> {}, lastFull |-> "never",
               paginated |-> FALSE, hydrated |-> FALSE]

NoSync == [by |-> Free, todo |-> <<>>, phase |-> "none", page1 |-> {}, token |-> NoToken]

\* The photo as album a knows it.
Item(a, p) == [key |-> p, album |-> a,
               day |-> IF a \in Share THEN <<Day[p], 0>> ELSE <<"undated", p>>]

\* collectAllUniquePhotosLocked: a photo of several albums belongs to the first.
Unique(as) ==
  LET before(i) == UNION {as[AlbumSeq[k]].photos : k \in 1..(i - 1)}
  IN  UNION {{Item(AlbumSeq[i], p) : p \in as[AlbumSeq[i]].photos \ before(i)} :
               i \in DOMAIN AlbumSeq}

-----------------------------------------------------------------------------
(* Upstream.                                                               *)

Newest(S, n) == {p \in S : Cardinality({q \in S : q > p}) < n}

\* scrapePage1: the first page and the token of the next one, if there is one.
Page1(a) == Newest(upstream[a], PageSize)

Token(a) == IF Page1(a) = upstream[a] THEN NoToken ELSE Min(Page1(a))

\* paginateSnAcKc: the photos of the n pages after the token.
Pages(a, token, n) ==
  IF token = NoToken THEN {} ELSE Newest({p \in upstream[a] : p < token}, n * PageSize)

\* The photos a full synchronisation can reach.
Reachable(a) == Newest(upstream[a], (MaxPages + 1) * PageSize)

Upload(a, p) ==
  /\ changes < MaxChanges
  /\ p \in AlbumPhotos[a] \ upstream[a]
  /\ upstream' = [upstream EXCEPT ![a] = @ \cup {p}]
  /\ changes' = changes + 1
  /\ UNCHANGED <<mem, files, faults, restarts, pushes>>

Delete(a, p) ==
  /\ changes < MaxChanges
  /\ p \in upstream[a]
  /\ upstream' = [upstream EXCEPT ![a] = @ \ {p}]
  /\ changes' = changes + 1
  /\ UNCHANGED <<mem, files, faults, restarts, pushes>>

\* The requests or writes of a step that fail.
Failures(S) ==
  /\ faults + Cardinality(S) <= MaxFaults
  /\ faults' = faults + Cardinality(S)

\* fullSyncInterval passes, for what is in memory and for what is on disk.
Aged(as) == [a \in DOMAIN as |->
               IF as[a].lastFull = "recent" THEN [as[a] EXCEPT !.lastFull = "due"] ELSE as[a]]

TimePasses ==
  /\ \E a \in Share : "recent" \in {albums[a].lastFull, disk[a].lastFull}
  /\ albums' = Aged(albums)
  /\ disk' = Aged(disk)
  /\ UNCHANGED <<deck, cursor, window, pc, wants, sync, warm, outdated, env, faults>>

-----------------------------------------------------------------------------
(* Sync, under syncMu.                                                     *)

Acquire(t) ==
  /\ pc[t] = "want" /\ sync.by = Free
  /\ sync' = [NoSync EXCEPT !.by = t, !.phase = "scrape",
                            !.todo = SelectSeq(AlbumSeq, LAMBDA a : a \in Share)]
  /\ pc' = [pc EXCEPT ![t] = "sync"]
  /\ UNCHANGED <<albums, deck, cursor, window, wants, warm, files, env, faults>>

NextAlbum(s) == [NoSync EXCEPT !.by = s.by, !.todo = Tail(s.todo),
                               !.phase = IF Len(s.todo) > 1 THEN "scrape" ELSE "reconcile"]

\* Sync returns to the thread that called it.
Release(outcome) ==
  /\ sync' = NoSync
  /\ pc' = [pc EXCEPT ![sync.by] = outcome]
  /\ wants' = [wants EXCEPT ![sync.by] = FALSE]

\* syncAlbum up to the request for the first page.
Scrape ==
  /\ sync.phase = "scrape"
  /\ LET a == Head(sync.todo)
     IN  sync' = [sync EXCEPT !.phase = "store", !.page1 = Page1(a), !.token = Token(a)]
  /\ UNCHANGED <<albums, deck, cursor, window, pc, wants, warm, files, env, faults>>

\* A failing scrape leaves a hydrated album alone and ends the Sync for one that is not.
ScrapeFails ==
  /\ sync.phase = "scrape"
  /\ Failures({"page"})
  /\ IF albums[Head(sync.todo)].hydrated
       THEN sync' = NextAlbum(sync) /\ UNCHANGED <<pc, wants>>
       ELSE Release("failed")
  /\ UNCHANGED <<albums, deck, cursor, window, warm, files, env>>

\* carryCachedPhotoMetadata: what was looked up before is not asked for again.
Carried(old, photos) == old.checked \cap photos

\* enrichPhotoLocations: batch after batch, newest first. A request that fails is the
\* last one, an answer that cannot be read only leaves its batch out.
LookedUp(pending) ==
  LET Batch(i) == Newest(pending, i * BatchSize) \ Newest(pending, (i - 1) * BatchSize)
  IN  {UNION {Batch(i) : i \in I} : I \in SUBSET (1..Cardinality(pending))}

LookupFailed(pending, looked) == IF looked = pending THEN {} ELSE {"locations"}

IsFullSync(a) == wants[sync.by] \/ ~albums[a].hydrated \/ albums[a].lastFull = "never"

\* The locations are looked up, which may fail as the requests before did, and in a
\* section under mu the album becomes what the sync has found.
StoreAlbum(a, photos, complete, failures) ==
  /\ \E pending \in {photos \ Carried(albums[a], photos)} : \E looked \in LookedUp(pending) :
       /\ Failures(failures \cup LookupFailed(pending, looked))
       /\ albums' = [albums EXCEPT ![a] =
            [photos    |-> photos,
             checked   |-> Carried(@, photos) \cup looked,
             lastFull  |-> IF IsFullSync(a) /\ complete THEN "recent" ELSE @.lastFull,
             paginated |-> IF IsFullSync(a) THEN complete ELSE @.paginated,
             hydrated  |-> TRUE]]
  /\ sync' = [sync EXCEPT !.phase = "write"]
  /\ UNCHANGED <<deck, cursor, window, pc, wants, warm, files, env>>

\* syncAlbumFull.  A failing page ends the pagination and the pages before it are used;
\* so does a page that cannot be parsed, but that one counts as the last.
StoreFull ==
  /\ sync.phase = "store"
  /\ IsFullSync(Head(sync.todo))
  /\ LET a == Head(sync.todo)
         found(n) == sync.page1 \cup Pages(a, sync.token, n)
     IN  \/ StoreAlbum(a, found(MaxPages), TRUE, {})
         \/ \E n \in 0..(MaxPages - 1), parsed \in BOOLEAN :
              /\ sync.token # NoToken
              /\ StoreAlbum(a, found(n), ~parsed, {"page"})

\* syncAlbumDelta: the first page is merged into what is known.
StoreDelta ==
  /\ sync.phase = "store"
  /\ ~IsFullSync(Head(sync.todo))
  /\ LET a == Head(sync.todo)
     IN  StoreAlbum(a, sync.page1 \cup albums[a].photos, FALSE, {})

\* Fault: an album some pages of which are missing is not written to the cache.
WriteCache_CompleteOnly ==
  /\ sync.phase = "write"
  /\ LET a == Head(sync.todo)
     IN  \/ /\ disk' = [disk EXCEPT ![a] = IF albums[a].paginated THEN albums[a] ELSE @]
            /\ outdated' = outdated \ {a}
            /\ UNCHANGED faults
         \/ /\ Failures({"cache"})
            /\ outdated' = outdated \cup {a}
            /\ UNCHANGED disk
  /\ sync' = NextAlbum(sync)
  /\ UNCHANGED <<albums, deck, cursor, window, pc, wants, warm, env>>

\* writeAlbumDiskCache: a temporary file is renamed over the cache; a failure is only logged.
WriteCache ==
  /\ sync.phase = "write"
  /\ LET a == Head(sync.todo)
     IN  \/ /\ disk' = [disk EXCEPT ![a] = albums[a]]
            /\ outdated' = outdated \ {a}
            /\ UNCHANGED faults
         \/ /\ Failures({"cache"})
            /\ outdated' = outdated \cup {a}
            /\ UNCHANGED disk
  /\ sync' = NextAlbum(sync)
  /\ UNCHANGED <<albums, deck, cursor, window, pc, wants, warm, env>>

Reconcile(d, c, as) ==
  \E items \in {Unique(as)} : \E r \in Reconciled(d, c, items) :
    deck' = r.deck /\ cursor' = r.cursor

\* The last section of Sync: the deck is reconciled and syncMu released.
FinishSync ==
  /\ sync.phase = "reconcile"
  /\ Reconcile(deck, cursor, albums)
  /\ Release("synced")
  /\ UNCHANGED <<albums, window, warm, files, env, faults>>

Sync == Scrape \/ ScrapeFails \/ StoreFull \/ StoreDelta \/ WriteCache \/ FinishSync

-----------------------------------------------------------------------------
(* Fetch, Subscribe and the push handler.                                  *)

Show(as) ==
  \E items \in {Unique(as)} : \E r \in Deal(deck, cursor, items) :
    deck' = r.deck /\ cursor' = r.cursor /\ window' = r.window

NeedsHydrate == \E a \in Share : ~albums[a].hydrated

\* Fetch asks for a full Sync before the first photos are there ...
FetchCold ==
  /\ pc["fetch"] = "idle" /\ NeedsHydrate
  /\ pc' = [pc EXCEPT !["fetch"] = "want"]
  /\ wants' = [wants EXCEPT !["fetch"] = TRUE]
  /\ UNCHANGED <<albums, deck, cursor, window, sync, warm, files, env, faults>>

\* ... and otherwise, or after it, deals the next window.
FetchDeal ==
  /\ pc["fetch"] = "synced" \/ (pc["fetch"] = "idle" /\ ~NeedsHydrate)
  /\ Show(albums)
  /\ pc' = [pc EXCEPT !["fetch"] = "idle"]
  /\ UNCHANGED <<albums, wants, sync, warm, files, env, faults>>

\* A Sync that failed: Fetch returns the error, Subscribe waits for the next tick.
Failed(t) ==
  /\ pc[t] = "failed"
  /\ pc' = [pc EXCEPT ![t] = "idle"]
  /\ UNCHANGED <<albums, deck, cursor, window, wants, sync, warm, files, env, faults>>

\* Fault: the ticker never asks for a full synchronisation of an album that has had one.
PeriodicFull_NeverDue(a) == albums[a].lastFull \in {"never"}

\* checkPeriodicFullLocked.
PeriodicFull(a) == albums[a].lastFull \in {"never", "due"} \/ ~albums[a].paginated

\* checkWarmBootStaleLocked: the first page may be out of date after any downtime.
WarmFull(a) == PeriodicFull(a) \/ albums[a].checked # albums[a].photos

SubAsks(full) ==
  /\ pc' = [pc EXCEPT !["sub"] = "want"]
  /\ wants' = [wants EXCEPT !["sub"] = full]

\* The start of Subscribe: after a warm boot a stale cache is synchronised at once.
SubStart ==
  /\ pc["sub"] = "start"
  /\ \/ warm /\ \E stale \in BOOLEAN :
          LET full == \E a \in Share : WarmFull(a)
          IN  (stale \/ full) /\ SubAsks(full)
     \/ /\ warm => \A a \in Share : ~WarmFull(a)
        /\ pc' = [pc EXCEPT !["sub"] = "idle"]
        /\ UNCHANGED wants
  /\ UNCHANGED <<albums, deck, cursor, window, sync, warm, files, env, faults>>

SubTick ==
  /\ pc["sub"] = "idle"
  /\ SubAsks(\E a \in Share : PeriodicFull(a))
  /\ UNCHANGED <<albums, deck, cursor, window, sync, warm, files, env, faults>>

\* emitCurrentSnapshot.
SubEmit ==
  /\ pc["sub"] = "synced"
  /\ window' = Peek(deck, cursor, Unique(albums))
  /\ pc' = [pc EXCEPT !["sub"] = "idle"]
  /\ UNCHANGED <<albums, deck, cursor, wants, sync, warm, files, env, faults>>

\* IngestPushedPhotos: the pushed photos replace those of the ember_bridge album.
Ingest(a, photos) ==
  /\ pushes < MaxPushes
  /\ pc["sub"] # "down"
  /\ albums' = [albums EXCEPT ![a].photos = photos, ![a].hydrated = TRUE]
  /\ Show(albums')
  /\ pushes' = pushes + 1
  /\ UNCHANGED <<pc, wants, sync, warm, files, upstream, changes, restarts, faults>>

-----------------------------------------------------------------------------
(* Start and stop.                                                         *)

\* Shutdown, or a crash at any moment of a Sync: what is in memory is lost.
Stop ==
  /\ restarts < MaxRestarts
  /\ pc["sub"] # "down"
  /\ restarts' = restarts + 1
  /\ albums' = [a \in Range(AlbumSeq) |-> EmptyAlbum]
  /\ deck' = <<>> /\ cursor' = 0 /\ window' = <<>>
  /\ pc' = [t \in Threads |-> "down"]
  /\ wants' = [t \in Threads |-> FALSE]
  /\ sync' = NoSync /\ warm' = FALSE
  /\ outdated' = {}
  /\ UNCHANGED <<disk, upstream, changes, faults, pushes>>

\* The albums Init begins with: a cache file with photos in it makes the album hydrated.
Loaded(a) == IF a \in Share
               THEN IF disk[a].photos # {} THEN disk[a] ELSE EmptyAlbum
               ELSE [EmptyAlbum EXCEPT !.hydrated = TRUE]

\* Init; a warm boot is one where every share_url album was cached.
Boot ==
  /\ pc["sub"] = "down"
  /\ LET as == [a \in Range(AlbumSeq) |-> Loaded(a)]
     IN  /\ albums' = as
         /\ warm' = \A a \in Share : as[a].hydrated
         /\ Reconcile(<<>>, 0, as)
  /\ pc' = [fetch |-> "idle", sub |-> "start"]
  /\ UNCHANGED <<window, wants, sync, files, env, faults>>

Init ==
  /\ albums = [a \in Range(AlbumSeq) |-> EmptyAlbum]
  /\ deck = <<>> /\ cursor = 0 /\ window = <<>>
  /\ disk = [a \in Share |-> EmptyAlbum]
  /\ upstream = Initially
  /\ pc = [t \in Threads |-> "down"]
  /\ wants = [t \in Threads |-> FALSE]
  /\ sync = NoSync /\ warm = FALSE
  /\ changes = 0 /\ faults = 0 /\ restarts = 0 /\ pushes = 0 /\ outdated = {}

Fetch == FetchCold \/ FetchDeal \/ Failed("fetch")

Subscribe == SubStart \/ SubTick \/ SubEmit \/ Failed("sub")

Next ==
  \/ \E a \in Share, p \in UNION Range(AlbumPhotos) : Upload(a, p) \/ Delete(a, p)
  \/ TimePasses
  \/ \E t \in Threads : Acquire(t)
  \/ Sync \/ Fetch \/ Subscribe
  \/ \E a \in Ember, S \in Pushable : Ingest(a, S)
  \/ Stop \/ Boot

\* The threads run, the tickers fire and time passes; syncMu is handed to a waiting thread.
Fairness ==
  /\ WF_vars(Boot) /\ WF_vars(TimePasses) /\ WF_vars(Sync)
  /\ WF_vars(Fetch) /\ WF_vars(Subscribe)
  /\ \A t \in Threads : SF_vars(Acquire(t))

Spec == Init /\ [][Next]_vars

FairSpec == Spec /\ Fairness

-----------------------------------------------------------------------------
(* Properties.                                                             *)

AlbumType == [photos : SUBSET Nat, checked : SUBSET Nat,
              lastFull : {"never", "recent", "due"},
              paginated : BOOLEAN, hydrated : BOOLEAN]

\* Types; the deck is dealt from inside its bounds and one thread at a time synchronises.
TypeOK ==
  /\ \A a \in Range(AlbumSeq) : albums[a] \in AlbumType
  /\ \A a \in Share : disk[a] \in AlbumType
  /\ cursor \in 0..Len(deck) /\ outdated \subseteq Share
  /\ \A t \in Threads :
       /\ pc[t] \in {"down", "start", "idle", "want", "sync", "synced", "failed"}
       /\ pc[t] = "sync" <=> sync.by = t

\* The deck never holds a day of an album twice and a window never shows a photo twice,
\* whatever the shuffles, the wrap-around at the end of the deck and the synchronisations
\* and pushes between two deals (photos.go:871-982).
OnePhotoPerSlot ==
  /\ Cardinality(Slots(Range(deck))) = Len(deck)
  /\ Cardinality(Keys(Range(window))) = Len(window)

\* What a restart would load is what the provider serves, once the Sync that changed the
\* album is over, whichever of its requests failed; only the album whose own last write of
\* the cache failed is behind until its next synchronisation (photos.go:552-572).
DiskFollows ==
  \A a \in Share :
    sync.by = Free /\ albums[a].hydrated /\ a \notin outdated => disk[a] = albums[a]

\* Once upstream no longer changes, requests stop failing and the server stays up, every
\* album comes to hold what upstream has within the page limit, each photo with its
\* location looked up: a first page that was missed, a pagination that broke off or ended
\* at a page nobody could parse, a deleted photo and lookups that stopped after some
\* batches are all made up for.
CatchesUp ==
  \A a \in Share : <>[](albums[a].photos = Reachable(a) /\ albums[a].checked = Reachable(a))

\* No day of an album is starved by the shuffles: as long as it has photos it is shown
\* again and again.
EverySlotShown ==
  \A s \in UNION {{Slot(Item(a, p)) : p \in AlbumPhotos[a]} : a \in Share} :
    []<>(s \in Slots(Range(window)) \/ s \notin Slots(Unique(albums)))
=============================================================================
