-------------------------- MODULE VideoCoordinator --------------------------
(***************************************************************************)
(* The video priority stack of the server: internal/video/coordinator.go.  *)
(*                                                                         *)
(* One stream may fill the screen (primary) and one may float over it      *)
(* muted (pip).  A temporary stream carries a countdown started with       *)
(* time.AfterFunc; when it runs out, a goroutine of its own calls          *)
(* handleTimerExpired, which has to wait for the coordinator's mutex like  *)
(* every HTTP handler.  Between the moment the timer fires and the moment  *)
(* that goroutine gets the mutex, Stop() no longer has any effect on it:   *)
(* such a goroutine is a member of "fired".                                *)
(*                                                                         *)
(* Every operation changes the stack under the mutex, takes a snapshot of  *)
(* it, releases the mutex and only then publishes the snapshot, so         *)
(* publications of different goroutines may overtake each other.  The two  *)
(* history variables say when the displays are left with an old state.     *)
(* Stream metadata (title, position...) is left out: no property needs it. *)
(***************************************************************************)
EXTENDS Naturals, FiniteSets

CONSTANTS
    StreamIds,   \* stream identifiers; "", "all" and "*" are refused by Trigger
    Callers,     \* HTTP requests that may be in progress at the same time
    PlayerState, \* transport states: playing, paused, buffering, idle
    NoStream,    \* the nil *VideoStream
    MaxTimers    \* bound: AfterFunc timers created in one behaviour

ASSUME NoStreamAssumption == NoStream \notin [id: StreamIds, prio: {"persistent", "temporary"},
                                              muted: BOOLEAN, player: PlayerState]
ASSUME MaxTimersAssumption == MaxTimers \in Nat

VARIABLES
    mode,        \* "widgets" or "video"
    primary,     \* the stream filling the screen, or NoStream
    pip,         \* the picture-in-picture stream, or NoStream
    timers,      \* the timers map: stream id -> number of its timer, 0 if absent
    armed,       \* timers that are still counting down
    fired,       \* timers that ran out, their goroutine waiting for the mutex
    nextTimer,   \* number of the next timer to be created
    closed,      \* Close has been called
    inflight,    \* snapshots taken under the mutex and not published yet
    broadcast,   \* the last video.state published (sink and event hub)
    latest,      \* history: the snapshot of the last change, until it is published
    lost         \* history: what was published last is not what the last change left

stack == <<mode, primary, pip>>
timerVars == <<timers, armed, nextTimer>>
vars == <<mode, primary, pip, timers, armed, fired, nextTimer, closed, inflight, broadcast,
          latest, lost>>
history == <<latest, lost>>

Priority == {"persistent", "temporary"}
Stream == [id: StreamIds, prio: Priority, muted: BOOLEAN, player: PlayerState]
Slot == Stream \cup {NoStream}
Timer == [id: StreamIds, n: Nat \ {0}]
VideoState == [mode: {"widgets", "video"}, primary: Slot, pip: Slot]

Holds(slot, id) == slot # NoStream /\ slot.id = id
HasPriority(slot, prio) == slot # NoStream /\ slot.prio = prio
SlotIds(slot) == IF slot = NoStream THEN {} ELSE {slot.id}

\* snapshotLocked
Snapshot == [mode |-> mode, primary |-> primary, pip |-> pip]

Init ==
    /\ mode = "widgets"
    /\ primary = NoStream
    /\ pip = NoStream
    /\ timers = [s \in StreamIds |-> 0]
    /\ armed = {}
    /\ fired = {}
    /\ nextTimer = 1
    /\ closed = FALSE
    /\ inflight = {}
    /\ broadcast = Snapshot
    /\ latest = {}
    /\ lost = FALSE

-----------------------------------------------------------------------------
(* Timers.                                                                 *)

\* stopTimerLocked for every id in stops, then startTimerLocked for the id in
\* starts (at most one), which first stops the timer that id has.  Stop() has
\* no effect on a timer that has fired; the map entry goes in any case.
Retime(stops, starts) ==
    /\ timers' = [s \in StreamIds |-> IF s \in starts THEN nextTimer
                                      ELSE IF s \in stops THEN 0
                                      ELSE timers[s]]
    /\ armed' = {t \in armed : t.id \in stops \cup starts => t.n # timers[t.id]}
                  \cup {[id |-> s, n |-> nextTimer] : s \in starts}
    /\ nextTimer' = IF starts = {} THEN nextTimer ELSE nextTimer + 1

\* The countdown of a temporary stream, none for a persistent one.
Countdown(s) == IF s.prio = "temporary" THEN {s.id} ELSE {}

\* The runtime starts the callback goroutine of a timer that has run out.
Fire(t) ==
    /\ t \in armed
    /\ armed' = armed \ {t}
    /\ fired' = fired \cup {t}
    /\ UNCHANGED <<stack, timers, nextTimer, closed, inflight, broadcast, history>>

-----------------------------------------------------------------------------
(* Operations of the HTTP handlers.                                        *)

Idle(c) == \A r \in inflight : r.by # c

\* Fault: the snapshot is taken before the change.
Announce_Old(g) ==
    /\ latest' = {[by |-> g, snap |-> Snapshot]}
    /\ inflight' = inflight \cup latest'
    /\ lost' = FALSE

\* unlockAndPublish: goroutine g leaves the mutex with the new snapshot.
Announce(g) ==
    /\ latest' = {[by |-> g, snap |-> Snapshot']}
    /\ inflight' = inflight \cup latest'
    /\ lost' = FALSE

\* retriggerSlotLocked on the primary: same id, new stream data.
RetriggerPrimary(s) ==
    /\ Holds(primary, s.id)
    /\ primary' = [s EXCEPT !.muted = FALSE]
    /\ UNCHANGED <<mode, pip>>
    /\ Retime({s.id}, Countdown(s))

\* retriggerSlotLocked on the pip.
RetriggerPip(s) ==
    /\ ~Holds(primary, s.id)
    /\ Holds(pip, s.id)
    /\ pip' = [s EXCEPT !.muted = TRUE]
    /\ UNCHANGED <<mode, primary>>
    /\ Retime({s.id}, Countdown(s))

\* Fault: the pip that a demoted primary replaces keeps its countdown.
AssignPersistent_KeepsTimer(s) ==
    /\ s.prio = "persistent"
    /\ primary' = [s EXCEPT !.muted = FALSE]
    /\ mode' = "video"
    /\ pip' = IF HasPriority(primary, "temporary") THEN [primary EXCEPT !.muted = TRUE] ELSE pip
    /\ Retime({}, {})

\* A persistent stream takes the screen; a temporary primary becomes the pip
\* and keeps its countdown, the pip it replaces loses its own.
AssignPersistent(s) ==
    /\ s.prio = "persistent"
    /\ primary' = [s EXCEPT !.muted = FALSE]
    /\ mode' = "video"
    /\ IF HasPriority(primary, "temporary")
       THEN /\ pip' = [primary EXCEPT !.muted = TRUE]
            /\ Retime(SlotIds(pip), {})
       ELSE /\ UNCHANGED pip
            /\ Retime(SlotIds(primary), {})

\* A temporary stream floats over a persistent primary, else it takes the screen.
AssignTemporary(s) ==
    /\ s.prio = "temporary"
    /\ mode' = "video"
    /\ IF HasPriority(primary, "persistent")
       THEN /\ pip' = [s EXCEPT !.muted = TRUE]
            /\ UNCHANGED primary
            /\ Retime(SlotIds(pip), {s.id})
       ELSE /\ primary' = [s EXCEPT !.muted = FALSE]
            /\ UNCHANGED pip
            /\ Retime(SlotIds(primary), {s.id})

\* assignStreamSlotLocked: a stream that is in neither slot.
AssignStreamSlot(s) ==
    /\ ~Holds(primary, s.id)
    /\ ~Holds(pip, s.id)
    /\ AssignPersistent(s) \/ AssignTemporary(s)

\* Trigger, after normalizeAndValidateStream accepted the stream.
Trigger(c, s) ==
    /\ ~closed
    /\ Idle(c)
    /\ s.prio = "temporary" => nextTimer <= MaxTimers
    /\ RetriggerPrimary(s) \/ RetriggerPip(s) \/ AssignStreamSlot(s)
    /\ Announce(c)
    /\ UNCHANGED <<fired, closed, broadcast>>

\* Fault: the promoted stream stays muted.
PromotePipOrReset_Muted == primary' = pip /\ pip' = NoStream /\ mode' = IF pip = NoStream THEN "widgets" ELSE mode

\* promotePipOrResetLocked
PromotePipOrReset ==
    /\ primary' = IF pip = NoStream THEN NoStream ELSE [pip EXCEPT !.muted = FALSE]
    /\ mode' = IF pip = NoStream THEN "widgets" ELSE mode
    /\ pip' = NoStream

\* Dismiss("all") or Dismiss("*"): every timer of the map is stopped.
DismissAll(c) ==
    /\ ~closed
    /\ Idle(c)
    /\ primary # NoStream \/ pip # NoStream
    /\ Retime(StreamIds, {})
    /\ mode' = "widgets"
    /\ primary' = NoStream
    /\ pip' = NoStream
    /\ Announce(c)
    /\ UNCHANGED <<fired, closed, broadcast>>

\* Dismiss(id) of the stream in one of the slots, the pip looked at first.
Dismiss(c, id) ==
    /\ ~closed
    /\ Idle(c)
    /\ \/ /\ Holds(pip, id)
          /\ pip' = NoStream
          /\ UNCHANGED <<mode, primary>>
       \/ /\ ~Holds(pip, id)
          /\ Holds(primary, id)
          /\ PromotePipOrReset
    /\ Retime({id}, {})
    /\ Announce(c)
    /\ UNCHANGED <<fired, closed, broadcast>>

\* UpdatePlayerState of the stream found by findStreamLocked.
UpdatePlayerState(c, id, player) ==
    /\ ~closed
    /\ Idle(c)
    /\ \/ /\ Holds(primary, id)
          /\ primary' = [primary EXCEPT !.player = player]
          /\ UNCHANGED pip
       \/ /\ ~Holds(primary, id)
          /\ Holds(pip, id)
          /\ pip' = [pip EXCEPT !.player = player]
          /\ UNCHANGED primary
    /\ UNCHANGED mode
    /\ Announce(c)
    /\ UNCHANGED <<timerVars, fired, closed, broadcast>>

\* Close: every timer of the map is stopped, the stack is left as it is.
Close ==
    /\ ~closed
    /\ closed' = TRUE
    /\ Retime(StreamIds, {})
    /\ UNCHANGED <<stack, fired, inflight, broadcast, history>>

-----------------------------------------------------------------------------
(* Goroutines that finish an operation.                                    *)

\* Fault: the snapshot of a primary that ran out is taken before it goes, too.
HandleTimerExpired_OldSnapshot(t) ==
    /\ t \in fired
    /\ fired' = fired \ {t}
    /\ timers' = IF closed THEN timers ELSE [timers EXCEPT ![t.id] = 0]
    /\ CASE closed \/ ~(Holds(pip, t.id) \/ Holds(primary, t.id)) -> UNCHANGED <<stack, inflight, history>>
         [] ~closed /\ Holds(pip, t.id) ->
              /\ pip' = NoStream
              /\ inflight' = inflight \cup {[by |-> t, snap |-> Snapshot]}
              /\ latest' = {}
              /\ lost' = TRUE
              /\ UNCHANGED <<mode, primary>>
         [] OTHER -> PromotePipOrReset /\ Announce_Old(t)
    /\ UNCHANGED <<armed, nextTimer, closed, broadcast>>

\* handleTimerExpired for the timer t, which carries the stream's id only.
\* The statement that clears the pip evaluates snapshotLocked() before it
\* assigns (Go evaluates the right-hand sides first), so the snapshot it
\* publishes is the one from before; the primary's is taken after the change.
HandleTimerExpired(t) ==
    /\ t \in fired
    /\ fired' = fired \ {t}
    /\ timers' = IF closed THEN timers ELSE [timers EXCEPT ![t.id] = 0]
    /\ \/ /\ closed \/ ~(Holds(pip, t.id) \/ Holds(primary, t.id))
          /\ UNCHANGED <<stack, inflight, history>>
       \/ /\ ~closed
          /\ Holds(pip, t.id)
          /\ pip' = NoStream
          /\ inflight' = inflight \cup {[by |-> t, snap |-> Snapshot]}
          /\ latest' = {}
          /\ lost' = TRUE
          /\ UNCHANGED <<mode, primary>>
       \/ /\ ~closed
          /\ ~Holds(pip, t.id)
          /\ Holds(primary, t.id)
          /\ PromotePipOrReset
          /\ Announce(t)
    /\ UNCHANGED <<armed, nextTimer, closed, broadcast>>

\* publishState, outside the mutex: the sink and the event hub get the snapshot.
\* One that comes after the snapshot of the last change has overwritten it.
PublishState(r) ==
    /\ r \in inflight
    /\ inflight' = inflight \ {r}
    /\ broadcast' = r.snap
    /\ latest' = latest \ {r}
    /\ lost' = (lost \/ latest = {})
    /\ UNCHANGED <<stack, timerVars, fired, closed>>

-----------------------------------------------------------------------------
NewStream == {s \in Stream : ~s.muted}

Request(c) ==
    \/ \E s \in NewStream : Trigger(c, s)
    \/ DismissAll(c)
    \/ \E id \in StreamIds : Dismiss(c, id)
    \/ \E id \in StreamIds, player \in PlayerState : UpdatePlayerState(c, id, player)

FireTimer == \E t \in armed : Fire(t)
TimerExpired == \E t \in fired : HandleTimerExpired(t)
Publication == \E r \in inflight : PublishState(r)

Next ==
    \/ \E c \in Callers : Request(c)
    \/ Close
    \/ FireTimer
    \/ TimerExpired
    \/ Publication

Spec == Init /\ [][Next]_vars

\* Time passes, a waiting goroutine gets the mutex (sync.RWMutex does not
\* starve a writer) and a goroutine outside the mutex runs on.  Requests and
\* Close are never assumed.
Fairness == WF_vars(FireTimer) /\ WF_vars(TimerExpired) /\ WF_vars(Publication)

FairSpec == Spec /\ Fairness

-----------------------------------------------------------------------------
(* Properties.                                                             *)

\* The types of the coordinator's fields (internal/video/coordinator.go,
\* Coordinator).
TypeOK ==
    /\ mode \in {"widgets", "video"}
    /\ primary \in Slot
    /\ pip \in Slot
    /\ timers \in [StreamIds -> Nat]
    /\ armed \in SUBSET Timer
    /\ fired \in SUBSET Timer
    /\ nextTimer \in Nat \ {0}
    /\ closed \in BOOLEAN
    /\ inflight \in SUBSET [by: Callers \cup Timer, snap: VideoState]
    /\ broadcast \in VideoState
    /\ latest \in SUBSET inflight
    /\ lost \in BOOLEAN

ModeMatchesPrimary(v) == v.mode = "video" <=> v.primary # NoStream
PipNeedsPrimary(v) == v.pip # NoStream => v.primary # NoStream
SlotsDistinct(v) == v.primary # NoStream => ~Holds(v.pip, v.primary.id)
OnlyPrimaryAudible(v) ==
    /\ v.primary # NoStream => ~v.primary.muted
    /\ v.pip # NoStream => v.pip.muted

Consistent(v) ==
    /\ ModeMatchesPrimary(v)
    /\ PipNeedsPrimary(v)
    /\ SlotsDistinct(v)
    /\ OnlyPrimaryAudible(v)

\* Whatever sequence of triggers, dismissals and expiries led here, the stack
\* and every state handed to the displays is one a display can show: video
\* mode exactly when a stream fills the screen, no floating stream without
\* one, never the same stream twice, and only the primary stream audible.
StackConsistent ==
    /\ Consistent(Snapshot)
    /\ Consistent(broadcast)
    /\ \A r \in inflight : Consistent(r.snap)

Shown == SlotIds(primary) \cup SlotIds(pip)
ShownTemporary ==
    {s \in StreamIds : \/ Holds(primary, s) /\ primary.prio = "temporary"
                       \/ Holds(pip, s) /\ pip.prio = "temporary"}

\* The timers map holds a countdown for exactly the temporary streams on the
\* screen, also after streams swapped slots, were re-triggered with another
\* priority or were dismissed by a goroutine that lost the race for the mutex;
\* after Close it holds none.
CountdownIffTemporary ==
    {s \in StreamIds : timers[s] # 0} = IF closed THEN {} ELSE ShownTemporary

\* A timer in the map is counting down or its goroutine is waiting for the
\* mutex: no entry of the map is dead, so no temporary stream can be stuck.
CountdownRuns ==
    \A s \in StreamIds : timers[s] # 0 => [id |-> s, n |-> timers[s]] \in armed \cup fired

\* The displays are shown the stack, or the snapshot that shows it is about to
\* be published, unless the last publication was lost: it was overwritten by
\* an older one that was overtaken, or it was that of a pip that ran out, which
\* still holds the pip (unlockAndPublish, handleTimerExpired).
DisplaysFollow ==
    \/ lost
    \/ latest = {} /\ broadcast = Snapshot
    \/ \E r \in inflight : latest = {r} /\ r.snap = Snapshot

ShowsTemporary(v, s) ==
    \/ Holds(v.primary, s) /\ v.primary.prio = "temporary"
    \/ Holds(v.pip, s) /\ v.pip.prio = "temporary"

\* A temporary stream dismisses itself: it leaves the stack unless the
\* coordinator is closed first, and it leaves the displays too unless, besides,
\* a publication was lost in one of the two ways above (startTimerLocked,
\* handleTimerExpired, publishState).
AutoDismiss ==
    \A s \in StreamIds :
        /\ ShowsTemporary(Snapshot, s) ~> ~ShowsTemporary(Snapshot, s) \/ closed
        /\ ShowsTemporary(broadcast, s) ~> ~ShowsTemporary(broadcast, s) \/ closed \/ lost
=============================================================================
