----------------------- MODULE VideoCoordinatorProofs -----------------------
(***************************************************************************)
(* Proofs about the video priority stack, for every set of streams and     *)
(* callers and any number of timers.  The inductive invariant is the       *)
(* conjunction of the properties: the countdowns match the temporary       *)
(* streams only because no stream is in both slots, and that the snapshots *)
(* are consistent needs the stack they are taken from to be.               *)
(***************************************************************************)
EXTENDS VideoCoordinator, TLAPS

IInv == TypeOK /\ StackConsistent /\ CountdownIffTemporary /\ CountdownRuns /\ DisplaysFollow

\* NewCoordinator starts with an empty stack in widgets mode.
LEMMA InitIInv == Init => IInv
  <1> SUFFICES ASSUME Init PROVE IInv
    OBVIOUS
  <1>0. Snapshot \in VideoState
    BY DEF Init, Snapshot, VideoState, Slot
  <1>1. TypeOK
    <2>1. closed \in BOOLEAN /\ lost \in BOOLEAN
      BY Zenon DEF Init
    <2> QED BY <1>0, <2>1 DEF Init, TypeOK, Slot
  <1>2. StackConsistent
    BY DEF Init, StackConsistent, Consistent, ModeMatchesPrimary, PipNeedsPrimary,
           SlotsDistinct, OnlyPrimaryAudible, Snapshot
  <1>3. CountdownIffTemporary /\ CountdownRuns
    BY DEF Init, CountdownIffTemporary, CountdownRuns, ShownTemporary, Holds
  <1>4. DisplaysFollow
    BY DEF Init, DisplaysFollow, Snapshot
  <1> QED BY <1>1, <1>2, <1>3, <1>4 DEF IInv

\* Changing an input stream's mute flag yields a stream with the same id and priority.
LEMMA MuteStream ==
  ASSUME NEW s \in Stream, NEW b \in BOOLEAN
  PROVE  /\ [s EXCEPT !.muted = b] \in Stream
         /\ [s EXCEPT !.muted = b] # NoStream
         /\ [s EXCEPT !.muted = b].id = s.id
         /\ [s EXCEPT !.muted = b].prio = s.prio
         /\ [s EXCEPT !.muted = b].muted = b
  BY NoStreamAssumption DEF Stream, Priority

\* Stopping and starting timers keeps the types and leaves no dead map entry.
LEMMA RetimeFacts ==
  ASSUME TypeOK, CountdownRuns, NEW stops \in SUBSET StreamIds, NEW starts \in SUBSET StreamIds,
         Retime(stops, starts), UNCHANGED fired
  PROVE  /\ timers' \in [StreamIds -> Nat]
         /\ armed' \in SUBSET Timer
         /\ nextTimer' \in Nat \ {0}
         /\ CountdownRuns'
         /\ \A s \in StreamIds : timers'[s] # 0 <=> s \in starts \/ (s \notin stops /\ timers[s] # 0)
  <1>1. timers' \in [StreamIds -> Nat]
    BY DEF Retime, TypeOK
  <1>2. armed' \in SUBSET Timer
    BY DEF Retime, TypeOK, Timer
  <1>3. nextTimer' \in Nat \ {0}
    BY DEF Retime, TypeOK
  <1>4. CountdownRuns'
    <2> SUFFICES ASSUME NEW s \in StreamIds, timers'[s] # 0
                 PROVE  [id |-> s, n |-> timers'[s]] \in armed' \cup fired'
      BY DEF CountdownRuns
    <2>1. CASE s \in starts
      BY <2>1 DEF Retime
    <2>2. CASE s \notin starts
      <3>1. s \notin stops /\ timers'[s] = timers[s]
        BY <2>2 DEF Retime
      <3>2. [id |-> s, n |-> timers[s]] \in armed \cup fired
        BY <3>1 DEF CountdownRuns
      <3> QED BY <2>2, <3>1, <3>2 DEF Retime
    <2> QED BY <2>1, <2>2
  <1>5. \A s \in StreamIds : timers'[s] # 0 <=> s \in starts \/ (s \notin stops /\ timers[s] # 0)
    BY DEF Retime, TypeOK
  <1> QED BY <1>1, <1>2, <1>3, <1>4, <1>5

\* A temporary stream in one of the slots: the members of ShownTemporary.
TemporaryIn(id, p, q) ==
    \/ HasPriority(p, "temporary") /\ p.id = id
    \/ HasPriority(q, "temporary") /\ q.id = id

\* CountdownIffTemporary stated stream by stream, as the provers use it.
LEMMA CountdownPointwise ==
  CountdownIffTemporary <=>
    \A s \in StreamIds : timers[s] # 0 <=> ~closed /\ TemporaryIn(s, primary, pip)
  <1>1. \A s \in StreamIds : s \in ShownTemporary <=> TemporaryIn(s, primary, pip)
    BY DEF ShownTemporary, TemporaryIn, HasPriority, Holds
  <1>2. ShownTemporary \subseteq StreamIds
    BY DEF ShownTemporary
  <1>3. ({s \in StreamIds : timers[s] # 0} = IF closed THEN {} ELSE ShownTemporary)
          <=> \A s \in StreamIds : timers[s] # 0 <=> ~closed /\ s \in ShownTemporary
    BY <1>2
  <1> QED BY <1>1, <1>3 DEF CountdownIffTemporary

\* The same in the state after a step.
LEMMA CountdownPointwiseNext ==
  CountdownIffTemporary' <=>
    \A s \in StreamIds : timers'[s] # 0 <=> ~closed' /\ TemporaryIn(s, primary', pip')
  <1>1. \A s \in StreamIds : s \in ShownTemporary' <=> TemporaryIn(s, primary', pip')
    BY DEF ShownTemporary, TemporaryIn, HasPriority, Holds
  <1>2. ShownTemporary' \subseteq StreamIds
    BY DEF ShownTemporary
  <1>3. ({s \in StreamIds : timers'[s] # 0} = IF closed' THEN {} ELSE ShownTemporary')
          <=> \A s \in StreamIds : timers'[s] # 0 <=> ~closed' /\ s \in ShownTemporary'
    BY <1>2
  <1> QED BY <1>1, <1>3 DEF CountdownIffTemporary

\* unlockAndPublish hands over a snapshot that is as good as the new stack.
LEMMA AnnounceFacts ==
  ASSUME TypeOK, StackConsistent, NEW g \in Callers \cup Timer, Announce(g), UNCHANGED broadcast,
         mode' \in {"widgets", "video"}, primary' \in Slot, pip' \in Slot, Consistent(Snapshot')
  PROVE  /\ inflight' \in SUBSET [by: Callers \cup Timer, snap: VideoState] /\ StackConsistent'
         /\ latest' \in SUBSET inflight' /\ lost' \in BOOLEAN /\ DisplaysFollow'
  <1>1. Snapshot' \in VideoState
    BY DEF Snapshot, VideoState
  <1>2. inflight' \in SUBSET [by: Callers \cup Timer, snap: VideoState]
    BY <1>1 DEF Announce, TypeOK
  <1>3. \A r \in inflight' : Consistent(r.snap)
    BY DEF Announce, StackConsistent
  <1>4. latest' \in SUBSET inflight'
    BY DEF Announce
  <1>5. lost' \in BOOLEAN
    BY Zenon DEF Announce
  <1>6. DisplaysFollow'
    <2>1. [by |-> g, snap |-> Snapshot'] \in inflight'
      BY DEF Announce
    <2>2. latest' = {[by |-> g, snap |-> Snapshot']}
      BY DEF Announce
    <2> QED BY <2>1, <2>2 DEF DisplaysFollow
  <1>7. StackConsistent'
    BY <1>3 DEF StackConsistent, Consistent, ModeMatchesPrimary, PipNeedsPrimary,
           SlotsDistinct, OnlyPrimaryAudible
  <1> QED BY <1>2, <1>4, <1>5, <1>6, <1>7

\* What the two slots are to satisfy after a step, and the countdowns with them.
StackOK ==
    /\ mode \in {"widgets", "video"}
    /\ primary \in Slot
    /\ pip \in Slot
    /\ Consistent(Snapshot)

\* A step that leaves a good stack, matching countdowns and one more snapshot
\* of that stack preserves the invariant.
LEMMA StackStep ==
  ASSUME IInv, NEW stops \in SUBSET StreamIds, NEW starts \in SUBSET StreamIds,
         NEW g \in Callers \cup Timer,
         Retime(stops, starts), Announce(g), UNCHANGED <<fired, closed, broadcast>>, StackOK',
         ~closed, \A s \in StreamIds :
           (s \in starts \/ (s \notin stops /\ TemporaryIn(s, primary, pip)))
             <=> TemporaryIn(s, primary', pip')
  PROVE  IInv'
  <1>1. /\ timers' \in [StreamIds -> Nat] /\ armed' \in SUBSET Timer /\ nextTimer' \in Nat \ {0}
        /\ CountdownRuns'
        /\ \A s \in StreamIds : timers'[s] # 0 <=> s \in starts \/ (s \notin stops /\ timers[s] # 0)
    BY RetimeFacts DEF IInv
  <1>2. /\ inflight' \in SUBSET [by: Callers \cup Timer, snap: VideoState] /\ StackConsistent'
        /\ latest' \in SUBSET inflight' /\ lost' \in BOOLEAN /\ DisplaysFollow'
    BY AnnounceFacts DEF IInv, StackOK
  <1>3. \A s \in StreamIds : timers[s] # 0 <=> TemporaryIn(s, primary, pip)
    BY CountdownPointwise DEF IInv
  <1>4. \A s \in StreamIds : timers'[s] # 0 <=> ~closed' /\ TemporaryIn(s, primary', pip')
    BY <1>1, <1>3
  <1>5. CountdownIffTemporary'
    BY <1>4, CountdownPointwiseNext
  <1>6. TypeOK'
    BY <1>1, <1>2 DEF IInv, TypeOK, StackOK
  <1> QED BY <1>1, <1>2, <1>5, <1>6 DEF IInv

\* The two streams of a consistent stack, as the provers need them.
LEMMA SlotFacts ==
  ASSUME IInv
  PROVE  /\ primary # NoStream => primary \in Stream /\ ~primary.muted /\ mode = "video"
         /\ pip # NoStream => pip \in Stream /\ pip.muted /\ primary # NoStream /\ pip.id # primary.id
         /\ primary = NoStream => mode = "widgets" /\ pip = NoStream
  BY DEF IInv, TypeOK, Slot, StackConsistent, Consistent, ModeMatchesPrimary, PipNeedsPrimary,
         SlotsDistinct, OnlyPrimaryAudible, Snapshot, Holds

\* A stack built from two distinct streams, the second optional, is good.
LEMMA GoodStack ==
  ASSUME mode' = "video", primary' \in Stream, ~primary'.muted,
         pip' = NoStream \/ (pip' \in Stream /\ pip'.muted /\ pip'.id # primary'.id)
  PROVE  StackOK'
  BY NoStreamAssumption
  DEF StackOK, Slot, Consistent, ModeMatchesPrimary, PipNeedsPrimary, SlotsDistinct,
      OnlyPrimaryAudible, Snapshot, Holds, Stream, Priority

\* An empty stack in widgets mode is good.
LEMMA EmptyStack ==
  ASSUME mode' = "widgets", primary' = NoStream, pip' = NoStream
  PROVE  StackOK'
  BY DEF StackOK, Slot, Consistent, ModeMatchesPrimary, PipNeedsPrimary, SlotsDistinct,
         OnlyPrimaryAudible, Snapshot, Holds

\* Trigger preserves the invariant, whichever slot the stream is put in.
LEMMA TriggerStep ==
  ASSUME IInv, NEW c \in Callers, NEW s \in NewStream, Trigger(c, s)
  PROVE  IInv'
  <1> USE DEF Holds, HasPriority, TemporaryIn, SlotIds
  <1>0. s \in Stream /\ ~closed /\ Announce(c) /\ UNCHANGED <<fired, closed, broadcast>>
    BY DEF NewStream, Trigger
  <1>a. Countdown(s) \in SUBSET StreamIds /\ s.id \in StreamIds /\ s.prio \in Priority
    BY <1>0 DEF Countdown, Stream
  <1>b. \A slot \in Slot : SlotIds(slot) \in SUBSET StreamIds
    BY DEF Slot, Stream
  <1>c. primary \in Slot /\ pip \in Slot
    BY DEF IInv, TypeOK
  <1>1. CASE RetriggerPrimary(s)
    <2>1. StackOK'
      BY <1>0, <1>1, SlotFacts, MuteStream, GoodStack DEF RetriggerPrimary
    <2>2. \A x \in StreamIds :
            (x \in Countdown(s) \/ (x \notin {s.id} /\ TemporaryIn(x, primary, pip)))
              <=> TemporaryIn(x, primary', pip')
      BY <1>0, <1>1, SlotFacts, MuteStream DEF RetriggerPrimary, Countdown
    <2> QED BY <1>0, <1>1, <1>a, <2>1, <2>2, StackStep DEF RetriggerPrimary
  <1>2. CASE RetriggerPip(s)
    <2>1. StackOK'
      BY <1>0, <1>2, SlotFacts, MuteStream, GoodStack DEF RetriggerPip
    <2>2. \A x \in StreamIds :
            (x \in Countdown(s) \/ (x \notin {s.id} /\ TemporaryIn(x, primary, pip)))
              <=> TemporaryIn(x, primary', pip')
      BY <1>0, <1>2, SlotFacts, MuteStream DEF RetriggerPip, Countdown
    <2> QED BY <1>0, <1>2, <1>a, <2>1, <2>2, StackStep DEF RetriggerPip
  <1>3. CASE AssignStreamSlot(s) /\ AssignPersistent(s)
    <2>1. CASE primary # NoStream /\ primary.prio = "temporary"
      <3>1. StackOK'
        BY <1>0, <1>3, <2>1, SlotFacts, MuteStream, GoodStack DEF AssignStreamSlot, AssignPersistent
      <3>2. \A x \in StreamIds :
              (x \in {} \/ (x \notin SlotIds(pip) /\ TemporaryIn(x, primary, pip)))
                <=> TemporaryIn(x, primary', pip')
        BY <1>0, <1>3, <2>1, SlotFacts, MuteStream DEF AssignStreamSlot, AssignPersistent
      <3> QED BY <1>0, <1>3, <1>b, <1>c, <2>1, <3>1, <3>2, StackStep DEF AssignPersistent
    <2>2. CASE ~(primary # NoStream /\ primary.prio = "temporary")
      <3>1. StackOK'
        BY <1>0, <1>3, <2>2, SlotFacts, MuteStream, GoodStack DEF AssignStreamSlot, AssignPersistent
      <3>2. \A x \in StreamIds :
              (x \in {} \/ (x \notin SlotIds(primary) /\ TemporaryIn(x, primary, pip)))
                <=> TemporaryIn(x, primary', pip')
        BY <1>0, <1>3, <2>2, SlotFacts, MuteStream DEF AssignStreamSlot, AssignPersistent
      <3> QED BY <1>0, <1>3, <1>b, <1>c, <2>2, <3>1, <3>2, StackStep DEF AssignPersistent
    <2> QED BY <2>1, <2>2
  <1>4. CASE AssignStreamSlot(s) /\ AssignTemporary(s)
    <2>1. CASE primary # NoStream /\ primary.prio = "persistent"
      <3>1. StackOK'
        BY <1>0, <1>4, <2>1, SlotFacts, MuteStream, GoodStack DEF AssignStreamSlot, AssignTemporary
      <3>2. \A x \in StreamIds :
              (x \in {s.id} \/ (x \notin SlotIds(pip) /\ TemporaryIn(x, primary, pip)))
                <=> TemporaryIn(x, primary', pip')
        BY <1>0, <1>4, <2>1, SlotFacts, MuteStream DEF AssignStreamSlot, AssignTemporary
      <3> QED BY <1>0, <1>4, <1>a, <1>b, <1>c, <2>1, <3>1, <3>2, StackStep DEF AssignTemporary
    <2>2. CASE ~(primary # NoStream /\ primary.prio = "persistent")
      <3>1. StackOK'
        BY <1>0, <1>4, <2>2, SlotFacts, MuteStream, GoodStack DEF AssignStreamSlot, AssignTemporary
      <3>2. \A x \in StreamIds :
              (x \in {s.id} \/ (x \notin SlotIds(primary) /\ TemporaryIn(x, primary, pip)))
                <=> TemporaryIn(x, primary', pip')
        BY <1>0, <1>4, <2>2, SlotFacts, MuteStream DEF AssignStreamSlot, AssignTemporary
      <3> QED BY <1>0, <1>4, <1>a, <1>b, <1>c, <2>2, <3>1, <3>2, StackStep DEF AssignTemporary
    <2> QED BY <2>1, <2>2
  <1> QED BY <1>1, <1>2, <1>3, <1>4 DEF Trigger, AssignStreamSlot

\* promotePipOrResetLocked leaves a good stack without the old primary.
LEMMA PromoteFacts ==
  ASSUME IInv, PromotePipOrReset
  PROVE  /\ StackOK'
         /\ \A x \in StreamIds :
              (~Holds(primary, x) /\ TemporaryIn(x, primary, pip)) <=> TemporaryIn(x, primary', pip')
  <1> USE DEF Holds, HasPriority, TemporaryIn, PromotePipOrReset
  <1>1. CASE pip = NoStream
    <2>1. StackOK'
      BY <1>1, SlotFacts, EmptyStack
    <2> QED BY <1>1, <2>1, SlotFacts
  <1>2. CASE pip # NoStream
    <2>1. StackOK'
      BY <1>2, SlotFacts, MuteStream, GoodStack
    <2> QED BY <1>2, <2>1, SlotFacts, MuteStream
  <1> QED BY <1>1, <1>2

\* Dismiss("all") preserves the invariant.
LEMMA DismissAllStep ==
  ASSUME IInv, NEW c \in Callers, DismissAll(c)
  PROVE  IInv'
  <1>1. StackOK'
    BY EmptyStack DEF DismissAll
  <1>2. \A x \in StreamIds :
          (x \in {} \/ (x \notin StreamIds /\ TemporaryIn(x, primary, pip)))
            <=> TemporaryIn(x, primary', pip')
    BY DEF DismissAll, TemporaryIn, HasPriority
  <1> QED BY <1>1, <1>2, StackStep DEF DismissAll

\* Dismiss of one stream preserves the invariant.
LEMMA DismissStep ==
  ASSUME IInv, NEW c \in Callers, NEW id \in StreamIds, Dismiss(c, id)
  PROVE  IInv'
  <1> USE DEF Holds, HasPriority, TemporaryIn
  <1>1. CASE Holds(pip, id) /\ pip' = NoStream /\ UNCHANGED <<mode, primary>>
    <2>1. StackOK'
      BY <1>1, SlotFacts, GoodStack
    <2>2. \A x \in StreamIds :
            (x \in {} \/ (x \notin {id} /\ TemporaryIn(x, primary, pip)))
              <=> TemporaryIn(x, primary', pip')
      BY <1>1, SlotFacts
    <2> QED BY <2>1, <2>2, StackStep DEF Dismiss
  <1>2. CASE ~Holds(pip, id) /\ Holds(primary, id) /\ PromotePipOrReset
    <2>1. StackOK'
      BY <1>2, PromoteFacts
    <2>2. \A x \in StreamIds :
            (x \in {} \/ (x \notin {id} /\ TemporaryIn(x, primary, pip)))
              <=> TemporaryIn(x, primary', pip')
      BY <1>2, SlotFacts, PromoteFacts
    <2> QED BY <2>1, <2>2, StackStep DEF Dismiss
  <1> QED BY <1>1, <1>2 DEF Dismiss

\* UpdatePlayerState preserves the invariant.
LEMMA UpdatePlayerStateStep ==
  ASSUME IInv, NEW c \in Callers, NEW id \in StreamIds, NEW player \in PlayerState,
         UpdatePlayerState(c, id, player)
  PROVE  IInv'
  <1> USE DEF Holds, HasPriority, TemporaryIn
  <1>1. \A s \in Stream : LET u == [s EXCEPT !.player = player] IN
          u \in Stream /\ u # NoStream /\ u.id = s.id /\ u.prio = s.prio /\ u.muted = s.muted
    BY NoStreamAssumption DEF Stream, Priority
  <1>2. StackOK'
    BY <1>1, SlotFacts, GoodStack DEF UpdatePlayerState
  <1>3. \A x \in StreamIds : TemporaryIn(x, primary, pip) <=> TemporaryIn(x, primary', pip')
    BY <1>1, SlotFacts DEF UpdatePlayerState
  <1>4. /\ inflight' \in SUBSET [by: Callers \cup Timer, snap: VideoState] /\ StackConsistent'
        /\ latest' \in SUBSET inflight' /\ lost' \in BOOLEAN /\ DisplaysFollow'
    BY <1>2, AnnounceFacts DEF IInv, StackOK, UpdatePlayerState
  <1>5. CountdownIffTemporary'
    BY <1>3, CountdownPointwise, CountdownPointwiseNext DEF IInv, UpdatePlayerState, timerVars
  <1>6. CountdownRuns'
    BY DEF IInv, CountdownRuns, UpdatePlayerState, timerVars
  <1>7. TypeOK'
    BY <1>2, <1>4 DEF IInv, TypeOK, StackOK, UpdatePlayerState, timerVars
  <1> QED BY <1>4, <1>5, <1>6, <1>7 DEF IInv

\* handleTimerExpired preserves the invariant, also when its timer is a stale one.
LEMMA HandleTimerExpiredStep ==
  ASSUME IInv, NEW t \in fired, HandleTimerExpired(t)
  PROVE  IInv'
  <1> USE DEF Holds, HasPriority, TemporaryIn
  <1>0. t \in Timer /\ t.id \in StreamIds
    BY DEF IInv, TypeOK, Timer
  <1>1. CountdownRuns'
    <2> SUFFICES ASSUME NEW s \in StreamIds, timers'[s] # 0
                 PROVE  [id |-> s, n |-> timers'[s]] \in armed' \cup fired'
      BY DEF CountdownRuns
    <2>1. ~closed
      BY CountdownPointwise DEF IInv, HandleTimerExpired
    <2>2. s # t.id /\ timers'[s] = timers[s]
      BY <1>0, <2>1 DEF HandleTimerExpired, IInv, TypeOK
    <2> QED BY <2>2 DEF IInv, CountdownRuns, HandleTimerExpired
  <1>2. CASE closed \/ ~(Holds(pip, t.id) \/ Holds(primary, t.id))
    <2>1. UNCHANGED <<mode, primary, pip, inflight, armed, nextTimer, closed, broadcast, latest, lost>>
      BY <1>2 DEF HandleTimerExpired, stack, history
    <2>2. timers' = timers
      BY <1>0, <1>2, CountdownPointwise DEF HandleTimerExpired, IInv, TypeOK
    <2>3. TypeOK'
      BY <2>1, <2>2 DEF IInv, TypeOK, HandleTimerExpired
    <2>4. StackConsistent'
      BY <2>1 DEF IInv, StackConsistent, Snapshot, Consistent, ModeMatchesPrimary,
                  PipNeedsPrimary, SlotsDistinct, OnlyPrimaryAudible
    <2>5. CountdownIffTemporary'
      BY <2>1, <2>2 DEF IInv, CountdownIffTemporary, ShownTemporary
    <2>6. DisplaysFollow'
      BY <2>1 DEF IInv, DisplaysFollow, Snapshot
    <2> QED BY <1>1, <2>3, <2>4, <2>5, <2>6 DEF IInv
  <1>3. CASE ~closed /\ Holds(pip, t.id)
    <2>1. /\ pip' = NoStream /\ UNCHANGED <<mode, primary, closed, armed, nextTimer, broadcast>>
          /\ inflight' = inflight \cup {[by |-> t, snap |-> Snapshot]}
          /\ latest' = {} /\ lost' = TRUE
          /\ timers' = [timers EXCEPT ![t.id] = 0] /\ fired' = fired \ {t}
      BY <1>3 DEF HandleTimerExpired
    <2>2. StackOK'
      BY <1>3, <2>1, SlotFacts, GoodStack
    <2>3. Snapshot \in VideoState
      BY DEF IInv, TypeOK, Snapshot, VideoState
    <2>4. TypeOK'
      <3>1. lost' \in BOOLEAN
        BY <2>1, Zenon
      <3> QED BY <1>0, <2>1, <2>2, <2>3, <3>1 DEF IInv, TypeOK, StackOK
    <2>5. StackConsistent'
      <3>1. \A r \in inflight' : Consistent(r.snap)
        BY <2>1 DEF IInv, StackConsistent
      <3> QED BY <2>1, <2>2, <3>1
           DEF IInv, StackOK, StackConsistent, Consistent, ModeMatchesPrimary, PipNeedsPrimary,
               SlotsDistinct, OnlyPrimaryAudible
    <2>6. CountdownIffTemporary'
      BY <1>0, <1>3, <2>1, SlotFacts, CountdownPointwise, CountdownPointwiseNext DEF IInv, TypeOK
    <2>7. DisplaysFollow'
      BY <2>1 DEF DisplaysFollow
    <2> QED BY <1>1, <2>4, <2>5, <2>6, <2>7 DEF IInv
  <1>4. CASE ~closed /\ ~Holds(pip, t.id) /\ Holds(primary, t.id)
    <2>1. /\ PromotePipOrReset /\ Announce(t) /\ UNCHANGED <<closed, armed, nextTimer, broadcast>>
          /\ timers' = [timers EXCEPT ![t.id] = 0] /\ fired' = fired \ {t}
      BY <1>4 DEF HandleTimerExpired
    <2>2. StackOK'
      BY <2>1, PromoteFacts
    <2>3. /\ inflight' \in SUBSET [by: Callers \cup Timer, snap: VideoState] /\ StackConsistent'
          /\ latest' \in SUBSET inflight' /\ lost' \in BOOLEAN /\ DisplaysFollow'
      BY <1>0, <2>1, <2>2, AnnounceFacts DEF IInv, StackOK
    <2>4. TypeOK'
      BY <1>0, <2>1, <2>2, <2>3 DEF IInv, TypeOK, StackOK
    <2>5. CountdownIffTemporary'
      BY <1>0, <1>4, <2>1, SlotFacts, PromoteFacts, CountdownPointwise, CountdownPointwiseNext
      DEF IInv, TypeOK
    <2> QED BY <1>1, <2>3, <2>4, <2>5 DEF IInv
  <1> QED BY <1>2, <1>3, <1>4

\* Close preserves the invariant: it empties the timers map and keeps the stack.
LEMMA CloseStep ==
  ASSUME IInv, Close
  PROVE  IInv'
  <1>0. Retime(StreamIds, {}) /\ UNCHANGED fired
    BY DEF Close
  <1>1. /\ timers' \in [StreamIds -> Nat] /\ armed' \in SUBSET Timer /\ nextTimer' \in Nat \ {0}
        /\ CountdownRuns'
        /\ \A s \in StreamIds : timers'[s] = 0
    <2>1. StreamIds \in SUBSET StreamIds /\ {} \in SUBSET StreamIds
      OBVIOUS
    <2> QED BY <1>0, <2>1, RetimeFacts, Zenon DEF IInv
  <1>2. CountdownIffTemporary'
    BY <1>1, CountdownPointwiseNext DEF Close
  <1>3. StackConsistent'
    BY DEF IInv, Close, stack, StackConsistent, Snapshot, Consistent, ModeMatchesPrimary,
           PipNeedsPrimary, SlotsDistinct, OnlyPrimaryAudible
  <1>4. closed' \in BOOLEAN
    BY Zenon DEF Close
  <1>5. TypeOK'
    BY <1>1, <1>4 DEF IInv, TypeOK, Close, stack, history
  <1>6. DisplaysFollow'
    BY DEF IInv, DisplaysFollow, Snapshot, Close, stack, history
  <1> QED BY <1>1, <1>2, <1>3, <1>5, <1>6 DEF IInv

\* A timer that runs out stays in armed \cup fired.
LEMMA FireStep ==
  ASSUME IInv, NEW t \in armed, Fire(t)
  PROVE  IInv'
  <1>1. TypeOK'
    BY DEF IInv, TypeOK, Fire, stack, history
  <1>2. StackConsistent' /\ CountdownIffTemporary'
    BY DEF IInv, Fire, stack, StackConsistent, Snapshot, CountdownIffTemporary, ShownTemporary,
           Consistent, ModeMatchesPrimary, PipNeedsPrimary, SlotsDistinct, OnlyPrimaryAudible
  <1>3. CountdownRuns'
    BY DEF IInv, CountdownRuns, Fire
  <1>4. DisplaysFollow'
    BY DEF IInv, DisplaysFollow, Snapshot, Fire, stack, history
  <1> QED BY <1>1, <1>2, <1>3, <1>4 DEF IInv

\* publishState hands on a consistent snapshot.
LEMMA PublishStateStep ==
  ASSUME IInv, NEW r \in inflight, PublishState(r)
  PROVE  IInv'
  <1>1. r.snap \in VideoState /\ Consistent(r.snap)
    BY DEF IInv, TypeOK, StackConsistent
  <1>a. lost' \in BOOLEAN
    BY Zenon DEF PublishState
  <1>b. latest' \in SUBSET inflight'
    BY DEF IInv, TypeOK, PublishState
  <1>2. TypeOK'
    BY <1>1, <1>a, <1>b DEF IInv, TypeOK, PublishState, stack, timerVars
  <1>3. StackConsistent'
    BY <1>1 DEF IInv, PublishState, stack, StackConsistent, Snapshot, Consistent, ModeMatchesPrimary,
           PipNeedsPrimary, SlotsDistinct, OnlyPrimaryAudible
  <1>4. CountdownIffTemporary' /\ CountdownRuns'
    BY DEF IInv, PublishState, stack, timerVars, CountdownIffTemporary, ShownTemporary, CountdownRuns
  <1>5. DisplaysFollow'
    <2>0. UNCHANGED Snapshot /\ latest' = latest \ {r} /\ inflight' = inflight \ {r} /\ broadcast' = r.snap
      BY DEF PublishState, stack, Snapshot
    <2>1. CASE lost \/ latest = {}
      BY <2>1 DEF PublishState, DisplaysFollow
    <2>2. CASE ~lost /\ latest # {}
      <3>1. PICK q \in inflight : latest = {q} /\ q.snap = Snapshot
        BY <2>2 DEF IInv, DisplaysFollow
      <3>2. CASE q = r
        BY <2>0, <3>1, <3>2 DEF DisplaysFollow
      <3>3. CASE q # r
        BY <2>0, <3>1, <3>3 DEF DisplaysFollow
      <3> QED BY <3>2, <3>3
    <2> QED BY <2>1, <2>2
  <1> QED BY <1>2, <1>3, <1>4, <1>5 DEF IInv

\* Every step of the coordinator preserves the invariant.
LEMMA NextIInv == IInv /\ [Next]_vars => IInv'
  <1> SUFFICES ASSUME IInv, [Next]_vars PROVE IInv'
    OBVIOUS
  <1>1. CASE \E c \in Callers : Request(c)
    BY <1>1, TriggerStep, DismissAllStep, DismissStep, UpdatePlayerStateStep DEF Request
  <1>2. CASE Close
    BY <1>2, CloseStep
  <1>3. CASE FireTimer
    BY <1>3, FireStep DEF FireTimer
  <1>4. CASE TimerExpired
    BY <1>4, HandleTimerExpiredStep DEF TimerExpired
  <1>5. CASE Publication
    BY <1>5, PublishStateStep DEF Publication
  <1>6. CASE UNCHANGED vars
    BY <1>6 DEF vars, IInv, TypeOK, StackConsistent, Snapshot, CountdownIffTemporary,
                ShownTemporary, CountdownRuns, Consistent, ModeMatchesPrimary, PipNeedsPrimary,
                SlotsDistinct, OnlyPrimaryAudible, DisplaysFollow
  <1> QED BY <1>1, <1>2, <1>3, <1>4, <1>5, <1>6 DEF Next

\* The inductive invariant of the video stack.
THEOREM VideoInvariant == Spec => []IInv
  BY InitIInv, NextIInv, PTL DEF Spec

\* Type correctness of the coordinator's fields.
THEOREM VideoTypeOK == Spec => []TypeOK
  BY VideoInvariant, PTL DEF IInv

\* Whatever the displays are told is a stack they can show.
THEOREM VideoStackConsistent == Spec => []StackConsistent
  BY VideoInvariant, PTL DEF IInv

\* The map of countdowns and the temporary streams on the screen agree, and
\* every entry of the map is counting down or about to be handled.
THEOREM VideoCountdowns == Spec => [](CountdownIffTemporary /\ CountdownRuns)
  BY VideoInvariant, PTL DEF IInv

\* Displays show the stack once the last change is published, unless that
\* publication was overtaken or is the one of a pip that ran out.
THEOREM VideoDisplaysFollow == Spec => []DisplaysFollow
  BY VideoInvariant, PTL DEF IInv
=============================================================================
