--------------------- MODULE RotationCoordinatorProofs ---------------------
(***************************************************************************)
(* Proofs about screen rotation, for every number of screens, every set of *)
(* intervals and any number of timer generations.  What makes the          *)
(* properties inductive is in RotInv and PauseInv: a waiting callback      *)
(* never carries a generation that has not been handed out yet, so arming  *)
(* a new timer cannot revive an old callback.                              *)
(***************************************************************************)
EXTENDS RotationCoordinator, TLAPS

\* The rotation timer: generations, and RotationArmed.
RotInv ==
    /\ timerGen \in Nat /\ rotateTimer \in Nat /\ rotateRunning \in BOOLEAN
    /\ rotateFired \in SUBSET (Nat \ {0}) /\ lastRequest \in Nat
    /\ \A g \in rotateFired : g <= timerGen
    /\ rotateRunning => rotateTimer # 0 /\ timerGen \notin rotateFired
    /\ timerGen \in rotateFired => rotateTimer # 0
    /\ rotateTimer # 0 => rotateTimer = timerGen
    /\ lastRequest < timerGen \/ (lastRequest = 0 /\ timerGen = 0)
    /\ RotationArmed

\* The pause timer: generations, and TimedPauseEnds.
PauseInv ==
    /\ pauseGen \in Nat /\ pauseTimer \in Nat /\ pauseRunning \in BOOLEAN
    /\ pauseFired \in SUBSET (Nat \ {0})
    /\ \A g \in pauseFired : g <= pauseGen
    /\ pauseTimer # 0 => pauseTimer = pauseGen
    /\ pauseRunning => pauseTimer # 0 /\ pauseGen \notin pauseFired
    /\ stopped => pauseTimer = 0
    /\ TimedPauseEnds

\* The screen index and what was published about it.
ScreenInv ==
    /\ snapshot \in Config /\ currentScreen \in Nat
    /\ published \in RotateData \cup {NotPublished}
    /\ ScreenInRange
    /\ PublishedIsCurrent

IInv ==
    /\ paused \in BOOLEAN /\ stopped \in BOOLEAN
    /\ RotInv
    /\ PauseInv
    /\ ScreenInv

\* A remainder is smaller than a positive divisor.
LEMMA ModRange == ASSUME NEW a \in Int, NEW b \in Nat, b > 0 PROVE a % b \in Nat /\ a % b < b
  OBVIOUS

\* The fields of a configuration have the types Config gives them.
LEMMA ConfigFacts ==
  ASSUME NEW snap \in Config
  PROVE  snap.total \in Nat /\ snap.interval \in Nat /\ snap.pause \in Nat
  <1>1. snap.total \in 0..MaxScreens /\ snap.interval \in Intervals /\ snap.pause \in PauseDefaults
    BY DEF Config
  <1>2. snap.total \in Nat
    BY <1>1, ScreensAssumption
  <1>3. snap.interval \in Nat /\ snap.pause \in Nat
    BY <1>1, IntervalsAssumption
  <1> QED BY <1>2, <1>3

\* The coordinator as NewCoordinator leaves it.
LEMMA InitIInv == Init => IInv
  <1> SUFFICES ASSUME Init PROVE IInv
    OBVIOUS
  <1>1. snapshot \in Config /\ snapshot.total \in Nat /\ snapshot.interval \in Nat
    BY ConfigFacts DEF Init
  <1>2. paused \in BOOLEAN /\ stopped \in BOOLEAN /\ pauseRunning \in BOOLEAN
    BY Zenon DEF Init
  <1>3. RotInv
    <2>1. rotateRunning = (snapshot.total > 1 /\ snapshot.interval > 0)
      BY DEF Init
    <2>2. rotateRunning \in BOOLEAN
      BY <2>1, Zenon
    <2>3. RotationArmed
      BY <1>1 DEF Init, RotationArmed, RotationPending, MayRotate
    <2>4. CASE snapshot.total > 1 /\ snapshot.interval > 0
      BY <1>1, <2>2, <2>3, <2>4 DEF Init, RotInv
    <2>5. CASE ~(snapshot.total > 1 /\ snapshot.interval > 0)
      <3>1. timerGen \in {0, 1} /\ rotateTimer = 0 /\ ~rotateRunning /\ lastRequest = 0
        BY <2>5 DEF Init
      <3> QED BY <2>2, <2>3, <3>1 DEF Init, RotInv
    <2> QED BY <2>4, <2>5
  <1>4. PauseInv
    BY <1>2 DEF Init, PauseInv, TimedPauseEnds
  <1>5. ScreenInv
    BY <1>1 DEF Init, ScreenInv, ScreenInRange, PublishedIsCurrent, total
  <1> QED BY <1>2, <1>3, <1>4, <1>5 DEF IInv

-----------------------------------------------------------------------------
(* Timers.                                                                 *)

\* What a step may do to the variables the timer lemmas do not determine.
Frame ==
    /\ snapshot' \in Config
    /\ paused' \in BOOLEAN
    /\ stopped' \in BOOLEAN
    /\ lastRequest' \in {lastRequest, timerGen}
    /\ rotateFired' \in SUBSET rotateFired

\* stopRotationTimerLocked suits a state in which nothing is to rotate.
LEMMA StopRotation ==
  ASSUME RotInv, Frame, StopRotationTimer, ~MayRotate'
  PROVE  RotInv'
  <1>1. rotateRunning' \in BOOLEAN /\ ~rotateRunning' /\ rotateTimer' = 0 /\ timerGen' = timerGen + 1
    BY Zenon DEF StopRotationTimer
  <1>2. \A g \in rotateFired' : g \in Nat \ {0} /\ g <= timerGen
    BY DEF RotInv, Frame
  <1>3. RotationArmed'
    BY <1>1 DEF RotationArmed, RotationPending
  <1>4. lastRequest' \in Nat /\ lastRequest' < timerGen'
    BY <1>1 DEF RotInv, Frame
  <1> QED BY <1>1, <1>2, <1>3, <1>4 DEF RotInv

\* armRotationTimerLocked suits every state.
LEMMA ArmRotation ==
  ASSUME RotInv, Frame, ArmRotationTimer
  PROVE  RotInv'
  <1>1. CASE ~MayRotate'
    BY <1>1, StopRotation DEF ArmRotationTimer
  <1>2. CASE MayRotate'
    <2>1. rotateRunning' = TRUE /\ rotateTimer' = timerGen + 2 /\ timerGen' = timerGen + 2
      BY <1>2 DEF ArmRotationTimer
    <2>2. rotateRunning' \in BOOLEAN
      BY <2>1, Zenon
    <2>3. \A g \in rotateFired' : g \in Nat \ {0} /\ g <= timerGen
      BY DEF RotInv, Frame
    <2>4. RotationArmed'
      BY <1>2, <2>1 DEF RotationArmed, RotationPending
    <2>5. lastRequest' \in Nat /\ lastRequest' < timerGen'
      BY <2>1 DEF RotInv, Frame
    <2> QED BY <2>1, <2>2, <2>3, <2>4, <2>5 DEF RotInv
  <1> QED BY <1>1, <1>2

\* stopPauseTimerLocked: no timer, so no timed pause.
LEMMA StopPause ==
  ASSUME PauseInv, StopPauseTimer, UNCHANGED pauseFired
  PROVE  PauseInv'
  <1>1. pauseRunning' \in BOOLEAN /\ ~pauseRunning' /\ pauseTimer' = 0 /\ pauseGen' = pauseGen + 1
    BY Zenon DEF StopPauseTimer
  <1>2. TimedPauseEnds'
    BY <1>1 DEF TimedPauseEnds
  <1> QED BY <1>1, <1>2 DEF PauseInv

\* A pause timer that has just been started.
LEMMA RestartPause ==
  ASSUME PauseInv, RestartPauseTimer, UNCHANGED pauseFired, ~stopped'
  PROVE  PauseInv'
  <1>1. pauseRunning' = TRUE /\ pauseTimer' = pauseGen + 2 /\ pauseGen' = pauseGen + 2
    BY DEF RestartPauseTimer
  <1>2. pauseRunning' \in BOOLEAN
    BY <1>1, Zenon
  <1>3. TimedPauseEnds'
    BY <1>1 DEF TimedPauseEnds
  <1> QED BY <1>1, <1>2, <1>3 DEF PauseInv

\* A step that leaves the pause timer alone, or ends the pause.
LEMMA KeepPause ==
  ASSUME PauseInv, UNCHANGED <<pauseVars, pauseFired, stopped>>, paused' => paused
  PROVE  PauseInv'
  <1>1. UNCHANGED <<pauseGen, pauseTimer, pauseRunning, pauseFired>>
    BY DEF pauseVars
  <1>2. TimedPauseEnds'
    BY <1>1 DEF PauseInv, TimedPauseEnds
  <1> QED BY <1>1, <1>2 DEF PauseInv

-----------------------------------------------------------------------------
(* Screens.                                                                *)

\* commitScreenChangeLocked with a screen of the new layout.
LEMMA CommitScreen ==
  ASSUME snapshot' \in Config, currentScreen' \in Nat, currentScreen' < snapshot'.total, CommitScreenChange
  PROVE  ScreenInv'
  <1>1. snapshot'.total \in Nat /\ snapshot'.interval \in Nat
    BY ConfigFacts
  <1>2. published' = [screen |-> currentScreen', total |-> snapshot'.total, interval |-> snapshot'.interval]
    BY DEF CommitScreenChange, CurrentData
  <1>3. published' \in RotateData
    BY <1>1, <1>2 DEF RotateData
  <1>4. ScreenInRange' /\ PublishedIsCurrent'
    BY <1>1, <1>2 DEF ScreenInRange, PublishedIsCurrent, total
  <1> QED BY <1>3, <1>4 DEF ScreenInv

\* A step that leaves screen, configuration and published data alone keeps them in step.
LEMMA KeepScreen ==
  ASSUME ScreenInv, UNCHANGED <<snapshot, currentScreen, published>>
  PROVE  ScreenInv'
  BY DEF ScreenInv, ScreenInRange, PublishedIsCurrent, total

-----------------------------------------------------------------------------
(* Actions.                                                                *)

\* SelectScreen preserves the invariant.
LEMMA SelectScreenStep ==
  ASSUME IInv, NEW index \in 0..MaxScreens, SelectScreen(index)
  PROVE  IInv'
  <1>1. paused' \in BOOLEAN /\ stopped' \in BOOLEAN /\ Frame
    BY DEF IInv, SelectScreen, Frame, ScreenInv
  <1>2. RotInv'
    BY <1>1, ArmRotation DEF IInv, SelectScreen, CommitScreenChange
  <1>3. PauseInv'
    BY KeepPause DEF IInv, SelectScreen
  <1>4. ScreenInv'
    BY <1>1, CommitScreen, ScreensAssumption DEF SelectScreen, Frame, total
  <1> QED BY <1>1, <1>2, <1>3, <1>4 DEF IInv

\* AdvanceScreen preserves the invariant: the new index is a remainder by the screen count.
LEMMA AdvanceScreenStep ==
  ASSUME IInv, NEW step \in {-1, 1}, AdvanceScreen(step)
  PROVE  IInv'
  <1>1. paused' \in BOOLEAN /\ stopped' \in BOOLEAN /\ Frame
    BY DEF IInv, AdvanceScreen, Frame, ScreenInv
  <1>2. RotInv'
    BY <1>1, ArmRotation DEF IInv, AdvanceScreen, CommitScreenChange
  <1>3. PauseInv'
    BY KeepPause DEF IInv, AdvanceScreen
  <1>4. ScreenInv'
    <2>1. snapshot.total \in Nat /\ snapshot.total > 0 /\ currentScreen + step + snapshot.total \in Int
      BY ConfigFacts DEF IInv, ScreenInv, AdvanceScreen, total
    <2>2. currentScreen' \in Nat /\ currentScreen' < snapshot'.total
      BY <2>1, ModRange DEF AdvanceScreen, total
    <2> QED BY <1>1, <2>2, CommitScreen DEF AdvanceScreen, Frame
  <1> QED BY <1>1, <1>2, <1>3, <1>4 DEF IInv

\* PauseRotation preserves the invariant.
LEMMA PauseRotationStep ==
  ASSUME IInv, NEW duration \in {-1, 0, 60}, PauseRotation(duration)
  PROVE  IInv'
  <1>1. paused' = TRUE
    BY DEF PauseRotation
  <1>2. paused' \in BOOLEAN
    BY <1>1, Zenon
  <1>3. stopped' \in BOOLEAN /\ Frame
    BY <1>2 DEF IInv, PauseRotation, Frame, ScreenInv
  <1>4. ~MayRotate'
    BY <1>1 DEF MayRotate
  <1>5. RotInv'
    BY <1>3, <1>4, StopRotation DEF IInv, PauseRotation
  <1>6. PauseInv'
    BY StopPause, RestartPause DEF IInv, PauseRotation
  <1>7. ScreenInv'
    BY KeepScreen DEF IInv, PauseRotation
  <1> QED BY <1>2, <1>3, <1>5, <1>6, <1>7 DEF IInv

\* ResumeRotation preserves the invariant.
LEMMA ResumeRotationStep ==
  ASSUME IInv, ResumeRotation
  PROVE  IInv'
  <1>1. paused' \in BOOLEAN
    BY Zenon DEF ResumeRotation
  <1>2. stopped' \in BOOLEAN /\ Frame
    BY <1>1 DEF IInv, ResumeRotation, Frame, ScreenInv
  <1>3. RotInv'
    BY <1>2, ArmRotation DEF IInv, ResumeRotation
  <1>4. PauseInv'
    BY StopPause DEF IInv, ResumeRotation
  <1>5. ScreenInv'
    BY KeepScreen DEF IInv, ResumeRotation
  <1> QED BY <1>1, <1>2, <1>3, <1>4, <1>5 DEF IInv

\* UpdateConfig preserves the invariant, with and without screens in the new layout.
LEMMA UpdateConfigStep ==
  ASSUME IInv, NEW snap \in Config, UpdateConfig(snap)
  PROVE  IInv'
  <1>1. paused' \in BOOLEAN /\ stopped' \in BOOLEAN /\ Frame
    BY DEF IInv, UpdateConfig, Frame
  <1>2. PauseInv'
    BY KeepPause DEF IInv, UpdateConfig
  <1>3. CASE snap.total = 0
    <2>1. RotInv'
      BY <1>1, <1>3, StopRotation DEF IInv, UpdateConfig, MayRotate
    <2>2. ScreenInv'
      BY <1>3 DEF IInv, UpdateConfig, ScreenInv, ScreenInRange, PublishedIsCurrent, total
    <2> QED BY <1>1, <1>2, <2>1, <2>2 DEF IInv
  <1>4. CASE snap.total # 0
    <2>1. RotInv'
      BY <1>1, <1>4, ArmRotation DEF IInv, UpdateConfig, CommitScreenChange
    <2>2. snap.total \in Nat
      BY ConfigFacts
    <2>3. currentScreen' \in Nat /\ currentScreen' < snapshot'.total
      BY <1>4, <2>2 DEF IInv, ScreenInv, UpdateConfig
    <2>4. ScreenInv'
      BY <1>1, <1>4, <2>3, CommitScreen DEF UpdateConfig, Frame
    <2> QED BY <1>1, <1>2, <2>1, <2>4 DEF IInv
  <1> QED BY <1>3, <1>4

\* Stop preserves the invariant.
LEMMA StopStep ==
  ASSUME IInv, Stop
  PROVE  IInv'
  <1>1. stopped' = TRUE
    BY DEF Stop
  <1>2. stopped' \in BOOLEAN
    BY <1>1, Zenon
  <1>3. paused' \in BOOLEAN /\ Frame
    BY <1>2 DEF IInv, Stop, Frame, ScreenInv
  <1>4. RotInv'
    BY <1>1, <1>3, StopRotation DEF IInv, Stop, MayRotate
  <1>5. PauseInv'
    BY StopPause DEF IInv, Stop
  <1>6. ScreenInv'
    BY KeepScreen DEF IInv, Stop
  <1> QED BY <1>2, <1>3, <1>4, <1>5, <1>6 DEF IInv

\* A rotation timer that runs out moves from running to fired and stays pending.
LEMMA RotateTimerFiresStep ==
  ASSUME IInv, RotateTimerFires
  PROVE  IInv'
  <1>1. /\ paused' \in BOOLEAN /\ stopped' \in BOOLEAN
        /\ UNCHANGED <<snapshot, currentScreen, paused, stopped, timerGen, rotateTimer, pauseVars,
                       pauseFired, published, lastRequest>>
    BY DEF IInv, RotateTimerFires
  <1>2. RotInv'
    <2>1. rotateRunning' \in BOOLEAN /\ ~rotateRunning' /\ rotateRunning
      BY Zenon DEF RotateTimerFires
    <2>2. rotateTimer = timerGen /\ rotateTimer # 0 /\ rotateFired' = rotateFired \cup {timerGen}
      BY <2>1 DEF IInv, RotInv, RotateTimerFires
    <2>3. RotationArmed'
      BY <1>1, <2>1, <2>2 DEF IInv, RotInv, RotationArmed, RotationPending, MayRotate
    <2> QED BY <1>1, <2>1, <2>2, <2>3 DEF IInv, RotInv
  <1>3. PauseInv' /\ ScreenInv'
    BY <1>1, KeepPause, KeepScreen DEF IInv
  <1> QED BY <1>1, <1>2, <1>3 DEF IInv

\* A pause timer that runs out moves from running to fired and its pause still ends.
LEMMA PauseTimerFiresStep ==
  ASSUME IInv, PauseTimerFires
  PROVE  IInv'
  <1>1. /\ paused' \in BOOLEAN /\ stopped' \in BOOLEAN
        /\ UNCHANGED <<snapshot, currentScreen, paused, stopped, timerGen, rotateTimer, rotateRunning,
                       pauseGen, pauseTimer, rotateFired, published, lastRequest>>
    BY DEF IInv, PauseTimerFires, timerVars
  <1>2. RotInv'
    BY <1>1 DEF IInv, RotInv, RotationArmed, RotationPending, MayRotate
  <1>3. PauseInv'
    <2>1. pauseRunning' \in BOOLEAN /\ ~pauseRunning' /\ pauseRunning
      BY Zenon DEF PauseTimerFires
    <2>2. pauseTimer = pauseGen /\ pauseTimer # 0 /\ pauseFired' = pauseFired \cup {pauseGen}
      BY <2>1 DEF IInv, PauseInv, PauseTimerFires
    <2>3. TimedPauseEnds'
      BY <1>1, <2>2 DEF TimedPauseEnds
    <2> QED BY <1>1, <2>1, <2>2, <2>3 DEF IInv, PauseInv
  <1>4. ScreenInv'
    BY <1>1, KeepScreen DEF IInv
  <1> QED BY <1>1, <1>2, <1>3, <1>4 DEF IInv

\* A rotation callback either holds the current generation, and then the
\* coordinator is in a state that rotates, or it changes nothing.
LEMMA OnRotateTimeoutStep ==
  ASSUME IInv, NEW gen \in rotateFired, OnRotateTimeout(gen)
  PROVE  IInv'
  <1>1. /\ paused' \in BOOLEAN /\ stopped' \in BOOLEAN /\ Frame
        /\ UNCHANGED <<snapshot, paused, stopped, pauseVars, pauseFired, lastRequest>>
        /\ rotateFired' = rotateFired \ {gen}
    BY DEF IInv, ScreenInv, OnRotateTimeout, Frame
  <1>2. PauseInv'
    BY <1>1, KeepPause DEF IInv
  <1>3. CASE timerGen = gen
    <2>1. MayRotate
      BY <1>3 DEF IInv, RotInv, RotationArmed, RotationPending
    <2>2. currentScreen' = (currentScreen + 1) % snapshot.total /\ CommitScreenChange
      BY <1>3, <2>1 DEF OnRotateTimeout, MayRotate, total
    <2>3. RotInv'
      BY <1>1, <2>2, ArmRotation DEF IInv, CommitScreenChange
    <2>4. snapshot.total \in Nat /\ snapshot.total > 0 /\ currentScreen + 1 \in Int
      BY <2>1, ConfigFacts DEF IInv, ScreenInv, MayRotate
    <2>5. currentScreen' \in Nat /\ currentScreen' < snapshot'.total
      BY <1>1, <2>2, <2>4, ModRange
    <2>6. ScreenInv'
      BY <1>1, <2>2, <2>5, CommitScreen DEF Frame
    <2> QED BY <1>1, <1>2, <2>3, <2>6 DEF IInv
  <1>4. CASE timerGen # gen
    <2>1. UNCHANGED <<currentScreen, timerGen, rotateTimer, rotateRunning, published>>
      BY <1>4 DEF OnRotateTimeout, timerVars
    <2>2. RotInv'
      BY <1>1, <1>4, <2>1 DEF IInv, RotInv, RotationArmed, RotationPending, MayRotate
    <2>3. ScreenInv'
      BY <1>1, <2>1, KeepScreen DEF IInv
    <2> QED BY <1>1, <1>2, <2>2, <2>3 DEF IInv
  <1> QED BY <1>3, <1>4

\* The pause callback resumes rotation if it is the current one, else it changes nothing.
LEMMA OnPauseTimeoutStep ==
  ASSUME IInv, NEW gen \in pauseFired, OnPauseTimeout(gen)
  PROVE  IInv'
  <1>1. /\ UNCHANGED <<snapshot, stopped, currentScreen, pauseGen, pauseTimer, pauseRunning,
                       rotateFired, published, lastRequest>>
        /\ pauseFired' = pauseFired \ {gen}
    BY DEF OnPauseTimeout, pauseVars
  <1>2. ScreenInv'
    BY <1>1, KeepScreen DEF IInv
  <1>3. CASE ~stopped /\ paused /\ pauseGen = gen
    <2>1. paused' = FALSE /\ ArmRotationTimer
      BY <1>3 DEF OnPauseTimeout
    <2>2. paused' \in BOOLEAN
      BY <2>1, Zenon
    <2>3. stopped' \in BOOLEAN /\ Frame
      BY <1>1, <2>2 DEF IInv, ScreenInv, Frame
    <2>4. RotInv'
      BY <2>1, <2>3, ArmRotation DEF IInv
    <2>5. PauseInv'
      BY <1>1, <2>1 DEF IInv, PauseInv, TimedPauseEnds
    <2> QED BY <1>2, <2>2, <2>3, <2>4, <2>5 DEF IInv
  <1>4. CASE ~(~stopped /\ paused /\ pauseGen = gen)
    <2>1. UNCHANGED <<paused, timerGen, rotateTimer, rotateRunning>>
      BY <1>4 DEF OnPauseTimeout, timerVars
    <2>2. RotInv'
      BY <1>1, <2>1 DEF IInv, RotInv, RotationArmed, RotationPending, MayRotate
    <2>3. PauseInv'
      BY <1>1, <1>4, <2>1 DEF IInv, PauseInv, TimedPauseEnds
    <2> QED BY <1>1, <1>2, <2>1, <2>2, <2>3 DEF IInv
  <1> QED BY <1>3, <1>4

-----------------------------------------------------------------------------
\* Every step of the coordinator preserves the invariant.
LEMMA NextIInv == IInv /\ [Next]_vars => IInv'
  <1> SUFFICES ASSUME IInv, [Next]_vars PROVE IInv'
    OBVIOUS
  <1>1. CASE Request
    BY <1>1, SelectScreenStep, AdvanceScreenStep, PauseRotationStep, ResumeRotationStep DEF Request
  <1>2. CASE \E snap \in Config : UpdateConfig(snap)
    BY <1>2, UpdateConfigStep
  <1>3. CASE Stop
    BY <1>3, StopStep
  <1>4. CASE RotateTimerFires \/ PauseTimerFires
    BY <1>4, RotateTimerFiresStep, PauseTimerFiresStep
  <1>5. CASE RotateTimeout \/ PauseTimeout
    BY <1>5, OnRotateTimeoutStep, OnPauseTimeoutStep DEF RotateTimeout, PauseTimeout
  <1>6. CASE UNCHANGED vars
    <2>1. RotInv'
      BY <1>6 DEF vars, timerVars, IInv, RotInv, RotationArmed, RotationPending, MayRotate
    <2>2. PauseInv' /\ ScreenInv'
      BY <1>6, KeepPause, KeepScreen DEF vars, IInv
    <2> QED BY <1>6, <2>1, <2>2 DEF vars, IInv
  <1> QED BY <1>1, <1>2, <1>3, <1>4, <1>5, <1>6 DEF Next

\* The inductive invariant implies the safety invariants the model checker checks.
LEMMA IInvFacts ==
  ASSUME IInv
  PROVE  TypeOK /\ ScreenInRange /\ RotationArmed /\ TimedPauseEnds /\ PublishedIsCurrent
  BY DEF IInv, RotInv, PauseInv, ScreenInv, TypeOK

\* The inductive invariant of screen rotation.
THEOREM RotationInvariant == Spec => []IInv
  BY InitIInv, NextIInv, PTL DEF Spec

\* Type correctness of the coordinator's fields.
THEOREM RotationTypeOK == Spec => []TypeOK
  BY RotationInvariant, IInvFacts, PTL

\* The screen shown exists, whatever reloads and timers did.
THEOREM RotationScreenInRange == Spec => []ScreenInRange
  BY RotationInvariant, IInvFacts, PTL

\* A rotation is pending exactly when the wall is to rotate.
THEOREM RotationIsArmed == Spec => []RotationArmed
  BY RotationInvariant, IInvFacts, PTL

\* A timed pause always has its end on the way.
THEOREM RotationTimedPause == Spec => []TimedPauseEnds
  BY RotationInvariant, IInvFacts, PTL

\* The last screen.rotate describes the screen the coordinator is on.
THEOREM RotationPublished == Spec => []PublishedIsCurrent
  BY RotationInvariant, IInvFacts, PTL

\* No callback armed before a request or reload moves the screen after it.
THEOREM RotationFullInterval == Spec => FullIntervalAfterRequest
  <1>1. ASSUME IInv, [Next]_vars
        PROVE  [\A gen \in rotateFired :
                  OnRotateTimeout(gen) /\ currentScreen' # currentScreen => gen > lastRequest]_vars
    <2> SUFFICES ASSUME NEW gen \in rotateFired, OnRotateTimeout(gen), currentScreen' # currentScreen
                 PROVE  gen > lastRequest
      OBVIOUS
    <2>1. timerGen = gen
      BY DEF OnRotateTimeout
    <2>2. gen \in Nat \ {0} /\ lastRequest \in Nat
      BY <1>1 DEF IInv, RotInv
    <2>3. lastRequest < timerGen \/ timerGen = 0
      BY <1>1 DEF IInv, RotInv
    <2> QED BY <2>1, <2>2, <2>3
  <1> QED BY <1>1, RotationInvariant, PTL DEF Spec, FullIntervalAfterRequest
=============================================================================
